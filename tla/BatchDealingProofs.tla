------------------------- MODULE BatchDealingProofs -------------------------
(***************************************************************************)
(* Theorems about PolicyUpdate: balancing deals every row out to one place *)
(* of one rank, and the loss does not see how the rows are dealt out and   *)
(* cut into micro-batches.                                                 *)
(*                                                                         *)
(* A share is a set of rows: its rows can be sorted, sorting and arranging *)
(* them repeats none, and the shares one after the other fill the batch.   *)
(* So the order is a permutation, each row has one place, and of all the   *)
(* micro-batches of the step one has the row.  Its factor over a common    *)
(* denominator is then that of the whole step.                             *)
(***************************************************************************)
EXTENDS PolicyUpdateProofs

-----------------------------------------------------------------------------
(* The order within a share *)

Descends(s) == \A a, b \in DOMAIN s : a < b => Lighter(s[a], s[b])

\* The rows are totally ordered.
LEMMA LighterOrders ==
  ASSUME RowsFit, Len(rows) = NumRollouts
  PROVE  /\ \A i \in Rollouts : ~ Lighter(i, i)
         /\ \A i, j \in Rollouts : i # j => Lighter(i, j) \/ Lighter(j, i)
         /\ \A i, j, k \in Rollouts : Lighter(i, j) /\ Lighter(j, k) => Lighter(i, k)
<1>1. \A i \in Rollouts : Attended(i) \in Int /\ i \in Int
  <2>1. \A i \in Rollouts : i \in 1..Len(rows)
    BY DEF Rollouts
  <2>2. \A t \in Positions : t \in Int
    BY PositionsFinite
  <2>3. Rollouts \subseteq Int
    BY UpdateAssumption DEF Rollouts
  <2> QED  BY <2>1, <2>2, <2>3, AttendedInRow
<1>2. \A i \in Rollouts : ~ Lighter(i, i)
  BY <1>1 DEF Lighter
<1>3. \A i, j \in Rollouts : i # j => Lighter(i, j) \/ Lighter(j, i)
  BY <1>1 DEF Lighter
<1>4. \A i, j, k \in Rollouts : Lighter(i, j) /\ Lighter(j, k) => Lighter(i, k)
  BY <1>1 DEF Lighter
<1> QED  BY <1>2, <1>3, <1>4

LEMMA RolloutsFinite ==
  /\ IsFiniteSet(Rollouts) /\ Cardinality(Rollouts) = NumRollouts
  /\ Rollouts \subseteq Nat
<1>1. NumRollouts \in Nat \ {0}
  BY UpdateAssumption
<1>2. 1 \in Int /\ NumRollouts \in Int /\ ~ (1 > NumRollouts) /\ NumRollouts - 1 + 1 = NumRollouts
  BY <1>1
<1>3. IsFiniteSet(1..NumRollouts) /\ Cardinality(1..NumRollouts) = NumRollouts
  BY <1>2, FS_Interval
<1> QED  BY <1>1, <1>3 DEF Rollouts

LEMMA HeaviestExists ==
  ASSUME RowsFit, Len(rows) = NumRollouts, NEW S \in SUBSET Rollouts, S # {}
  PROVE  \E e \in S : \A x \in S \ {e} : Lighter(x, e)
<1> DEFINE Has(T) == \E e \in T : \A x \in T \ {e} : Lighter(x, e)
           F == {T \in SUBSET S : T # {} /\ ~ Has(T)}
<1> SUFFICES ASSUME F # {} PROVE FALSE
  OBVIOUS
<1>1. IsFiniteSet(S)
  BY RolloutsFinite, FS_Subset
<1>2. F \in SUBSET SUBSET S
  OBVIOUS
<1>3. PICK T \in F : \A U \in F : U \subseteq T => U = T
  <2> HIDE DEF F
  <2> QED  BY <1>1, <1>2, MinimalSubset
<1>4. PICK x \in T : TRUE
  OBVIOUS
<1>5. x \in Rollouts /\ T \subseteq Rollouts /\ ~ Has(T)
  OBVIOUS
<1>6. T \ {x} # {}
  BY <1>4, <1>5
<1>7. Has(T \ {x})
  <2>1. T \ {x} \subseteq T /\ T \ {x} # T /\ T \ {x} \in SUBSET S
    BY <1>4
  <2> QED  BY <1>3, <1>6, <2>1
<1>8. PICK e \in T \ {x} : \A y \in (T \ {x}) \ {e} : Lighter(y, e)
  BY <1>7
<1>9. CASE Lighter(x, e)
  <2>1. \A y \in T \ {e} : Lighter(y, e)
    BY <1>8, <1>9
  <2> QED  BY <1>5, <1>8, <2>1
<1>10. CASE Lighter(e, x)
  <2>1. \A y \in T \ {x} : Lighter(y, x)
    BY <1>5, <1>8, <1>10, LighterOrders
  <2> QED  BY <1>4, <1>5, <2>1
<1>11. Lighter(x, e) \/ Lighter(e, x)
  BY <1>5, <1>8, LighterOrders
<1> QED  BY <1>9, <1>10, <1>11

LEMMA SortedExists ==
  ASSUME RowsFit, Len(rows) = NumRollouts, NEW S \in SUBSET Rollouts
  PROVE  \E s \in [1..Cardinality(S) -> S] : Descends(s)
<1> DEFINE Has(T) == \E s \in [1..Cardinality(T) -> T] : Descends(s)
           F == {T \in SUBSET S : ~ Has(T)}
<1> SUFFICES ASSUME F # {} PROVE FALSE
  OBVIOUS
<1>1. IsFiniteSet(S)
  BY RolloutsFinite, FS_Subset
<1>2. F \in SUBSET SUBSET S
  OBVIOUS
<1>3. PICK T \in F : \A U \in F : U \subseteq T => U = T
  <2> HIDE DEF F
  <2> QED  BY <1>1, <1>2, MinimalSubset
<1>4. T \in SUBSET S /\ T \subseteq Rollouts /\ ~ Has(T) /\ IsFiniteSet(T)
  BY <1>1, FS_Subset
<1>5. T # {}
  <2> SUFFICES ASSUME T = {} PROVE FALSE
    OBVIOUS
  <2>1. Cardinality(T) = 0
    BY FS_EmptySet
  <2>2. [x \in {} |-> x] \in [1..Cardinality(T) -> T] /\ Descends([x \in {} |-> x])
    BY <2>1 DEF Descends
  <2> QED  BY <1>4, <2>2
<1>6. PICK e \in T : \A x \in T \ {e} : Lighter(x, e)
  BY <1>4, <1>5, HeaviestExists
<1>7. PICK R : R = T \ {e}
  OBVIOUS
<1>8. Has(R)
  <2>1. R \subseteq T /\ R # T /\ R \in SUBSET S
    BY <1>4, <1>7
  <2> QED  BY <1>3, <2>1
<1>9. PICK c : c = Cardinality(R)
  OBVIOUS
<1>10. c \in Nat /\ Cardinality(T) = c + 1
  <2>1. IsFiniteSet(R)
    BY <1>4, <1>7, FS_Subset
  <2>2. Cardinality(R) = Cardinality(T) - 1 /\ Cardinality(T) \in Nat /\ Cardinality(R) \in Nat
    BY <1>4, <1>7, <2>1, FS_RemoveElement, FS_CardinalityType
  <2> QED  BY <1>9, <2>2
<1>11. PICK s \in [1..c -> R] : Descends(s)
  BY <1>8, <1>9
<1> DEFINE w == [a \in 1..(c + 1) |-> IF a = c + 1 THEN e ELSE s[a]]
<1>12. ASSUME NEW a \in 1..(c + 1)
       PROVE  /\ a = c + 1 => w[a] = e
              /\ a # c + 1 => a \in 1..c /\ w[a] = s[a] /\ s[a] \in R
              /\ w[a] \in T
  <2>1. a # c + 1 => a \in 1..c
    BY <1>10
  <2> QED  BY <1>7, <2>1
<1>13. w \in [1..Cardinality(T) -> T]
  BY <1>10, <1>12
<1>14. Descends(w)
  <2> SUFFICES ASSUME NEW a \in 1..(c + 1), NEW b \in 1..(c + 1), a < b
               PROVE  Lighter(w[a], w[b])
    BY DEF Descends
  <2>1. a # c + 1
    BY <1>10
  <2>2. a \in 1..c /\ w[a] = s[a] /\ s[a] \in R
    BY <2>1, <1>12
  <2> HIDE DEF w
  <2>3. CASE b = c + 1
    <3>1. Lighter(s[a], e)
      BY <1>6, <1>7, <2>2
    <3> QED  BY <2>2, <2>3, <3>1, <1>12
  <2>4. CASE b # c + 1
    <3>1. b \in 1..c /\ w[b] = s[b]
      BY <2>4, <1>12
    <3>2. Lighter(s[a], s[b])
      BY <1>11, <2>2, <3>1 DEF Descends
    <3> QED  BY <2>2, <3>1, <3>2
  <2> QED  BY <2>3, <2>4
<1> HIDE DEF w
<1> QED  BY <1>4, <1>13, <1>14

\* Sorting a share neither loses nor repeats a row.
LEMMA SortedShare ==
  ASSUME RowsFit, Len(rows) = NumRollouts, NEW S \in SUBSET Rollouts
  PROVE  /\ Sorted(S) \in [1..Cardinality(S) -> S]
         /\ \A a, b \in 1..Cardinality(S) : Sorted(S)[a] = Sorted(S)[b] => a = b
         /\ Cardinality(S) \in Nat
<1>1. IsFiniteSet(S) /\ Cardinality(S) \in Nat
  BY RolloutsFinite, FS_Subset, FS_CardinalityType
<1>2. PICK c \in Nat : c = Cardinality(S)
  BY <1>1
<1>3. PICK s : s = Sorted(S)
  OBVIOUS
<1>4. s \in [1..c -> S] /\ Descends(s)
  BY <1>2, <1>3, SortedExists DEF Sorted, Descends
<1>5. ASSUME NEW a \in 1..c, NEW b \in 1..c, s[a] = s[b] PROVE a = b
  <2>1. ~ (a < b) /\ ~ (b < a)
    BY <1>4, <1>5, LighterOrders DEF Descends
  <2> QED  BY <1>2, <2>1
<1> QED  BY <1>2, <1>3, <1>4, <1>5

-----------------------------------------------------------------------------
(* The places of a batch: R shares of Z rows each, one after the other *)

Place(Z, r, j) == (r - 1) * Z + j

LEMMA PlaceInBatch ==
  ASSUME NEW R \in Nat, NEW Z \in Nat \ {0}, NEW r \in 1..R, NEW j \in 1..Z
  PROVE  Place(Z, r, j) \in 1..(R * Z)
<1>1. PICK x, y : x = r - 1 /\ y = R - r
  OBVIOUS
<1>2. x \in Nat /\ y \in Nat /\ R = x + y + 1
  BY <1>1
<1>3. R * Z = x * Z + y * Z + Z
  <2>1. (x + y + 1) * Z = x * Z + y * Z + Z
    BY <1>2
  <2> QED  BY <1>2, <2>1
<1>4. x * Z \in Nat /\ y * Z \in Nat
  BY <1>2
<1>5. Place(Z, r, j) = x * Z + j
  BY <1>1 DEF Place
<1> QED  BY <1>3, <1>4, <1>5

LEMMA PlaceIsUnique ==
  ASSUME NEW Z \in Nat \ {0}, NEW r \in Int, NEW q \in Int, NEW j \in 1..Z, NEW l \in 1..Z,
         Place(Z, r, j) = Place(Z, q, l)
  PROVE  r = q /\ j = l
<1>1. ASSUME NEW x \in Int, NEW y \in Int, NEW a \in 1..Z, NEW b \in 1..Z, x < y
      PROVE  Place(Z, x, a) < Place(Z, y, b)
  <2>1. PICK u, d : u = x - 1 /\ d = y - x - 1
    OBVIOUS
  <2>2. u \in Int /\ d \in Nat /\ y - 1 = u + d + 1
    BY <1>1, <2>1
  <2>3. (u + d + 1) * Z = u * Z + d * Z + Z
    BY <2>2
  <2>4. u * Z \in Int /\ d * Z \in Nat
    BY <2>2
  <2>5. Place(Z, x, a) = u * Z + a
    BY <2>1 DEF Place
  <2>6. Place(Z, y, b) = u * Z + d * Z + Z + b
    BY <2>2, <2>3 DEF Place
  <2> QED  BY <2>4, <2>5, <2>6
<1>2. Place(Z, r, j) \in Int /\ Place(Z, q, l) \in Int
  BY DEF Place
<1>3. ~ (r < q)
  <2> SUFFICES ASSUME r < q PROVE FALSE
    OBVIOUS
  <2>1. Place(Z, r, j) < Place(Z, q, l)
    BY <1>1
  <2> QED  BY <1>2, <2>1
<1>4. ~ (q < r)
  <2> SUFFICES ASSUME q < r PROVE FALSE
    OBVIOUS
  <2>1. Place(Z, q, l) < Place(Z, r, j)
    BY <1>1
  <2> QED  BY <1>2, <2>1
<1>5. r = q
  BY <1>3, <1>4
<1>6. PICK z : z = (r - 1) * Z
  OBVIOUS
<1>7. z \in Int /\ z + j = z + l
  BY <1>5, <1>6 DEF Place
<1> QED  BY <1>5, <1>7

LEMMA PlaceExists ==
  ASSUME NEW R \in Nat, NEW Z \in Nat \ {0}, NEW p \in 1..(R * Z)
  PROVE  \E r \in 1..R, j \in 1..Z : p = Place(Z, r, j)
<1>1. PICK q : q = (p - 1) \div Z
  OBVIOUS
<1>2. p \in Int /\ p >= 1 /\ p <= R * Z /\ R * Z \in Int
  OBVIOUS
<1>3. q \in Int /\ Z * q <= p - 1 /\ p - 1 < Z * q + Z
  BY <1>1, <1>2
<1>4. PICK r, j : r = q + 1 /\ j = p - Z * q
  OBVIOUS
<1>5. Z * q \in Int /\ (r - 1) * Z = Z * q
  BY <1>3, <1>4
<1>6. j \in 1..Z /\ p = Place(Z, r, j)
  BY <1>2, <1>3, <1>4, <1>5 DEF Place
<1>7. q >= 0
  <2> SUFFICES ASSUME q < 0 PROVE FALSE
    BY <1>3
  <2>1. (q + 1) * Z <= 0
    BY <1>3
  <2>2. (q + 1) * Z = Z * q + Z
    BY <1>3
  <2> QED  BY <1>2, <1>3, <1>5, <2>1, <2>2
<1>8. q < R
  <2> SUFFICES ASSUME q >= R PROVE FALSE
    BY <1>3
  <2>1. (q - R) * Z >= 0
    BY <1>3
  <2>2. (q - R) * Z = Z * q - R * Z
    BY <1>3
  <2> QED  BY <1>2, <1>3, <1>5, <2>1, <2>2
<1>9. r \in 1..R
  BY <1>3, <1>4, <1>7, <1>8
<1> QED  BY <1>6, <1>9

LEMMA PlaceNext ==
  ASSUME NEW Z \in Nat \ {0}, NEW i \in Nat, NEW j \in 1..Z
  PROVE  /\ (i + 1) * Z = i * Z + Z /\ i * Z \in Nat
         /\ Place(Z, i + 1, j) = i * Z + j
<1>1. (i + 1) * Z = i * Z + Z /\ i * Z \in Nat /\ i + 1 - 1 = i
  OBVIOUS
<1> QED  BY <1>1 DEF Place

-----------------------------------------------------------------------------
(* The shares, one after the other *)

LEMMA ForwardInduction ==
  ASSUME NEW N \in Nat \ {0}, NEW B, 1 \in B, \A k \in 1..(N - 1) : k \in B => k + 1 \in B
  PROVE  \A k \in 1..N : k \in B
<1> DEFINE C == {k \in 1..N : N + 1 - k \in B}
<1>1. N \in C
  <2>1. N \in 1..N /\ N + 1 - N = 1
    OBVIOUS
  <2> QED  BY <2>1
<1>2. ASSUME NEW k \in 1..(N - 1), k + 1 \in C PROVE k \in C
  <2>1. PICK j : j = N - k
    OBVIOUS
  <2>2. j \in 1..(N - 1) /\ N + 1 - (k + 1) = j /\ N + 1 - k = j + 1 /\ k \in 1..N
    BY <2>1
  <2>3. j \in B
    BY <1>2, <2>2
  <2> QED  BY <2>2, <2>3
<1> HIDE DEF C
<1>3. \A k \in 1..N : k \in C
  BY <1>1, <1>2, BackwardInduction
<1>4. ASSUME NEW k \in 1..N PROVE k \in B
  <2>1. PICK j : j = N + 1 - k
    OBVIOUS
  <2>2. j \in 1..N /\ N + 1 - j = k
    BY <2>1
  <2>3. j \in C
    BY <1>3, <2>2
  <2> QED  BY <2>2, <2>3 DEF C
<1> QED  BY <1>4

\* The recursion of FlattenSeq for the first k sequences.
IsFlat(f, seqs, k) == f = [i \in 1..k |-> IF i = 1 THEN seqs[i] ELSE f[i - 1] \o seqs[i]]

LEMMA FlatExists ==
  ASSUME NEW N \in Nat \ {0}, NEW seqs
  PROVE  \E f : IsFlat(f, seqs, N)
<1> DEFINE B == {k \in 1..N : \E f : IsFlat(f, seqs, k)}
<1>1. 1 \in B
  <2> DEFINE f == [i \in 1..1 |-> seqs[i]]
  <2>1. IsFlat(f, seqs, 1)
    BY DEF IsFlat
  <2> QED  BY <2>1
<1>2. ASSUME NEW k \in 1..(N - 1), k \in B PROVE k + 1 \in B
  <2>1. PICK f : IsFlat(f, seqs, k)
    BY <1>2
  <2>2. PICK l : l = k + 1
    OBVIOUS
  <2>3. l \in 1..N /\ l # 1 /\ l - 1 = k /\ k \in 1..k
    BY <2>2
  <2>4. \A i \in 1..l : i # l => i \in 1..k
    BY <2>2
  <2>5. \A i \in 1..l : i # 1 => i - 1 \in 1..l /\ i - 1 # l
    BY <2>2
  <2> DEFINE g == [i \in 1..l |-> IF i = l THEN f[k] \o seqs[l] ELSE f[i]]
  <2>6. \A i \in 1..l : i # 1 => g[i - 1] = f[i - 1]
    BY <2>5
  <2>7. \A i \in 1..k : f[i] = IF i = 1 THEN seqs[i] ELSE f[i - 1] \o seqs[i]
    BY <2>1 DEF IsFlat
  <2>8. ASSUME NEW i \in 1..l
        PROVE  g[i] = IF i = 1 THEN seqs[i] ELSE g[i - 1] \o seqs[i]
    <3>1. CASE i = l
      <4>1. g[l] = f[k] \o seqs[l]
        BY <3>1
      <4>2. g[l - 1] = f[k]
        BY <2>3, <2>6, <3>1
      <4> HIDE DEF g
      <4> QED  BY <3>1, <4>1, <4>2, <2>3
    <3>2. CASE i # l
      <4>1. g[i] = f[i] /\ i \in 1..k
        BY <3>2, <2>4
      <4>2. i # 1 => g[i - 1] = f[i - 1]
        BY <2>6
      <4> HIDE DEF g
      <4> QED  BY <4>1, <4>2, <2>7
    <3> QED  BY <3>1, <3>2
  <2>9. g = [i \in 1..l |-> g[i]]
    OBVIOUS
  <2> HIDE DEF g
  <2>10. IsFlat(g, seqs, l)
    BY <2>8, <2>9 DEF IsFlat
  <2> QED  BY <2>2, <2>3, <2>10
<1> HIDE DEF B
<1>3. \A k \in 1..N : k \in B
  BY <1>1, <1>2, ForwardInduction
<1>4. N \in 1..N
  OBVIOUS
<1> QED  BY <1>3, <1>4 DEF B

\* R sequences of Z members of T; and each of these members at its place in f.
Shares(seqs, R, Z, T) == Len(seqs) = R /\ \A r \in 1..R : seqs[r] \in [1..Z -> T]

InPlace(f, seqs, R, Z, T) ==
  /\ f \in [1..(R * Z) -> T]
  /\ \A r \in 1..R : \A j \in 1..Z : f[Place(Z, r, j)] = seqs[r][j]

\* What FlattenSeq makes of sequences of one length: each element in its place.
LEMMA FlattenPlaces ==
  ASSUME NEW R \in Nat \ {0}, NEW Z \in Nat \ {0}, NEW T, NEW seqs, Shares(seqs, R, Z, T)
  PROVE  InPlace(FlattenSeq(seqs), seqs, R, Z, T)
<1> USE DEF Shares, InPlace
<1>1. Len(seqs) = R
  OBVIOUS
<1>2. PICK f : IsFlat(f, seqs, R) /\ FlattenSeq(seqs) = f[R]
  <2> DEFINE f == CHOOSE f : IsFlat(f, seqs, R)
  <2>1. IsFlat(f, seqs, R)
    BY FlatExists
  <2>2. FlattenSeq(seqs) = f[R]
    BY <1>1 DEF FlattenSeq, IsFlat
  <2> HIDE DEF f
  <2> QED  BY <2>1, <2>2
<1>3. \A i \in 1..R : f[i] = IF i = 1 THEN seqs[i] ELSE f[i - 1] \o seqs[i]
  BY <1>2 DEF IsFlat
<1> DEFINE Holds(i) == /\ f[i] \in [1..(i * Z) -> T]
                       /\ \A r \in 1..i, j \in 1..Z : f[i][Place(Z, r, j)] = seqs[r][j]
           B == {i \in 1..R : Holds(i)}
<1>4. 1 \in B
  <2>1. 1 \in 1..R /\ 1 * Z = Z
    OBVIOUS
  <2>2. f[1] = seqs[1] /\ seqs[1] \in [1..Z -> T]
    BY <1>3, <2>1
  <2>3. \A r \in 1..1, j \in 1..Z : r = 1 /\ Place(Z, r, j) = j
    BY DEF Place
  <2> QED  BY <2>1, <2>2, <2>3
<1>5. ASSUME NEW i \in 1..(R - 1), i \in B PROVE i + 1 \in B
  <2>1. PICK l, w : l = i + 1 /\ w = i * Z
    OBVIOUS
  <2>2. l \in 1..R /\ l # 1 /\ l - 1 = i
    BY <2>1
  <2>3. w \in Nat /\ l * Z = w + Z
    BY <2>1, PlaceNext
  <2>4. PICK a, b : a = f[i] /\ b = seqs[l]
    OBVIOUS
  <2>5. a \in [1..w -> T] /\ b \in [1..Z -> T]
    BY <1>5, <2>1, <2>2, <2>4
  <2>6. f[l] = a \o b
    BY <1>3, <2>2, <2>4
  <2>7. a \in Seq(T) /\ b \in Seq(T) /\ Len(a) = w /\ Len(b) = Z
    <3>1. a \in Seq(T) /\ Len(a) = w
      BY <2>3, <2>5
    <3>2. b \in Seq(T) /\ Len(b) = Z
      BY <2>5
    <3> QED  BY <3>1, <3>2
  <2>8. /\ a \o b \in Seq(T) /\ Len(a \o b) = w + Z
        /\ \A p \in 1..w : (a \o b)[p] = a[p]
        /\ \A j \in 1..Z : (a \o b)[w + j] = b[j]
    <3>1. /\ a \o b \in Seq(T) /\ Len(a \o b) = w + Z
          /\ \A p \in 1..(w + Z) : (a \o b)[p] = IF p <= w THEN a[p] ELSE b[p - w]
      BY <2>7, ConcatProperties
    <3>2. \A p \in 1..w : (a \o b)[p] = a[p]
      BY <2>3, <3>1
    <3>3. ASSUME NEW j \in 1..Z PROVE (a \o b)[w + j] = b[j]
      <4>1. PICK p : p = w + j
        OBVIOUS
      <4>2. p \in 1..(w + Z) /\ ~ (p <= w) /\ p - w = j
        BY <2>3, <4>1
      <4> QED  BY <3>1, <4>1, <4>2
    <3> QED  BY <3>1, <3>2, <3>3
  <2>9. f[l] \in [1..(l * Z) -> T]
    <3>1. a \o b \in [1..(w + Z) -> T]
      BY <2>8, ElementOfSeq, LenProperties
    <3> QED  BY <2>3, <2>6, <3>1
  <2>10. ASSUME NEW r \in 1..l, NEW j \in 1..Z PROVE f[l][Place(Z, r, j)] = seqs[r][j]
    <3>1. CASE r = l
      <4>1. Place(Z, l, j) = w + j
        BY <2>1, PlaceNext
      <4> QED  BY <3>1, <4>1, <2>4, <2>6, <2>8
    <3>2. CASE r # l
      <4>1. r \in 1..i /\ i \in Nat
        BY <2>1, <3>2
      <4>2. Place(Z, r, j) \in 1..w
        BY <2>1, <4>1, PlaceInBatch
      <4>3. a[Place(Z, r, j)] = seqs[r][j]
        BY <1>5, <2>4, <4>1
      <4> QED  BY <4>2, <4>3, <2>6, <2>8
    <3> QED  BY <3>1, <3>2
  <2> QED  BY <2>1, <2>2, <2>9, <2>10
<1> HIDE DEF B
<1>6. \A i \in 1..R : i \in B
  BY <1>4, <1>5, ForwardInduction
<1>7. R \in 1..R
  OBVIOUS
<1> QED  BY <1>2, <1>6, <1>7 DEF B

-----------------------------------------------------------------------------
(* The share of a rank *)

\* The lighter rows at both ends: odd places of the sorted share, then the even
\* ones backwards.
LEMMA ArrangedShare ==
  ASSUME RowsFit, Len(rows) = NumRollouts, NEW S \in SUBSET Rollouts
  PROVE  /\ Arranged(S) \in [1..Cardinality(S) -> S]
         /\ \A a, b \in 1..Cardinality(S) : Arranged(S)[a] = Arranged(S)[b] => a = b
<1>1. PICK c, s : c = Cardinality(S) /\ s = Sorted(S)
  OBVIOUS
<1>2. /\ c \in Nat /\ s \in [1..c -> S]
      /\ \A a, b \in 1..c : s[a] = s[b] => a = b
  BY <1>1, SortedShare
<1>3. Len(s) = c
  BY <1>2
<1>4. PICK h, q : h = (c + 1) \div 2 /\ q = c \div 2
  OBVIOUS
<1>5. h \in Nat /\ q \in Nat /\ h + q = c /\ (c = 2 * q \/ c = 2 * q + 1)
  BY <1>2, <1>4
<1>6. PICK x, y : x = [k \in 1..h |-> s[2 * k - 1]] /\ y = [k \in 1..q |-> s[2 * k]]
  OBVIOUS
<1>7. Arranged(S) = x \o Reverse(y)
  BY <1>1, <1>3, <1>4, <1>6 DEF Arranged
<1>8. \A k \in 1..h : 2 * k - 1 \in 1..c
  BY <1>5
<1>9. \A k \in 1..q : 2 * k \in 1..c
  BY <1>5
<1>10. x \in [1..h -> S] /\ y \in [1..q -> S]
  BY <1>2, <1>6, <1>8, <1>9
<1>11. Len(x) = h /\ x \in Seq(S) /\ Len(y) = q
  BY <1>5, <1>10
<1>12. PICK z : z = Reverse(y)
  OBVIOUS
<1>13. z = [k \in 1..q |-> y[q - k + 1]]
  BY <1>11, <1>12 DEF Reverse
<1>14. \A k \in 1..q : q - k + 1 \in 1..q
  BY <1>5
<1>15. z \in [1..q -> S] /\ \A k \in 1..q : z[k] = s[2 * (q - k + 1)]
  BY <1>6, <1>10, <1>13, <1>14
<1>16. Len(z) = q /\ z \in Seq(S)
  BY <1>5, <1>15
<1>17. PICK w : w = x \o z
  OBVIOUS
<1>18. /\ w \in Seq(S) /\ Len(w) = c
       /\ \A p \in 1..c : w[p] = IF p <= h THEN x[p] ELSE z[p - h]
  <2>1. /\ x \o z \in Seq(S)
        /\ Len(x \o z) = Len(x) + Len(z)
        /\ \A p \in 1..(Len(x) + Len(z)) : (x \o z)[p] = IF p <= Len(x) THEN x[p] ELSE z[p - Len(x)]
    BY <1>11, <1>16, ConcatProperties
  <2>2. Len(x) = h /\ Len(z) = q /\ h + q = c
    BY <1>5, <1>11, <1>16
  <2> QED  BY <1>17, <2>1, <2>2
<1>19. w \in [1..c -> S]
  BY <1>18, ElementOfSeq, LenProperties
<1> DEFINE From(p) == IF p <= h THEN 2 * p - 1 ELSE 2 * (c - p + 1)
<1>20. ASSUME NEW p \in 1..c PROVE From(p) \in 1..c /\ w[p] = s[From(p)]
  <2>1. CASE p <= h
    <3>1. p \in 1..h /\ From(p) = 2 * p - 1
      BY <1>5, <2>1
    <3> HIDE DEF From
    <3> QED  BY <1>6, <1>8, <1>18, <2>1, <3>1
  <2>2. CASE ~ (p <= h)
    <3>1. PICK k : k = p - h
      OBVIOUS
    <3>2. k \in 1..q /\ q - k + 1 = c - p + 1 /\ From(p) = 2 * (c - p + 1)
      BY <1>5, <2>2, <3>1
    <3>3. q - k + 1 \in 1..q
      BY <1>14, <3>2
    <3>4. PICK v : v = q - k + 1
      OBVIOUS
    <3>5. v \in 1..q /\ 2 * v \in 1..c /\ From(p) = 2 * v
      BY <1>9, <3>2, <3>3, <3>4
    <3>6. w[p] = z[k] /\ z[k] = s[2 * v]
      BY <1>15, <1>18, <2>2, <3>1, <3>2, <3>4
    <3> HIDE DEF From
    <3> QED  BY <3>5, <3>6
  <2> QED  BY <2>1, <2>2
<1>21. ASSUME NEW a \in 1..c, NEW b \in 1..c, From(a) = From(b) PROVE a = b
  BY <1>5, <1>21
<1> HIDE DEF From
<1>22. \A a, b \in 1..c : w[a] = w[b] => a = b
  BY <1>2, <1>20, <1>21
<1> QED  BY <1>1, <1>7, <1>12, <1>17, <1>19, <1>22

-----------------------------------------------------------------------------
(* The batch is dealt out: every row to one place *)

Permuted(o) ==
  /\ o \in [Rollouts -> Rollouts]
  /\ \A p, q \in Rollouts : o[p] = o[q] => p = q
  /\ \A i \in Rollouts : \E p \in Rollouts : o[p] = i

LEMMA InjectionPermutes ==
  ASSUME NEW o \in [Rollouts -> Rollouts], \A p, q \in Rollouts : o[p] = o[q] => p = q
  PROVE  Permuted(o)
<1>1. ASSUME NEW i \in Rollouts, \A p \in Rollouts : o[p] # i PROVE FALSE
  <2>1. PICK T : T = Rollouts \ {i}
    OBVIOUS
  <2>2. IsFiniteSet(T) /\ Cardinality(T) = Cardinality(Rollouts) - 1
    BY <2>1, RolloutsFinite, FS_RemoveElement
  <2>3. Cardinality(T) < Cardinality(Rollouts)
    BY <2>2, RolloutsFinite, UpdateAssumption
  <2>4. o \in [Rollouts -> T]
    BY <1>1, <2>1
  <2>5. \E p, q \in Rollouts : p # q /\ o[p] = o[q]
    BY <2>2, <2>3, <2>4, RolloutsFinite, FS_PigeonHole
  <2> QED  BY <2>5
<1> QED  BY <1>1 DEF Permuted

LEMMA DealtShares ==
  ASSUME RowsFit, Len(rows) = NumRollouts, NEW k \in RankCounts, NEW rank \in [Rollouts -> 1..k],
         \A r \in 1..k : Cardinality({i \in Rollouts : rank[i] = r}) * k = NumRollouts
  PROVE  Permuted(FlattenSeq([r \in 1..k |-> Arranged({i \in Rollouts : rank[i] = r})]))
<1> DEFINE share(r) == {i \in Rollouts : rank[i] = r}
           seqs == [r \in 1..k |-> Arranged(share(r))]
<1>1. k \in Nat \ {0} /\ NumRollouts \in Nat \ {0} /\ 1 \in 1..k
  BY UpdateAssumption
<1>2. \A r \in 1..k : Cardinality(share(r)) \in Nat
  <2>1. \A r \in 1..k : share(r) \subseteq Rollouts
    OBVIOUS
  <2> HIDE DEF share
  <2> QED  BY <2>1, RolloutsFinite, FS_Subset, FS_CardinalityType
<1>3. PICK Z \in Nat : Z = Cardinality(share(1))
  BY <1>1, <1>2
<1>4. Z * k = NumRollouts
  BY <1>1, <1>3
<1>5. Z \in Nat \ {0} /\ k * Z = NumRollouts
  <2>1. 0 * k = 0
    BY <1>1
  <2>2. k * Z = Z * k
    BY <1>1
  <2> QED  BY <1>1, <1>4, <2>1, <2>2
<1>6. ASSUME NEW r \in 1..k PROVE Cardinality(share(r)) = Z
  <2>1. PICK d \in Nat : d = Cardinality(share(r))
    BY <1>2
  <2>2. d * k = Z * k
    BY <1>4, <2>1
  <2>3. d = Z
    BY <1>1, <2>2, TimesOrder
  <2> QED  BY <2>1, <2>3
<1>7. ASSUME NEW r \in 1..k
      PROVE  /\ seqs[r] \in [1..Z -> Rollouts]
             /\ \A j \in 1..Z : rank[seqs[r][j]] = r
             /\ \A j, l \in 1..Z : seqs[r][j] = seqs[r][l] => j = l
  <2>1. PICK S : S = share(r)
    OBVIOUS
  <2>2. S \in SUBSET Rollouts /\ Cardinality(S) = Z /\ \A i \in S : rank[i] = r
    BY <1>6, <2>1
  <2>3. PICK w : w = Arranged(S)
    OBVIOUS
  <2>4. w \in [1..Z -> S] /\ \A j, l \in 1..Z : w[j] = w[l] => j = l
    BY <2>2, <2>3, ArrangedShare
  <2>5. seqs[r] = w
    BY <2>1, <2>3
  <2> HIDE DEF seqs
  <2> QED  BY <2>2, <2>4, <2>5
<1>8. seqs \in [1..k -> [1..Z -> Rollouts]]
  <2>1. seqs = [r \in 1..k |-> seqs[r]]
    OBVIOUS
  <2> HIDE DEF seqs
  <2> QED  BY <1>7, <2>1
<1>9. PICK o : o = FlattenSeq(seqs)
  OBVIOUS
<1> HIDE DEF seqs
<1>10. /\ o \in [1..(k * Z) -> Rollouts]
       /\ \A r \in 1..k, j \in 1..Z : o[Place(Z, r, j)] = seqs[r][j]
  <2>1. Shares(seqs, k, Z, Rollouts)
    BY <1>1, <1>7, <1>8 DEF Shares
  <2>2. InPlace(FlattenSeq(seqs), seqs, k, Z, Rollouts)
    BY <1>1, <1>5, <2>1, FlattenPlaces
  <2> QED  BY <1>9, <2>2 DEF InPlace
<1>11. o \in [Rollouts -> Rollouts]
  BY <1>5, <1>10 DEF Rollouts
<1>12. ASSUME NEW p \in Rollouts, NEW q \in Rollouts, o[p] = o[q] PROVE p = q
  <2>1. p \in 1..(k * Z) /\ q \in 1..(k * Z)
    BY <1>5 DEF Rollouts
  <2>2. PICK r \in 1..k, j \in 1..Z : p = Place(Z, r, j)
    BY <1>1, <1>5, <2>1, PlaceExists
  <2>3. PICK u \in 1..k, l \in 1..Z : q = Place(Z, u, l)
    BY <1>1, <1>5, <2>1, PlaceExists
  <2>4. o[p] = seqs[r][j] /\ o[q] = seqs[u][l]
    BY <1>10, <2>2, <2>3
  <2>5. r = u
    <3>1. rank[seqs[r][j]] = r /\ rank[seqs[u][l]] = u
      BY <1>7
    <3> QED  BY <1>12, <2>4, <3>1
  <2>6. j = l
    BY ZenonT(30), <1>7, <1>12, <2>4, <2>5
  <2> QED  BY <2>2, <2>3, <2>5, <2>6
<1>13. Permuted(o)
  BY <1>11, <1>12, InjectionPermutes
<1> QED  BY <1>9, <1>13 DEF seqs

\* Once the batch is dealt out, its order is a permutation of the rows.
DealtOnce == order # <<>> => Permuted(order) /\ dp \in RankCounts

RankIsKnown == dp \in RankCounts \cup {0}

DInv == DealtOnce /\ RankIsKnown /\ n \in GroupSizes \cup {0}

LEMMA DealingInv == Spec => []DInv
<1>1. Init => DInv
  BY DEF Init, DInv, DealtOnce, RankIsKnown
<1>2. IInv /\ DInv /\ [Next]_vars => DInv'
  <2> SUFFICES ASSUME IInv, DInv, [Next]_vars PROVE DInv'
    OBVIOUS
  <2>1. ASSUME UNCHANGED <<order, dp, n>> PROVE DInv'
    BY <2>1 DEF DInv, DealtOnce, RankIsKnown, Permuted
  <2>2. CASE Generate
    BY <2>1, <2>2 DEF Generate
  <2>3. CASE Observe
    BY <2>1, <2>3 DEF Observe
  <2>4. CASE EpisodeTimeout
    BY <2>1, <2>4 DEF EpisodeTimeout
  <2>5. CASE Return
    BY <2>1, <2>5 DEF Return
  <2>6. CASE BalanceBatch
    <3>1. Len(rows) = NumRollouts /\ n' = n
      BY <2>6 DEF BalanceBatch
    <3>2. PICK k \in RankCounts :
            \E rank \in [Rollouts -> 1..k] :
              /\ \A r \in 1..k : Cardinality({i \in Rollouts : rank[i] = r}) * k = NumRollouts
              /\ order' = FlattenSeq([r \in 1..k |-> Arranged({i \in Rollouts : rank[i] = r})])
              /\ dp' = k
      BY <2>6 DEF BalanceBatch
    <3>3. PICK rank \in [Rollouts -> 1..k] :
              /\ \A r \in 1..k : Cardinality({i \in Rollouts : rank[i] = r}) * k = NumRollouts
              /\ order' = FlattenSeq([r \in 1..k |-> Arranged({i \in Rollouts : rank[i] = r})])
              /\ dp' = k
      BY <3>2
    <3>4. Permuted(order')
      BY <3>1, <3>3, DealtShares DEF IInv
    <3> QED  BY <3>1, <3>3, <3>4 DEF DInv, DealtOnce, RankIsKnown, Permuted
  <2>7. CASE ComputeAdvantage
    <3>1. order' = order /\ dp' = dp /\ n' \in GroupSizes
      BY <2>7 DEF ComputeAdvantage
    <3> QED  BY <3>1 DEF DInv, DealtOnce, RankIsKnown, Permuted
  <2>8. CASE UNCHANGED vars
    BY <2>1, <2>8 DEF vars
  <2> QED  BY <2>2, <2>3, <2>4, <2>5, <2>6, <2>7, <2>8 DEF Next
<1> QED  BY <1>1, <1>2, Invariance, PTL DEF Spec

\* Whatever the workloads, balancing deals every row of the batch out to one
\* place of one rank.
THEOREM EveryRowIsDealtOnce == Spec => [](order # <<>> => Permuted(order))
<1>1. DInv => (order # <<>> => Permuted(order))
  BY DEF DInv, DealtOnce
<1> QED  BY <1>1, DealingInv, PTL

\* TypeOK.
THEOREM TypeCorrect == Spec => []TypeOK
<1>1. IInv /\ DInv => TypeOK
  <2> SUFFICES ASSUME IInv, DInv PROVE TypeOK
    OBVIOUS
  <2>1. agent \in AgentShape /\ AgentAligned(agent)
    BY DEF IInv, AgentFits
  <2>2. agent.state \in {"generating", "tools", "terminated"}
    BY <2>1 DEF AgentShape
  <2>3. Len(agent.ids) = Len(agent.mask) + 1
    BY <2>1 DEF AgentAligned
  <2>4. RowsFit /\ DOMAIN rows = 1..Len(rows) /\ Len(rows) <= NumRollouts
    BY DEF IInv, RowsFit
  <2>5. \A i \in DOMAIN rows :
          /\ rows[i].ids \in [Positions -> {"prompt", "policy", "tool", "eos", "pad"}]
          /\ rows[i].attention \in [Positions -> 0..1]
          /\ rows[i].mask \in [Positions -> 0..1]
          /\ rows[i].logprobs \in [Positions -> {"policy", "zero"}] \cup {<<>>}
          /\ rows[i].score \in 0..1
    BY <2>4, RowColumns DEF Marks
  <2>6. order = <<>> \/ order \in [Rollouts -> Rollouts]
    BY DEF DInv, DealtOnce, Permuted
  <2>7. est \in Estimators \cup {None}
    BY DEF IInv, AdvantagesAreCurrent
  <2> QED  BY <2>2, <2>3, <2>4, <2>5, <2>6, <2>7 DEF TypeOK, DInv, RankIsKnown
<1> QED  BY <1>1, Invariance, DealingInv, PTL

-----------------------------------------------------------------------------
(* Fractions that are worth x over d *)

Worth(f, x, d) == IsFrac(f) /\ f[2] > 0 /\ f[1] * d = x * f[2]

LEMMA WorthPlus ==
  ASSUME NEW d \in Int, NEW x \in Int, NEW y \in Int, NEW a, NEW b, Worth(a, x, d), Worth(b, y, d)
  PROVE  Worth(Plus(a, b), x + y, d)
<1>1. PICK a1, a2, b1, b2 : a1 = a[1] /\ a2 = a[2] /\ b1 = b[1] /\ b2 = b[2]
  OBVIOUS
<1>2. /\ a1 \in Int /\ a2 \in Int /\ b1 \in Int /\ b2 \in Int
      /\ a2 > 0 /\ b2 > 0 /\ a1 * d = x * a2 /\ b1 * d = y * b2
  BY <1>1 DEF Worth, IsFrac
<1>3. PICK u, v : u = a1 * b2 + b1 * a2 /\ v = a2 * b2
  OBVIOUS
<1>4. Plus(a, b) = <<u, v>>
  BY <1>1, <1>3 DEF Plus
<1>5. u \in Int /\ v \in Int /\ v > 0
  BY <1>2, <1>3, PositiveTimes
<1>6. u * d = (x + y) * v
  <2>1. u * d = (a1 * d) * b2 + (b1 * d) * a2
    BY <1>2, <1>3
  <2>2. (a1 * d) * b2 = (x * a2) * b2 /\ (b1 * d) * a2 = (y * b2) * a2
    BY <1>2
  <2>3. (x * a2) * b2 = x * v /\ (y * b2) * a2 = y * v
    BY <1>2, <1>3
  <2>4. (x + y) * v = x * v + y * v /\ x * v \in Int /\ y * v \in Int
    BY <1>5
  <2> QED  BY <2>1, <2>2, <2>3, <2>4
<1> QED  BY <1>4, <1>5, <1>6 DEF Worth, IsFrac

LEMMA WorthNothing ==
  ASSUME NEW d \in Int
  PROVE  Worth(Frac(0, 1), 0, d)
<1>1. 0 * d = 0 * 1
  OBVIOUS
<1> QED  BY <1>1 DEF Worth, IsFrac, Frac

-----------------------------------------------------------------------------
(* What a rank adds to the factor of a token *)

\* The denominator of a token's factor.
Denominator(mode, i) ==
  CASE mode = "token-mean"          -> TokensOf(Rollouts)
    [] mode = "seq-mean-token-sum"  -> NumRollouts
    [] mode = "seq-mean-token-mean" -> NumRollouts * Greatest(1, Tokens(i))

Modes == {"token-mean", "seq-mean-token-sum", "seq-mean-token-mean"}

\* It does not depend on the micro-batch.
LEMMA WeightOfToken ==
  ASSUME NEW mode \in Modes, NEW mb, NEW i, NEW t
  PROVE  /\ AggWeight(mode, mb, i, t) = Frac(rows[i].mask[t] * dp, Denominator(mode, i))
         /\ ShareOfTheStep(mode, i, t) = Frac(rows[i].mask[t], Denominator(mode, i))
<1>1. CASE mode = "token-mean"
  BY <1>1 DEF AggWeight, ShareOfTheStep, Denominator, BatchNumTokens
<1>2. CASE mode = "seq-mean-token-sum"
  BY <1>2 DEF AggWeight, ShareOfTheStep, Denominator
<1>3. CASE mode = "seq-mean-token-mean"
  BY <1>3 DEF AggWeight, ShareOfTheStep, Denominator
<1> QED  BY <1>1, <1>2, <1>3 DEF Modes

LEMMA DenominatorIsPositive ==
  ASSUME RowsFit, Len(rows) = NumRollouts, \E j \in Rollouts : Tokens(j) > 0,
         NEW mode \in Modes, NEW i \in Rollouts
  PROVE  Denominator(mode, i) \in Nat \ {0}
<1>1. \A j \in Rollouts : Tokens(j) \in Nat
  BY TokensOfRow DEF Rollouts
<1>2. NumRollouts \in Nat \ {0}
  BY UpdateAssumption
<1>3. CASE mode = "token-mean"
  <2>1. Rollouts \in SUBSET Rollouts
    OBVIOUS
  <2>2. TokensOf(Rollouts) \in Nat /\ \A j \in Rollouts : Tokens(j) <= TokensOf(Rollouts)
    BY <2>1, RolloutsFinite, TokensOfSet
  <2>3. PICK j \in Rollouts : Tokens(j) > 0
    OBVIOUS
  <2>4. TokensOf(Rollouts) \in Nat \ {0}
    BY <1>1, <2>2, <2>3
  <2> QED  BY <1>3, <2>4 DEF Denominator
<1>4. CASE mode = "seq-mean-token-sum"
  BY <1>2, <1>4 DEF Denominator
<1>5. CASE mode = "seq-mean-token-mean"
  <2>1. Greatest(1, Tokens(i)) \in Nat /\ Greatest(1, Tokens(i)) > 0
    BY <1>1 DEF Greatest
  <2>2. PICK g \in Nat : g = Greatest(1, Tokens(i)) /\ g > 0
    BY <2>1
  <2>3. NumRollouts * g \in Nat /\ NumRollouts * g > 0
    BY <1>2, <2>2, PositiveTimes
  <2>4. Denominator(mode, i) = NumRollouts * g
    BY <1>5, <2>2 DEF Denominator
  <2> QED  BY <2>3, <2>4
<1> QED  BY <1>3, <1>4, <1>5 DEF Modes

\* How often row i is in a micro-batch.
Occurrences(mb, i) == Cardinality({k \in DOMAIN mb : mb[k] = i})

LEMMA PartIsWorth ==
  ASSUME NEW mode \in Modes, NEW mb, NEW i, NEW t, NEW a \in Int, NEW d \in Int, d > 0,
         rows[i].mask[t] * dp = a, Denominator(mode, i) = d, NEW c \in Nat, Occurrences(mb, i) = c
  PROVE  Worth(Part(mode, mb, i, t), c * a, d)
<1>1. Part(mode, mb, i, t) = <<c * a, 1 * d>>
  BY WeightOfToken DEF Part, Occurrences, Times, Frac
<1>2. 1 * d = d /\ c * a \in Int
  OBVIOUS
<1> QED  BY <1>1, <1>2 DEF Worth, IsFrac

\* The places of rank r.
Span(lo, hi, Z, r) == lo = (r - 1) * Z + 1 /\ hi = r * Z

\* Row i is at place j of the share of rank r, if r is q, and nowhere else.
HasRow(share, i, j, Z, r, q) ==
  /\ share \in Seq(Rollouts) /\ Len(share) = Z
  /\ \A l \in 1..Z : share[l] = i <=> r = q /\ l = j

\* Where row i is in rank r's share, if it is at place j of rank q's.
LEMMA ShareOfRank ==
  ASSUME NEW Z \in Nat \ {0}, NEW R \in Nat \ {0}, R * Z = NumRollouts, Permuted(order),
         NEW i \in Rollouts, NEW q \in 1..R, NEW j \in 1..Z, order[Place(Z, q, j)] = i,
         NEW r \in 1..R, NEW lo, NEW hi, Span(lo, hi, Z, r)
  PROVE  HasRow(SubSeq(order, lo, hi), i, j, Z, r, q)
<1>1. PICK x, w : x = r - 1 /\ w = x * Z
  OBVIOUS
<1>2. w \in Nat /\ lo = w + 1 /\ hi = w + Z
  <2>1. x \in Nat /\ r = x + 1
    BY <1>1
  <2>2. (x + 1) * Z = x * Z + Z /\ x * Z \in Nat
    BY <2>1, PlaceNext
  <2> QED  BY <1>1, <2>1, <2>2 DEF Span
<1>3. \A l \in 1..Z : Place(Z, r, l) = w + l
  BY <1>1 DEF Place
<1>4. \A l \in 1..Z : lo + l - 1 = w + l
  BY <1>2
<1>5. \A k \in lo..hi : order[k] \in Rollouts
  <2> TAKE k \in lo..hi
  <2>1. PICK l : l = k - w
    OBVIOUS
  <2>2. l \in 1..Z /\ k = w + l
    BY <1>2, <2>1
  <2>3. Place(Z, r, l) \in 1..(R * Z)
    BY <2>2, PlaceInBatch
  <2>4. k \in Rollouts
    BY <1>3, <2>2, <2>3 DEF Rollouts
  <2> QED  BY <2>4 DEF Permuted
<1>6. lo \in Int /\ hi \in Int /\ lo <= hi /\ hi - lo + 1 = Z
  BY <1>2
<1>7. /\ SubSeq(order, lo, hi) \in Seq(Rollouts)
      /\ Len(SubSeq(order, lo, hi)) = IF lo <= hi THEN hi - lo + 1 ELSE 0
      /\ \A l \in 1..(hi - lo + 1) : SubSeq(order, lo, hi)[l] = order[lo + l - 1]
  BY <1>5, <1>6, SubSeqProperties
<1>8. PICK share : share = SubSeq(order, lo, hi)
  OBVIOUS
<1>9. /\ share \in Seq(Rollouts) /\ Len(share) = Z
      /\ \A l \in 1..Z : share[l] = order[lo + l - 1]
  BY <1>6, <1>7, <1>8
<1>10. ASSUME NEW l \in 1..Z PROVE share[l] = i <=> r = q /\ l = j
  <2>1. Place(Z, r, l) \in Rollouts /\ Place(Z, q, j) \in Rollouts
    BY PlaceInBatch DEF Rollouts
  <2>2. share[l] = order[Place(Z, r, l)]
    BY <1>3, <1>4, <1>9
  <2>3. share[l] = i => Place(Z, r, l) = Place(Z, q, j)
    BY <2>1, <2>2 DEF Permuted
  <2>4. Place(Z, r, l) = Place(Z, q, j) => r = q /\ l = j
    BY PlaceIsUnique
  <2> QED  BY <2>2, <2>3, <2>4
<1> QED  BY <1>8, <1>9, <1>10 DEF HasRow

\* The two micro-batches of a share.
Halves(first, second, share, cut, Z) ==
  first = SubSeq(share, 1, cut) /\ second = SubSeq(share, cut + 1, Z)

LEMMA MicroBatches ==
  ASSUME NEW Z \in Nat \ {0}, NEW i, NEW r, NEW q, NEW j \in 1..Z, NEW cut \in 1..Z,
         NEW share, HasRow(share, i, j, Z, r, q),
         NEW first, NEW second, Halves(first, second, share, cut, Z)
  PROVE  /\ Occurrences(first, i) = (IF r = q /\ j <= cut THEN 1 ELSE 0)
         /\ Occurrences(second, i) = (IF r = q /\ cut < j THEN 1 ELSE 0)
<1> USE DEF HasRow
<1>1. \A l \in 1..Z : share[l] \in Rollouts
  BY ElementOfSeq
<1>2. PICK one, from, rest : one = 1 /\ from = cut + 1 /\ rest = Z - cut
  OBVIOUS
<1>3. first = SubSeq(share, one, cut) /\ second = SubSeq(share, from, Z)
  BY <1>2 DEF Halves
<1>4. /\ first \in Seq(Rollouts) /\ Len(first) = cut
      /\ \A k \in 1..cut : first[k] = share[k]
  <2>1. one \in Int /\ cut \in Int /\ \A k \in one..cut : share[k] \in Rollouts
    BY <1>1, <1>2
  <2>2. /\ SubSeq(share, one, cut) \in Seq(Rollouts)
        /\ Len(SubSeq(share, one, cut)) = IF one <= cut THEN cut - one + 1 ELSE 0
        /\ \A k \in 1..(cut - one + 1) : SubSeq(share, one, cut)[k] = share[one + k - 1]
    BY <2>1, SubSeqProperties
  <2>3. cut - one + 1 = cut /\ one <= cut /\ \A k \in 1..cut : one + k - 1 = k
    BY <1>2
  <2> QED  BY <1>3, <2>2, <2>3
<1>5. /\ second \in Seq(Rollouts) /\ Len(second) = rest
      /\ \A k \in 1..rest : second[k] = share[cut + k]
  <2>1. from \in Int /\ Z \in Int /\ \A k \in from..Z : share[k] \in Rollouts
    BY <1>1, <1>2
  <2>2. /\ SubSeq(share, from, Z) \in Seq(Rollouts)
        /\ Len(SubSeq(share, from, Z)) = IF from <= Z THEN Z - from + 1 ELSE 0
        /\ \A k \in 1..(Z - from + 1) : SubSeq(share, from, Z)[k] = share[from + k - 1]
    BY <2>1, SubSeqProperties
  <2>3. Z - from + 1 = rest /\ (~ (from <= Z) => rest = 0) /\ \A k \in 1..rest : from + k - 1 = cut + k
    BY <1>2
  <2> QED  BY <1>3, <2>2, <2>3
<1>6. Occurrences(first, i) = IF r = q /\ j <= cut THEN 1 ELSE 0
  <2>1. PICK S : S = {k \in DOMAIN first : first[k] = i}
    OBVIOUS
  <2>2. DOMAIN first = 1..cut
    BY <1>4
  <2>3. \A k \in 1..cut : k \in 1..Z
    OBVIOUS
  <2>4. \A k \in 1..cut : first[k] = i <=> r = q /\ k = j
    BY <1>4, <2>3
  <2>5. r = q /\ j <= cut => S = {j}
    BY <2>1, <2>2, <2>4
  <2>6. ~ (r = q /\ j <= cut) => S = {}
    BY <2>1, <2>2, <2>4
  <2> QED  BY <2>1, <2>5, <2>6, FS_Singleton, FS_EmptySet DEF Occurrences
<1>7. Occurrences(second, i) = IF r = q /\ cut < j THEN 1 ELSE 0
  <2>1. PICK S, e : S = {k \in DOMAIN second : second[k] = i} /\ e = j - cut
    OBVIOUS
  <2>2. DOMAIN second = 1..rest
    BY <1>5
  <2>3. \A k \in 1..rest : cut + k \in 1..Z
    BY <1>2
  <2>4. \A k \in 1..rest : second[k] = i <=> r = q /\ cut + k = j
    <3> TAKE k \in 1..rest
    <3>1. PICK l : l = cut + k
      OBVIOUS
    <3>2. l \in 1..Z /\ second[k] = share[l]
      BY <1>5, <2>3, <3>1
    <3> QED  BY <3>1, <3>2
  <2>5. \A k \in 1..rest : cut + k = j <=> k = e
    BY <1>2, <2>1
  <2>6. cut < j <=> e \in 1..rest
    BY <1>2, <2>1
  <2>7. r = q /\ cut < j => S = {e}
    BY <2>1, <2>2, <2>4, <2>5, <2>6
  <2>8. ~ (r = q /\ cut < j) => S = {}
    BY <2>1, <2>2, <2>4, <2>5, <2>6
  <2> QED  BY <2>1, <2>7, <2>8, FS_Singleton, FS_EmptySet DEF Occurrences
<1> QED  BY <1>2, <1>3, <1>6, <1>7

LEMMA RankIsWorth ==
  ASSUME dp \in Nat \ {0}, NEW Z \in Nat \ {0}, Z = NumRollouts \div dp, dp * Z = NumRollouts,
         Permuted(order), NEW mode \in Modes, NEW i \in Rollouts, NEW t,
         NEW a \in Int, NEW d \in Int, d > 0,
         rows[i].mask[t] * dp = a, Denominator(mode, i) = d,
         NEW q \in 1..dp, NEW j \in 1..Z, order[Place(Z, q, j)] = i,
         NEW cut \in 1..Z, NEW r \in 1..dp
  PROVE  Worth(RankWeight(mode, cut, i, t, r), IF r = q THEN a ELSE 0, d)
<1>1. PICK lo, hi : lo = (r - 1) * Z + 1 /\ hi = r * Z
  OBVIOUS
<1>2. PICK share : share = SubSeq(order, lo, hi)
  OBVIOUS
<1>3. PICK R : R = dp
  OBVIOUS
<1>4. Span(lo, hi, Z, r)
  BY <1>1 DEF Span
<1>5. R \in Nat \ {0} /\ R * Z = NumRollouts /\ r \in 1..R /\ q \in 1..R
  BY <1>3
<1>6. HasRow(share, i, j, Z, r, q)
  BY <1>2, <1>4, <1>5, ShareOfRank
<1>7. PICK first, second : Halves(first, second, share, cut, Z)
  BY DEF Halves
<1>8. /\ Occurrences(first, i) = (IF r = q /\ j <= cut THEN 1 ELSE 0)
      /\ Occurrences(second, i) = (IF r = q /\ cut < j THEN 1 ELSE 0)
  BY <1>6, <1>7, MicroBatches
<1>9. RankWeight(mode, cut, i, t, r) = Plus(Part(mode, first, i, t), Part(mode, second, i, t))
  BY <1>1, <1>2, <1>7 DEF RankWeight, Halves
<1>10. PICK c, e : c = Occurrences(first, i) /\ e = Occurrences(second, i)
  OBVIOUS
<1>11. c \in Nat /\ e \in Nat /\ c + e = (IF r = q THEN 1 ELSE 0)
  <2>1. c = (IF r = q /\ j <= cut THEN 1 ELSE 0) /\ e = (IF r = q /\ cut < j THEN 1 ELSE 0)
    BY <1>8, <1>10
  <2>3. j <= cut <=> ~ (cut < j)
    OBVIOUS
  <2>4. CASE r = q
    <3>1. (c = 1 /\ e = 0) \/ (c = 0 /\ e = 1)
      BY <2>1, <2>3, <2>4
    <3> QED  BY <2>4, <3>1
  <2>5. CASE r # q
    <3>1. c = 0 /\ e = 0
      BY <2>1, <2>5
    <3> QED  BY <2>5, <3>1
  <2> QED  BY <2>4, <2>5
<1>12. Worth(Part(mode, first, i, t), c * a, d) /\ Worth(Part(mode, second, i, t), e * a, d)
  BY <1>10, <1>11, PartIsWorth
<1>13. PICK x, y : x = c * a /\ y = e * a
  OBVIOUS
<1>14. x \in Int /\ y \in Int /\ x + y = (IF r = q THEN a ELSE 0)
  <2>1. x + y = (c + e) * a /\ x \in Int /\ y \in Int
    BY <1>11, <1>13
  <2>2. 1 * a = a /\ 0 * a = 0
    OBVIOUS
  <2> QED  BY <1>11, <2>1, <2>2
<1>15. Worth(Plus(Part(mode, first, i, t), Part(mode, second, i, t)), x + y, d)
  BY <1>12, <1>13, <1>14, WorthPlus
<1> QED  BY <1>9, <1>14, <1>15

-----------------------------------------------------------------------------
(* The step *)

\* The recursion of Weight for the first k ranks.
IsTotal(f, mode, cut, i, t, k) ==
  f = [r \in 0..k |->
         IF r = 0 THEN Frac(0, 1) ELSE Plus(f[r - 1], RankWeight(mode, cut, i, t, r))]

LEMMA TotalExists ==
  ASSUME NEW R \in Nat \ {0}, NEW mode, NEW cut, NEW i, NEW t
  PROVE  \E f : IsTotal(f, mode, cut, i, t, R)
<1> DEFINE B == {k \in 1..(R + 1) : \E f : IsTotal(f, mode, cut, i, t, k - 1)}
<1>1. 1 \in B
  <2> DEFINE f == [r \in 0..0 |-> Frac(0, 1)]
  <2>1. f = [r \in 0..0 |-> IF r = 0 THEN Frac(0, 1)
                            ELSE Plus(f[r - 1], RankWeight(mode, cut, i, t, r))]
    OBVIOUS
  <2> HIDE DEF f
  <2>2. IsTotal(f, mode, cut, i, t, 0)
    BY <2>1 DEF IsTotal
  <2>3. 1 \in 1..(R + 1) /\ 1 - 1 = 0
    OBVIOUS
  <2> QED  BY <2>2, <2>3
<1>2. ASSUME NEW l \in 1..R, l \in B PROVE l + 1 \in B
  <2>1. PICK k : k = l - 1
    OBVIOUS
  <2>2. k \in Nat /\ l = k + 1 /\ l + 1 - 1 = l /\ l + 1 \in 1..(R + 1) /\ l # 0 /\ l - 1 = k
    BY <2>1
  <2>3. PICK f : IsTotal(f, mode, cut, i, t, k)
    BY <1>2, <2>1
  <2>4. PICK last : last = Plus(f[k], RankWeight(mode, cut, i, t, l))
    OBVIOUS
  <2> DEFINE g == [r \in 0..l |-> IF r = l THEN last ELSE f[r]]
  <2>5. \A r \in 0..l : r # l => r \in 0..k
    BY <2>2
  <2>6. \A r \in 0..l : r # 0 => r - 1 \in 0..l /\ r - 1 # l
    BY <2>2
  <2>7. \A r \in 0..l : r # 0 => g[r - 1] = f[r - 1]
    BY <2>6
  <2>8. \A r \in 0..k :
          f[r] = IF r = 0 THEN Frac(0, 1) ELSE Plus(f[r - 1], RankWeight(mode, cut, i, t, r))
    BY <2>3 DEF IsTotal
  <2>9. ASSUME NEW r \in 0..l
        PROVE  g[r] = IF r = 0 THEN Frac(0, 1) ELSE Plus(g[r - 1], RankWeight(mode, cut, i, t, r))
    <3>1. CASE r = l
      <4>1. g[r] = last
        BY <3>1
      <4>2. g[r - 1] = f[k]
        BY <2>2, <2>7, <3>1
      <4> HIDE DEF g
      <4> QED  BY <2>2, <2>4, <3>1, <4>1, <4>2
    <3>2. CASE r # l
      <4>1. g[r] = f[r] /\ r \in 0..k
        BY <2>5, <3>2
      <4>2. r # 0 => g[r - 1] = f[r - 1]
        BY <2>7
      <4> HIDE DEF g
      <4> QED  BY <2>8, <4>1, <4>2
    <3> QED  BY <3>1, <3>2
  <2>10. g = [r \in 0..l |-> g[r]]
    OBVIOUS
  <2> HIDE DEF g
  <2>11. IsTotal(g, mode, cut, i, t, l)
    BY <2>9, <2>10 DEF IsTotal
  <2> QED  BY <2>2, <2>11
<1> HIDE DEF B
<1>3. \A k \in 1..(R + 1) : k \in B
  <2>1. PICK N : N = R + 1
    OBVIOUS
  <2>2. N \in Nat \ {0} /\ N - 1 = R
    BY <2>1
  <2>3. \A k \in 1..(N - 1) : k \in B => k + 1 \in B
    BY <1>2, <2>2
  <2> QED  BY <1>1, <2>1, <2>2, <2>3, ForwardInduction
<1>4. R + 1 \in 1..(R + 1) /\ R + 1 - 1 = R
  OBVIOUS
<1> QED  BY <1>3, <1>4 DEF B

\* One rank has the row, the others add nothing.
LEMMA TotalIsWorth ==
  ASSUME NEW R \in Nat \ {0}, NEW mode, NEW cut, NEW i, NEW t, NEW f,
         IsTotal(f, mode, cut, i, t, R), NEW a \in Int, NEW d \in Int, NEW q \in 1..R,
         \A r \in 1..R : Worth(RankWeight(mode, cut, i, t, r), IF r = q THEN a ELSE 0, d)
  PROVE  Worth(f[R], a, d)
<1> DEFINE B == {k \in 1..R : Worth(f[k], IF k >= q THEN a ELSE 0, d)}
<1>1. /\ f[0] = Frac(0, 1)
      /\ \A k \in 1..R : f[k] = Plus(f[k - 1], RankWeight(mode, cut, i, t, k))
  <2>1. \A k \in 0..R :
          f[k] = IF k = 0 THEN Frac(0, 1) ELSE Plus(f[k - 1], RankWeight(mode, cut, i, t, k))
    BY DEF IsTotal
  <2>2. 0 \in 0..R /\ \A k \in 1..R : k \in 0..R /\ k # 0
    OBVIOUS
  <2> QED  BY <2>1, <2>2
<1>2. 1 \in B
  <2>1. 1 \in 1..R /\ 1 - 1 = 0
    OBVIOUS
  <2>2. f[1] = Plus(f[0], RankWeight(mode, cut, i, t, 1))
    BY <1>1, <2>1
  <2>3. PICK x : x = IF 1 = q THEN a ELSE 0
    OBVIOUS
  <2>4. x \in Int /\ 0 + x = x /\ x = IF 1 >= q THEN a ELSE 0
    BY <2>3
  <2>5. Worth(RankWeight(mode, cut, i, t, 1), x, d)
    BY <2>1, <2>3
  <2>6. PICK none, first : none = f[0] /\ first = RankWeight(mode, cut, i, t, 1)
    OBVIOUS
  <2>7. PICK zero \in Int : zero = 0
    OBVIOUS
  <2>8. Worth(none, zero, d) /\ Worth(first, x, d)
    BY <1>1, <2>5, <2>6, <2>7, WorthNothing
  <2>9. Worth(Plus(none, first), zero + x, d)
    BY <2>4, <2>8, WorthPlus
  <2>10. f[1] = Plus(none, first) /\ zero + x = x
    BY <2>2, <2>4, <2>6, <2>7
  <2> QED  BY <2>1, <2>4, <2>9, <2>10
<1>3. ASSUME NEW k \in 1..(R - 1), k \in B PROVE k + 1 \in B
  <2>1. PICK l : l = k + 1
    OBVIOUS
  <2>2. l \in 1..R /\ l - 1 = k
    BY <2>1
  <2>3. f[l] = Plus(f[k], RankWeight(mode, cut, i, t, l))
    BY <1>1, <2>2
  <2>4. PICK x, y : x = (IF k >= q THEN a ELSE 0) /\ y = (IF l = q THEN a ELSE 0)
    OBVIOUS
  <2>5. x \in Int /\ y \in Int /\ x + y = IF l >= q THEN a ELSE 0
    BY <2>1, <2>4
  <2>6. Worth(f[k], x, d) /\ Worth(RankWeight(mode, cut, i, t, l), y, d)
    BY <1>3, <2>2, <2>4
  <2>7. Worth(f[l], x + y, d)
    BY <2>3, <2>5, <2>6, WorthPlus
  <2> QED  BY <2>1, <2>2, <2>5, <2>7
<1> HIDE DEF B
<1>4. \A k \in 1..R : k \in B
  BY <1>2, <1>3, ForwardInduction
<1>5. R \in 1..R /\ R >= q
  OBVIOUS
<1> QED  BY <1>4, <1>5 DEF B

LEMMA WeightIsShare ==
  ASSUME IInv, DInv, order # <<>>, \E j \in Rollouts : Tokens(j) > 0,
         NEW mode \in Modes, NEW i \in Rollouts, NEW t \in Positions,
         NEW cut \in 1..(NumRollouts \div dp)
  PROVE  Same(Weight(mode, cut, i, t), ShareOfTheStep(mode, i, t))
<1>1. RowsFit /\ Len(rows) = NumRollouts /\ Permuted(order) /\ dp \in RankCounts
  BY DEF IInv, BatchIsFull, DInv, DealtOnce
<1>2. PICK R, Z : R = dp /\ Z = NumRollouts \div dp
  OBVIOUS
<1>3. R \in Nat \ {0} /\ Z \in Nat \ {0} /\ R * Z = NumRollouts /\ dp * Z = NumRollouts
  <2>1. R \in Nat \ {0} /\ NumRollouts \in Nat \ {0} /\ NumRollouts % R = 0
    BY <1>1, <1>2, UpdateAssumption
  <2>2. Z = NumRollouts \div R
    BY <1>2
  <2>3. Z \in Int /\ NumRollouts = R * Z
    BY <2>1, <2>2
  <2>4. Z > 0
    <3>1. Z <= 0 => R * Z <= 0
      BY <2>1, <2>3
    <3> QED  BY <2>1, <2>3, <3>1
  <2> QED  BY <1>2, <2>1, <2>3, <2>4
<1>4. PICK m, a, d : m = rows[i].mask[t] /\ a = m * dp /\ d = Denominator(mode, i)
  OBVIOUS
<1>5. m \in Int /\ a = m * R /\ a \in Int /\ d \in Int /\ d > 0
  <2>1. m \in 0..1
    BY <1>1, <1>4, FullBatch
  <2>2. d \in Nat \ {0}
    BY <1>1, <1>4, DenominatorIsPositive
  <2>3. a = m * R /\ m \in Int
    BY <1>2, <1>4, <2>1
  <2>4. m * R \in Int
    BY <1>3, <2>3
  <2> QED  BY <2>2, <2>3, <2>4
<1>6. PICK q \in 1..R, j \in 1..Z : order[Place(Z, q, j)] = i
  <2>1. PICK p \in Rollouts : order[p] = i
    BY <1>1 DEF Permuted
  <2>2. p \in 1..(R * Z)
    BY <1>3, <2>1 DEF Rollouts
  <2>3. PICK q \in 1..R, j \in 1..Z : p = Place(Z, q, j)
    BY <1>3, <2>2, PlaceExists
  <2> QED  BY <2>1, <2>3
<1>7. ASSUME NEW r \in 1..R
      PROVE  Worth(RankWeight(mode, cut, i, t, r), IF r = q THEN a ELSE 0, d)
  <2>1. dp \in Nat \ {0} /\ r \in 1..dp /\ q \in 1..dp /\ cut \in 1..Z
    BY <1>2, <1>3
  <2>2. rows[i].mask[t] * dp = a
    BY <1>4
  <2> QED  BY <1>1, <1>2, <1>3, <1>4, <1>5, <1>6, <2>1, <2>2, RankIsWorth
<1>8. PICK f : IsTotal(f, mode, cut, i, t, R) /\ Weight(mode, cut, i, t) = Times(f[R], Frac(1, R))
  <2> DEFINE f == CHOOSE f : IsTotal(f, mode, cut, i, t, R)
  <2>1. IsTotal(f, mode, cut, i, t, R)
    BY <1>3, TotalExists
  <2>2. Weight(mode, cut, i, t) = Times(f[R], Frac(1, R))
    BY <1>2 DEF Weight, IsTotal
  <2> HIDE DEF f
  <2> QED  BY <2>1, <2>2
<1>9. Worth(f[R], a, d)
  BY <1>3, <1>5, <1>7, <1>8, TotalIsWorth
<1>10. PICK x, y : x = f[R][1] /\ y = f[R][2]
  OBVIOUS
<1>11. x \in Int /\ y \in Int /\ y > 0 /\ x * d = a * y
  BY <1>9, <1>10 DEF Worth, IsFrac
<1>12. Weight(mode, cut, i, t) = <<x * 1, y * R>>
  BY <1>8, <1>10 DEF Times, Frac
<1>13. ShareOfTheStep(mode, i, t) = <<m, d>>
  BY <1>4, WeightOfToken DEF Frac
<1>14. (y * R) * d > 0
  <2>1. y * R > 0 /\ y * R \in Int
    BY <1>3, <1>11, PositiveTimes
  <2> QED  BY <1>5, <2>1, PositiveTimes
<1>15. (x * 1) * d = m * (y * R)
  <2>1. x * 1 = x
    BY <1>11
  <2>2. (m * R) * y = m * (y * R)
    BY <1>3, <1>5, <1>11
  <2> QED  BY <1>5, <1>11, <2>1, <2>2
<1> QED  BY <1>12, <1>13, <1>14, <1>15 DEF Same

\* ParallelismIsInvisible: for every number of ranks, every dealing of the rows
\* and every cut into micro-batches, a policy token has the same share of the
\* gradient.
THEOREM LossIgnoresParallelism == Spec => []ParallelismIsInvisible
<1>1. IInv /\ DInv => ParallelismIsInvisible
  BY WeightIsShare DEF ParallelismIsInvisible, Modes
<1> QED  BY <1>1, Invariance, DealingInv, PTL

=============================================================================
