--------------------------------- MODULE Sums ---------------------------------
(***************************************************************************)
(* Sums over finite sets.  The folds of the community modules are choices  *)
(* of a recursive function; the lemmas here say what these sums are.  They *)
(* are proved by infinite descent: a counterexample none of whose proper   *)
(* subsets is one leads to a contradiction.                                *)
(***************************************************************************)
EXTENDS Integers, FiniteSetsExt, FiniteSetTheorems, WellFoundedInduction, TLAPS

\* The sum of the numbers w gives to the elements of S.
Total(w, S) == MapThenSumSet(LAMBDA x : w[x], S)

-----------------------------------------------------------------------------
(* Descent                                                                   *)

\* A set of naturals that is not empty has a least element.
LEMMA LeastNat == ASSUME NEW T \in SUBSET Nat, T # {} PROVE \E m \in T : \A n \in T : m <= n
<1> DEFINE R == OpToRel(<, Nat)
<1>1. \A x, y \in Nat : x < y => <<x, y>> \in R
  BY DEF OpToRel
<1>2. IsWellFoundedOn(R, Nat)
  BY NatLessThanWellFounded
<1> HIDE DEF R
<1>3. PICK x \in T : \A y \in T : ~(<<y, x>> \in R)
  BY <1>2, WFMin
<1>4. \A y \in T : x <= y
  <2> SUFFICES ASSUME NEW y \in T, y < x PROVE FALSE
    OBVIOUS
  <2> QED
    BY <1>1, <1>3
<1> QED
  BY <1>4

\* Among subsets of a finite set one is minimal.
LEMMA LeastSet ==
    ASSUME NEW S, IsFiniteSet(S), NEW Bad \in SUBSET (SUBSET S), Bad # {}
    PROVE  \E s \in Bad : \A t \in SUBSET s : t # s => t \notin Bad
<1> DEFINE Sizes == {Cardinality(s) : s \in Bad}
<1>1. \A s \in SUBSET S : IsFiniteSet(s) /\ Cardinality(s) \in Nat
  BY FS_Subset, FS_CardinalityType
<1>2. Sizes \in SUBSET Nat /\ Sizes # {}
  BY <1>1
<1>3. PICK n \in Sizes : \A k \in Sizes : n <= k
  <2> HIDE DEF Sizes
  <2> QED
    BY <1>2, LeastNat
<1>4. PICK s \in Bad : Cardinality(s) = n
  BY <1>3
<1>5. ASSUME NEW t \in SUBSET s, t # s PROVE t \notin Bad
  <2>1. Cardinality(t) < Cardinality(s)
    <3>1. IsFiniteSet(s) /\ t \in SUBSET S /\ s \in SUBSET S
      BY <1>1
    <3>2. Cardinality(t) <= Cardinality(s) /\ Cardinality(t) # Cardinality(s)
      BY <1>5, <3>1, FS_Subset
    <3> QED
      BY <1>1, <3>1, <3>2
  <2>2. Cardinality(t) \in Nat /\ Cardinality(s) \in Nat
    BY <1>1
  <2>3. Cardinality(t) \notin Sizes
    <3> HIDE DEF Sizes
    <3> QED
      BY <1>2, <1>3, <1>4, <2>1, <2>2
  <2> QED
    BY <2>3
<1> QED
  BY <1>5

-----------------------------------------------------------------------------
(* The recursive function behind the sum                                     *)

SumAt(w, g, s) ==
    IF s = {} THEN 0
    ELSE w[CHOOSE x \in s : TRUE] + g[s \ {CHOOSE x \in s : TRUE}]

\* g has the sum of every subset of S.
SumTable(w, g, S) == g = [s \in SUBSET S |-> SumAt(w, g, s)]

LEMMA TotalDef == ASSUME NEW w, NEW S PROVE Total(w, S) = (CHOOSE g : SumTable(w, g, S))[S]
  BY DEF Total, MapThenSumSet, MapThenFoldSet, SumTable, SumAt

\* A sum depends on the table only at the set without its chosen element.
LEMMA SumAtLocal ==
    ASSUME NEW w, NEW g, NEW h, NEW s,
           s # {} => g[s \ {CHOOSE x \in s : TRUE}] = h[s \ {CHOOSE x \in s : TRUE}]
    PROVE  SumAt(w, g, s) = SumAt(w, h, s)
  BY DEF SumAt

\* Two tables agree on the sets they share.
LEMMA TablesAgree ==
    ASSUME NEW w, NEW S, IsFiniteSet(S), NEW T \in SUBSET S,
           NEW g, SumTable(w, g, S), NEW h, SumTable(w, h, T)
    PROVE  g[T] = h[T]
<1> DEFINE Bad == {s \in SUBSET T : g[s] # h[s]}
<1>1. Bad = {}
  <2> SUFFICES ASSUME Bad # {} PROVE FALSE
    OBVIOUS
  <2>1. Bad \in SUBSET (SUBSET S)
    OBVIOUS
  <2>2. PICK s \in Bad : \A t \in SUBSET s : t # s => t \notin Bad
    <3> HIDE DEF Bad
    <3> QED
      BY <2>1, LeastSet
  <2>3. g[s] = SumAt(w, g, s) /\ h[s] = SumAt(w, h, s)
    BY DEF SumTable
  <2>4. s # {} => g[s \ {CHOOSE x \in s : TRUE}] = h[s \ {CHOOSE x \in s : TRUE}]
    <3> SUFFICES ASSUME s # {}
                 PROVE  g[s \ {CHOOSE x \in s : TRUE}] = h[s \ {CHOOSE x \in s : TRUE}]
      OBVIOUS
    <3>1. (CHOOSE x \in s : TRUE) \in s
      OBVIOUS
    <3> DEFINE t == s \ {CHOOSE x \in s : TRUE}
    <3>2. t \in SUBSET s /\ t # s
      BY <3>1
    <3>3. t \in SUBSET T
      BY <3>2
    <3> QED
      BY <2>2, <3>2, <3>3
  <2> QED
    BY <2>2, <2>3, <2>4, SumAtLocal
<1> QED
  BY <1>1

LEMMA TableExists == ASSUME NEW w, NEW S, IsFiniteSet(S) PROVE \E g : SumTable(w, g, S)
<1> DEFINE Bad == {s \in SUBSET S : ~ \E g : SumTable(w, g, s)}
<1>1. Bad = {}
  <2> SUFFICES ASSUME Bad # {} PROVE FALSE
    OBVIOUS
  <2>1. Bad \in SUBSET (SUBSET S)
    OBVIOUS
  <2>2. PICK s \in Bad : \A t \in SUBSET s : t # s => t \notin Bad
    <3> HIDE DEF Bad
    <3> QED
      BY <2>1, LeastSet
  <2>3. \A t \in SUBSET s : t # s => \E g : SumTable(w, g, t)
    BY <2>2
  <2> DEFINE h == [t \in SUBSET s |-> IF t = s THEN SumAt(w, [u \in SUBSET s |-> (CHOOSE g : SumTable(w, g, u))[u]], t)
                                      ELSE (CHOOSE g : SumTable(w, g, t))[t]]
  <2>4. ASSUME NEW t \in SUBSET s PROVE h[t] = SumAt(w, h, t)
    <3>0. t # {} => (CHOOSE x \in t : TRUE) \in t
      OBVIOUS
    <3>1. CASE t = s
      <4> DEFINE all == [u \in SUBSET s |-> (CHOOSE g : SumTable(w, g, u))[u]]
      <4>1. h[t] = SumAt(w, all, t)
        BY <3>1
      <4>2. t # {} => all[t \ {CHOOSE x \in t : TRUE}] = h[t \ {CHOOSE x \in t : TRUE}]
        BY <3>0, <3>1
      <4> HIDE DEF all, h
      <4> QED
        BY <4>1, <4>2, SumAtLocal
    <3>2. CASE t # s
      <4>1. PICK k : k = (CHOOSE g : SumTable(w, g, t))
        OBVIOUS
      <4>2. SumTable(w, k, t) /\ h[t] = k[t]
        BY <2>3, <3>2, <4>1
      <4>3. k[t] = SumAt(w, k, t)
        BY <4>2 DEF SumTable
      <4>4. t # {} => k[t \ {CHOOSE x \in t : TRUE}] = h[t \ {CHOOSE x \in t : TRUE}]
        <5> SUFFICES ASSUME t # {}
                     PROVE  k[t \ {CHOOSE x \in t : TRUE}] = h[t \ {CHOOSE x \in t : TRUE}]
          OBVIOUS
        <5> DEFINE r == t \ {CHOOSE x \in t : TRUE}
        <5>1. r \in SUBSET t /\ r # s /\ r \in SUBSET s
          BY <3>0
        <5>2. PICK j : j = (CHOOSE g : SumTable(w, g, r))
          OBVIOUS
        <5>3. SumTable(w, j, r) /\ h[r] = j[r]
          BY <2>3, <5>1, <5>2
        <5>4. IsFiniteSet(t)
          BY FS_Subset
        <5> HIDE DEF h, r
        <5>5. k[r] = j[r]
          BY <4>2, <5>1, <5>3, <5>4, TablesAgree
        <5> QED
          BY <5>3, <5>5 DEF r
      <4> HIDE DEF h
      <4> QED
        BY <4>2, <4>3, <4>4, SumAtLocal
    <3> QED
      BY <3>1, <3>2
  <2>5. SumTable(w, h, s)
    <3>1. h = [t \in SUBSET s |-> h[t]]
      OBVIOUS
    <3> HIDE DEF h
    <3> QED
      BY <2>4, <3>1 DEF SumTable
  <2> QED
    BY <2>2, <2>5
<1> QED
  BY <1>1

\* Any table of a set around T has the sum of T.
LEMMA TotalFrom ==
    ASSUME NEW w, NEW S, IsFiniteSet(S), NEW g, SumTable(w, g, S), NEW T \in SUBSET S
    PROVE  Total(w, T) = g[T]
<1>1. IsFiniteSet(T)
  BY FS_Subset
<1>2. PICK h : h = CHOOSE k : SumTable(w, k, T)
  OBVIOUS
<1>3. SumTable(w, h, T)
  BY <1>1, <1>2, TableExists
<1> QED
  BY <1>2, <1>3, TablesAgree, TotalDef

-----------------------------------------------------------------------------
(* Sums                                                                      *)

LEMMA TotalEmpty == ASSUME NEW w PROVE Total(w, {}) = 0
<1>1. IsFiniteSet({})
  BY FS_EmptySet
<1>2. PICK g : SumTable(w, g, {})
  BY <1>1, TableExists
<1>3. Total(w, {}) = g[{}]
  BY <1>1, <1>2, TotalFrom
<1>4. g[{}] = SumAt(w, g, {})
  BY <1>2 DEF SumTable
<1> QED
  BY <1>3, <1>4 DEF SumAt

\* The chosen element is set aside.
LEMMA TotalChosen ==
    ASSUME NEW w, NEW S, IsFiniteSet(S), S # {}
    PROVE  Total(w, S) = w[CHOOSE x \in S : TRUE] + Total(w, S \ {CHOOSE x \in S : TRUE})
<1>1. PICK g : SumTable(w, g, S)
  BY TableExists
<1>2. g[S] = SumAt(w, g, S)
  BY <1>1 DEF SumTable
<1>3. Total(w, S) = g[S]
  BY <1>1, TotalFrom
<1> DEFINE R == S \ {CHOOSE x \in S : TRUE}
<1>4. R \in SUBSET S
  OBVIOUS
<1> HIDE DEF R
<1>5. Total(w, R) = g[R]
  BY <1>1, <1>4, TotalFrom
<1> QED
  BY <1>2, <1>3, <1>5 DEF SumAt, R

\* The sum of naturals is one.
LEMMA TotalType ==
    ASSUME NEW w, NEW S, IsFiniteSet(S), \A x \in S : w[x] \in Nat
    PROVE  Total(w, S) \in Nat
<1> DEFINE Bad == {s \in SUBSET S : Total(w, s) \notin Nat}
<1>1. Bad = {}
  <2> SUFFICES ASSUME Bad # {} PROVE FALSE
    OBVIOUS
  <2>1. Bad \in SUBSET (SUBSET S)
    OBVIOUS
  <2>2. PICK s \in Bad : \A t \in SUBSET s : t # s => t \notin Bad
    <3> HIDE DEF Bad
    <3> QED
      BY <2>1, LeastSet
  <2>3. IsFiniteSet(s) /\ s # {}
    <3>1. IsFiniteSet(s)
      BY FS_Subset
    <3>2. s # {}
      <4> SUFFICES ASSUME s = {} PROVE FALSE
        OBVIOUS
      <4>1. Total(w, {}) = 0
        BY TotalEmpty
      <4> QED
        BY <2>2, <4>1
    <3> QED
      BY <3>1, <3>2
  <2> DEFINE y == CHOOSE x \in s : TRUE
  <2>4. y \in s
    BY <2>3
  <2>5. Total(w, s) = w[y] + Total(w, s \ {y})
    BY <2>3, TotalChosen
  <2> HIDE DEF y
  <2>6. Total(w, s \ {y}) \in Nat
    BY <2>2, <2>4
  <2>7. w[y] \in Nat
    BY <2>4
  <2> QED
    BY <2>5, <2>6, <2>7
<1> QED
  BY <1>1

\* Any element may be set aside.
LEMMA TotalRemove ==
    ASSUME NEW w, NEW S, IsFiniteSet(S), \A x \in S : w[x] \in Nat, NEW a \in S
    PROVE  Total(w, S) = w[a] + Total(w, S \ {a})
<1> DEFINE Bad == {s \in SUBSET S : \E z \in s : Total(w, s) # w[z] + Total(w, s \ {z})}
<1>1. Bad = {}
  <2> SUFFICES ASSUME Bad # {} PROVE FALSE
    OBVIOUS
  <2>1. Bad \in SUBSET (SUBSET S)
    OBVIOUS
  <2>2. PICK s \in Bad : \A t \in SUBSET s : t # s => t \notin Bad
    <3> HIDE DEF Bad
    <3> QED
      BY <2>1, LeastSet
  <2>3. PICK z \in s : Total(w, s) # w[z] + Total(w, s \ {z})
    BY <2>2
  <2>4. IsFiniteSet(s) /\ s \in SUBSET S
    BY FS_Subset
  <2> DEFINE y == CHOOSE x \in s : TRUE
  <2>5. y \in s
    BY <2>3
  <2>6. Total(w, s) = w[y] + Total(w, s \ {y})
    BY <2>3, <2>4, TotalChosen
  <2> HIDE DEF y
  <2>7. z # y
    BY <2>3, <2>6
  <2>8. s \ {y} \notin Bad /\ s \ {z} \notin Bad
    <3> HIDE DEF Bad
    <3> QED
      BY <2>2, <2>3, <2>5
  <2>9. /\ Total(w, s \ {y}) = w[z] + Total(w, (s \ {y}) \ {z})
        /\ Total(w, s \ {z}) = w[y] + Total(w, (s \ {z}) \ {y})
    BY <2>4, <2>5, <2>7, <2>8
  <2>10. (s \ {y}) \ {z} = (s \ {z}) \ {y}
    OBVIOUS
  <2>11. Total(w, (s \ {z}) \ {y}) \in Nat
    <3>1. IsFiniteSet((s \ {z}) \ {y})
      BY <2>4, FS_RemoveElement
    <3>2. \A x \in (s \ {z}) \ {y} : w[x] \in Nat
      BY <2>4
    <3> QED
      BY <3>1, <3>2, TotalType
  <2>12. w[y] \in Nat /\ w[z] \in Nat
    BY <2>4, <2>5
  <2> DEFINE a0 == Total(w, s)
             a1 == Total(w, s \ {y})
             a2 == Total(w, s \ {z})
             a3 == Total(w, (s \ {z}) \ {y})
  <2>13. /\ a0 = w[y] + a1 /\ a1 = w[z] + a3 /\ a2 = w[y] + a3 /\ a0 # w[z] + a2
         /\ a3 \in Nat
    BY <2>3, <2>6, <2>9, <2>10, <2>11
  <2> HIDE DEF a0, a1, a2, a3
  <2> QED
    BY <2>12, <2>13
<1> QED
  BY <1>1

\* Sums of the same numbers are the same.
LEMMA TotalSame ==
    ASSUME NEW w, NEW v, NEW S, \A x \in S : w[x] = v[x]
    PROVE  Total(w, S) = Total(v, S)
<1>1. \A g : \A s \in SUBSET S : SumAt(w, g, s) = SumAt(v, g, s)
  BY DEF SumAt
<1>2. \A g : SumTable(w, g, S) <=> SumTable(v, g, S)
  BY <1>1 DEF SumTable
<1>3. (CHOOSE g : SumTable(w, g, S)) = (CHOOSE g : SumTable(v, g, S))
  BY <1>2
<1> QED
  BY <1>3, TotalDef

\* A part of the set sums to less, and to as much if the rest are zeros.
LEMMA TotalPart ==
    ASSUME NEW w, NEW S, IsFiniteSet(S), \A x \in S : w[x] \in Nat, NEW T \in SUBSET S
    PROVE  /\ Total(w, T) <= Total(w, S)
           /\ (\A x \in S \ T : w[x] = 0) => Total(w, T) = Total(w, S)
<1> DEFINE Right(s) == /\ Total(w, T) <= Total(w, s)
                       /\ (\A x \in s \ T : w[x] = 0) => Total(w, T) = Total(w, s)
           Bad == {s \in SUBSET S : T \subseteq s /\ ~Right(s)}
<1>1. Bad = {}
  <2> SUFFICES ASSUME Bad # {} PROVE FALSE
    OBVIOUS
  <2>1. Bad \in SUBSET (SUBSET S)
    OBVIOUS
  <2>2. PICK s \in Bad : \A t \in SUBSET s : t # s => t \notin Bad
    <3> HIDE DEF Bad
    <3> QED
      BY <2>1, LeastSet
  <2>3. IsFiniteSet(s) /\ IsFiniteSet(T)
    BY FS_Subset
  <2>4. \A t \in SUBSET s : IsFiniteSet(t) /\ Total(w, t) \in Nat
    <3> SUFFICES ASSUME NEW t \in SUBSET s PROVE IsFiniteSet(t) /\ Total(w, t) \in Nat
      OBVIOUS
    <3>1. IsFiniteSet(t) /\ \A x \in t : w[x] \in Nat
      BY <2>3, FS_Subset
    <3> QED
      BY <3>1, TotalType
  <2>5. T # s
    BY <2>2, <2>4
  <2>6. PICK x \in s : x \notin T
    BY <2>2, <2>5
  <2>7. s \ {x} \notin Bad
    <3> HIDE DEF Bad
    <3> QED
      BY <2>2, <2>6
  <2>8. Right(s \ {x})
    BY <2>2, <2>6, <2>7
  <2>9. Total(w, s) = w[x] + Total(w, s \ {x}) /\ w[x] \in Nat
    <3>1. \A z \in s : w[z] \in Nat
      BY <2>2
    <3> QED
      BY <2>3, <3>1, TotalRemove
  <2>10. Total(w, s) \in Nat /\ Total(w, s \ {x}) \in Nat /\ Total(w, T) \in Nat
    BY <2>2, <2>4
  <2>11. Total(w, T) <= Total(w, s)
    BY <2>8, <2>9, <2>10
  <2>12. ASSUME \A z \in s \ T : w[z] = 0 PROVE Total(w, T) = Total(w, s)
    BY <2>6, <2>8, <2>9, <2>10, <2>12
  <2> QED
    BY <2>2, <2>11, <2>12
<1> QED
  BY <1>1

\* One more element.
LEMMA TotalMore ==
    ASSUME NEW w, NEW v, NEW S, IsFiniteSet(S), NEW a, a \notin S, v[a] \in Nat,
           \A x \in S : w[x] \in Nat /\ v[x] = w[x]
    PROVE  Total(v, S \cup {a}) = Total(w, S) + v[a]
<1> DEFINE R == S \cup {a}
<1>1. IsFiniteSet(R) /\ a \in R /\ R \ {a} = S /\ \A x \in R : v[x] \in Nat
  BY FS_AddElement
<1>2. Total(v, S) = Total(w, S) /\ Total(w, S) \in Nat
  BY TotalSame, TotalType
<1> HIDE DEF R
<1>3. Total(v, R) = v[a] + Total(v, R \ {a})
  BY <1>1, TotalRemove
<1>4. Total(v, R) = Total(w, S) + v[a]
  BY <1>1, <1>2, <1>3
<1> QED
  BY <1>4 DEF R

\* One number grows.
LEMMA TotalRaised ==
    ASSUME NEW w, NEW v, NEW S, IsFiniteSet(S), NEW a \in S, NEW q \in Nat,
           v[a] = w[a] + q, w[a] \in Nat,
           \A x \in S \ {a} : w[x] \in Nat /\ v[x] = w[x]
    PROVE  Total(v, S) = Total(w, S) + q
<1> DEFINE R == S \ {a}
<1>1. IsFiniteSet(R) /\ a \notin R /\ R \cup {a} = S
  BY FS_RemoveElement
<1>2. Total(v, S) = Total(w, R) + v[a]
  <2> HIDE DEF R
  <2>1. v[a] \in Nat /\ \A x \in R : w[x] \in Nat /\ v[x] = w[x]
    BY DEF R
  <2>2. Total(v, R \cup {a}) = Total(w, R) + v[a]
    BY <1>1, <2>1, TotalMore
  <2> QED
    BY <1>1, <2>2
<1>3. Total(w, S) = Total(w, R) + w[a]
  <2> HIDE DEF R
  <2>1. \A x \in R : w[x] \in Nat
    BY DEF R
  <2>2. Total(w, R \cup {a}) = Total(w, R) + w[a]
    BY <1>1, <2>1, TotalMore
  <2> QED
    BY <1>1, <2>2
<1>4. Total(w, R) \in Nat
  <2>1. \A x \in R : w[x] \in Nat
    OBVIOUS
  <2> HIDE DEF R
  <2> QED
    BY <1>1, <2>1, TotalType
<1> QED
  BY <1>2, <1>3, <1>4

\* R joins S, numbered by w, and a copy f of T that has nothing in common with
\* it and is numbered by v.
Joins(R, w, S, v, T, f) ==
    /\ IsFiniteSet(S) /\ IsFiniteSet(T)
    /\ \A x \in S : w[x] \in Nat
    /\ \A y \in T : v[y] \in Nat /\ f[y] \notin S /\ w[f[y]] = v[y]
    /\ \A y, z \in T : f[y] = f[z] => y = z
    /\ \A x : x \in R <=> x \in S \/ \E y \in T : x = f[y]

LEMMA TotalJoin ==
    ASSUME NEW R, NEW w, NEW S, NEW v, NEW T, NEW f, Joins(R, w, S, v, T, f)
    PROVE  IsFiniteSet(R) /\ Total(w, R) = Total(w, S) + Total(v, T)
<1> USE DEF Joins
<1> DEFINE With(t) == S \cup {f[y] : y \in t}
           Right(t) == /\ IsFiniteSet(With(t))
                       /\ Total(w, With(t)) = Total(w, S) + Total(v, t)
           Bad == {t \in SUBSET T : ~Right(t)}
<1>0. Total(w, S) \in Nat
  BY TotalType
<1>1. Bad = {}
  <2> SUFFICES ASSUME Bad # {} PROVE FALSE
    OBVIOUS
  <2>1. Bad \in SUBSET (SUBSET T)
    OBVIOUS
  <2>2. PICK t \in Bad : \A u \in SUBSET t : u # t => u \notin Bad
    <3> HIDE DEF Bad
    <3> QED
      BY <2>1, LeastSet
  <2>3. t # {}
    <3> SUFFICES ASSUME t = {} PROVE FALSE
      OBVIOUS
    <3>1. With(t) = S
      OBVIOUS
    <3>2. Total(v, t) = 0
      BY TotalEmpty
    <3> HIDE DEF With
    <3> QED
      BY <1>0, <2>2, <3>1, <3>2
  <2>4. PICK y \in t : TRUE
    BY <2>3
  <2> DEFINE u == t \ {y}
  <2>5. u \notin Bad
    <3> HIDE DEF Bad
    <3> QED
      BY <2>2, <2>4
  <2>6. IsFiniteSet(With(u)) /\ Total(w, With(u)) = Total(w, S) + Total(v, u)
    BY <2>2, <2>5
  <2>7. With(t) = With(u) \cup {f[y]} /\ f[y] \notin With(u)
    BY <2>2, <2>4
  <2>8. \A x \in With(t) : w[x] \in Nat
    BY <2>2
  <2>9. IsFiniteSet(t) /\ (\A x \in t : v[x] \in Nat) /\ t \in SUBSET T
    BY <2>2, FS_Subset
  <2>10. Total(v, t) = v[y] + Total(v, u)
    BY <2>4, <2>9, TotalRemove
  <2>11. Total(v, u) \in Nat
    <3>1. IsFiniteSet(u) /\ \A x \in u : v[x] \in Nat
      BY <2>9, FS_RemoveElement
    <3> HIDE DEF u
    <3> QED
      BY <3>1, TotalType
  <2>12. IsFiniteSet(With(t)) /\ f[y] \in With(t) /\ With(t) \ {f[y]} = With(u)
    <3> HIDE DEF With, u
    <3> QED
      BY <2>6, <2>7, FS_AddElement
  <2>13. Total(w, With(t)) = w[f[y]] + Total(w, With(u))
    <3> HIDE DEF With, u
    <3>1. Total(w, With(t)) = w[f[y]] + Total(w, With(t) \ {f[y]})
      BY <2>8, <2>12, TotalRemove
    <3> QED
      BY <2>12, <3>1
  <2>14. w[f[y]] = v[y] /\ v[y] \in Nat
    BY <2>4, <2>9
  <2>15. ~Right(t)
    BY <2>2
  <2> HIDE DEF With, u, Bad
  <2> QED
    BY <1>0, <2>6, <2>10, <2>11, <2>12, <2>13, <2>14, <2>15
<1>2. Right(T)
  BY <1>1
<1>3. With(T) = R
  OBVIOUS
<1> QED
  BY <1>2, <1>3

\* f names the part of each element of S among C, w has the sizes of the parts.
PartSizes(w, C, f, S) ==
    /\ IsFiniteSet(S) /\ IsFiniteSet(C)
    /\ \A x \in S : f[x] \in C
    /\ \A c \in C : w[c] = Cardinality({x \in S : f[x] = c})

\* The sizes of the parts of a set add up to its own.
LEMMA TotalOfParts ==
    ASSUME NEW w, NEW C, NEW f, NEW S, PartSizes(w, C, f, S)
    PROVE  Total(w, C) = Cardinality(S)
<1> USE DEF PartSizes
<1> DEFINE In(T) == {x \in S : f[x] \in T}
           Of(c) == {x \in S : f[x] = c}
           Bad   == {T \in SUBSET C : Total(w, T) # Cardinality(In(T))}
<1>1. \A c \in C : w[c] \in Nat /\ IsFiniteSet(Of(c)) /\ w[c] = Cardinality(Of(c))
  BY FS_Subset, FS_CardinalityType
<1>2. Bad = {}
  <2> SUFFICES ASSUME Bad # {} PROVE FALSE
    OBVIOUS
  <2>1. PICK T \in Bad : \A t \in SUBSET T : t # T => t \notin Bad
    <3>1. Bad \in SUBSET (SUBSET C)
      OBVIOUS
    <3> HIDE DEF Bad
    <3> QED
      BY <3>1, LeastSet
  <2>2. T \in SUBSET C /\ IsFiniteSet(T) /\ Total(w, T) # Cardinality(In(T))
    BY FS_Subset
  <2>3. T # {}
    <3> SUFFICES ASSUME T = {} PROVE FALSE
      OBVIOUS
    <3>1. In(T) = {}
      OBVIOUS
    <3> QED
      BY <2>2, <3>1, TotalEmpty, FS_EmptySet
  <2>4. PICK c \in T : TRUE
    BY <2>3
  <2>5. PICK R : R = T \ {c}
    OBVIOUS
  <2>6. Total(w, T) = w[c] + Total(w, R)
    <3>1. IsFiniteSet(T) /\ c \in T /\ \A x \in T : w[x] \in Nat
      BY Zenon, <1>1, <2>2, <2>4
    <3> HIDE DEF In, Of, Bad
    <3> QED
      BY <2>5, <3>1, TotalRemove
  <2>7. Total(w, R) = Cardinality(In(R))
    <3>1. R \in SUBSET T /\ R # T /\ R \in SUBSET C
      BY <2>2, <2>4, <2>5
    <3>2. R \notin Bad
      <4> HIDE DEF Bad
      <4> QED
        BY <2>1, <3>1
    <3> HIDE DEF In
    <3> QED
      BY <3>1, <3>2
  <2>8. In(T) = Of(c) \cup In(R) /\ Of(c) \cap In(R) = {}
    BY <2>4, <2>5
  <2>9. IsFiniteSet(Of(c)) /\ IsFiniteSet(In(R)) /\ w[c] = Cardinality(Of(c))
    BY <1>1, <2>2, <2>4, FS_Subset
  <2> HIDE DEF In, Of, Bad
  <2>10. Cardinality(In(T)) = Cardinality(Of(c)) + Cardinality(In(R))
    <3>1. Cardinality(Of(c) \cup In(R)) =
            Cardinality(Of(c)) + Cardinality(In(R)) - Cardinality(Of(c) \cap In(R))
      BY Zenon, <2>9, FS_Union
    <3>2. Cardinality(Of(c)) \in Nat /\ Cardinality(In(R)) \in Nat
      BY <2>9, FS_CardinalityType
    <3>3. Cardinality(Of(c) \cap In(R)) = 0
      BY <2>8, FS_EmptySet
    <3>4. Cardinality(In(T)) = Cardinality(Of(c) \cup In(R))
      BY Zenon, <2>8
    <3> QED
      BY <3>1, <3>2, <3>3, <3>4
  <2> QED
    BY <2>2, <2>6, <2>7, <2>9, <2>10
<1>3. C \notin Bad
  BY <1>2
<1>4. In(C) = S
  OBVIOUS
<1> QED
  BY <1>3, <1>4

\* A function has finitely many values on a finite set.
LEMMA ImageFinite ==
    ASSUME NEW S, IsFiniteSet(S), NEW f
    PROVE  IsFiniteSet({f[x] : x \in S})
<1> DEFINE T == {f[x] : x \in S}
           g == [x \in S |-> f[x]]
<1>1. g \in Surjection(S, T)
  BY DEF Surjection
<1> HIDE DEF g, T
<1>2. IsFiniteSet(T)
  BY <1>1, FS_Surjection
<1> QED
  BY <1>2 DEF T

-----------------------------------------------------------------------------
(* Orders                                                                    *)

\* An enumeration without repetition names every element.
LEMMA EnumerationCovers ==
    ASSUME NEW S, IsFiniteSet(S), NEW f \in [1..Cardinality(S) -> S],
           \A i, j \in 1..Cardinality(S) : i # j => f[i] # f[j]
    PROVE  \A x \in S : \E i \in 1..Cardinality(S) : f[i] = x
<1>1. Cardinality(S) \in Nat
  BY FS_CardinalityType
<1>2. Cardinality(1..Cardinality(S)) = Cardinality(S)
  BY <1>1, FS_Interval
<1>3. f \in Injection(1..Cardinality(S), S)
  BY DEF Injection, IsInjective
<1>4. f \in Surjection(1..Cardinality(S), S)
  BY <1>2, <1>3, FS_Injection
<1> QED
  BY <1>4 DEF Surjection

\* The elements of a finite set can be listed by weight.
LEMMA SortedListExists ==
    ASSUME NEW S, IsFiniteSet(S), NEW w, \A x \in S : w[x] \in Nat
    PROVE  \E f \in [1..Cardinality(S) -> S] :
              /\ \A i, j \in 1..Cardinality(S) : i # j => f[i] # f[j]
              /\ \A i, j \in 1..Cardinality(S) : i < j => w[f[i]] <= w[f[j]]
<1> DEFINE Listed(T, f) ==
              /\ f \in [1..Cardinality(T) -> T]
              /\ \A i, j \in 1..Cardinality(T) : i # j => f[i] # f[j]
              /\ \A i, j \in 1..Cardinality(T) : i < j => w[f[i]] <= w[f[j]]
           Bad == {T \in SUBSET S : \A f : ~Listed(T, f)}
<1>1. Bad = {}
  <2> SUFFICES ASSUME Bad # {} PROVE FALSE
    OBVIOUS
  <2>1. PICK T \in Bad : \A t \in SUBSET T : t # T => t \notin Bad
    <3>1. Bad \in SUBSET (SUBSET S)
      OBVIOUS
    <3> HIDE DEF Bad
    <3> QED
      BY <3>1, LeastSet
  <2>2. IsFiniteSet(T) /\ T \in SUBSET S /\ \A f : ~Listed(T, f)
    BY FS_Subset
  <2>3. T # {}
    <3> SUFFICES ASSUME T = {} PROVE FALSE
      OBVIOUS
    <3>1. 1..Cardinality(T) = {}
      BY FS_EmptySet
    <3>2. Listed(T, [i \in 1..Cardinality(T) |-> 0])
      BY <3>1
    <3> QED
      BY <2>2, <3>2
  <2>4. PICK m \in T : \A x \in T : w[m] <= w[x]
    <3> DEFINE W == {w[x] : x \in T}
    <3>1. W \in SUBSET Nat /\ W # {}
      BY <2>2, <2>3
    <3>2. PICK n \in W : \A k \in W : n <= k
      <4> HIDE DEF W
      <4> QED
        BY <3>1, LeastNat
    <3> QED
      BY <3>2
  <2>5. PICK R : R = T \ {m}
    OBVIOUS
  <2>6. PICK g : Listed(R, g)
    <3>1. R \in SUBSET T /\ R # T /\ R \in SUBSET S
      BY <2>2, <2>4, <2>5
    <3>2. R \notin Bad
      <4> HIDE DEF Bad
      <4> QED
        BY <2>1, <3>1
    <3> HIDE DEF Listed
    <3> QED
      BY Zenon, <3>1, <3>2
  <2>7. PICK n \in Nat : n = Cardinality(R) /\ Cardinality(T) = n + 1
    <3>1. IsFiniteSet(R) /\ Cardinality(R) = Cardinality(T) - 1
      BY <2>2, <2>4, <2>5, FS_RemoveElement
    <3>2. Cardinality(R) \in Nat /\ Cardinality(T) \in Nat
      BY <2>2, <3>1, FS_CardinalityType
    <3> QED
      BY <3>1, <3>2
  <2>8. PICK f : f = [i \in 1..(n + 1) |-> IF i = 1 THEN m ELSE g[i - 1]]
    OBVIOUS
  <2>9. /\ g \in [1..n -> R]
        /\ \A i, j \in 1..n : i # j => g[i] # g[j]
        /\ \A i, j \in 1..n : i < j => w[g[i]] <= w[g[j]]
    BY Zenon, <2>6, <2>7
  <2>10. f[1] = m /\ \A i \in 2..(n + 1) : f[i] = g[i - 1] /\ i - 1 \in 1..n
    <3> HIDE DEF Listed, Bad
    <3> QED
      BY <2>7, <2>8
  <2>11. f \in [1..(n + 1) -> T]
    <3>1. \A i \in 1..(n + 1) : f[i] \in T
      <4> SUFFICES ASSUME NEW i \in 1..(n + 1) PROVE f[i] \in T
        OBVIOUS
      <4>1. i = 1 \/ i \in 2..(n + 1)
        BY <2>7
      <4> QED
        BY <2>4, <2>5, <2>9, <2>10, <4>1
    <3> QED
      BY <2>8, <3>1
  <2> HIDE DEF Bad
  <2>12. ASSUME NEW i \in 1..(n + 1), NEW j \in 1..(n + 1), i < j
         PROVE  f[i] # f[j] /\ w[f[i]] <= w[f[j]]
    <3>1. j \in 2..(n + 1) /\ f[j] = g[j - 1] /\ j - 1 \in 1..n
      BY <2>7, <2>10, <2>12
    <3>2. CASE i = 1
      BY <2>4, <2>5, <2>9, <2>10, <3>1, <3>2
    <3>3. CASE i # 1
      <4>1. i \in 2..(n + 1) /\ f[i] = g[i - 1] /\ i - 1 \in 1..n /\ i - 1 < j - 1
        BY <2>7, <2>10, <2>12, <3>3
      <4> QED
        BY <2>9, <3>1, <4>1
    <3> QED
      BY <3>2, <3>3
  <2>13. \A i, j \in 1..(n + 1) : i # j => f[i] # f[j]
    <3> SUFFICES ASSUME NEW i \in 1..(n + 1), NEW j \in 1..(n + 1), i # j
                 PROVE  f[i] # f[j]
      OBVIOUS
    <3>1. i < j \/ j < i
      BY <2>7
    <3> QED
      BY <2>12, <3>1
  <2>14. Listed(T, f)
    BY <2>7, <2>11, <2>12, <2>13
  <2> QED
    BY <2>2, <2>14
<1>2. S \notin Bad
  BY <1>1
<1>3. PICK f : Listed(S, f)
  BY <1>2
<1> QED
  BY <1>3
=============================================================================
