------------------------ MODULE ProfileColumnsProofs -----------------------
(***************************************************************************)
(* The properties of ProfileColumns for any payments, moments, lines and   *)
(* numbers of rows, requests and jobs, and for every width of int32.       *)
(***************************************************************************)
EXTENDS ProfileColumns, RiskScoringProofs, FiniteSetTheorems, WellFoundedInduction

(***************************************************************************)
(* Induction, over the numbers and over the subsets of a finite set.  What *)
(* is to be shown is given as the set P of those that have it.             *)
(***************************************************************************)
LEMMA Numbers ==
    ASSUME NEW P, 0 \in P, \A n \in Nat : n \in P => n + 1 \in P, NEW m \in Nat
    PROVE  m \in P
<1> DEFINE T == {n \in Nat : n \notin P}
<1> SUFFICES ASSUME m \notin P PROVE FALSE
  OBVIOUS
<1>1. T \subseteq Nat /\ T # {}
  OBVIOUS
<1>2. PICK least \in T : \A n \in T : ~(<<n, least>> \in OpToRel(<, Nat))
  BY <1>1, NatLessThanWellFounded, WFMin, Zenon
<1>3. \A n \in T : ~(n < least)
  BY <1>1, <1>2, Zenon DEF OpToRel
<1>4. least \in Nat /\ least # 0
  BY <1>1
<1>5. least - 1 \in Nat /\ least - 1 < least
  BY <1>4
<1>6. least - 1 \in P
  BY <1>3, <1>5
<1>7. (least - 1) + 1 \in P
  BY <1>5, <1>6
<1> QED
  BY <1>4, <1>7

LEMMA Subsets ==
    ASSUME NEW D, IsFiniteSet(D), NEW P,
           \A s \in SUBSET D : (\A x \in s : s \ {x} \in P) => s \in P
    PROVE  D \in P
<1> DEFINE T == {n \in Nat : \E s \in SUBSET D : Cardinality(s) = n /\ s \notin P}
<1> SUFFICES ASSUME D \notin P PROVE FALSE
  OBVIOUS
<1>1. \A s \in SUBSET D : IsFiniteSet(s) /\ Cardinality(s) \in Nat
  BY FS_Subset, FS_CardinalityType
<1>2. T \subseteq Nat /\ T # {}
  BY <1>1
<1>3. PICK least \in T : \A n \in T : ~(<<n, least>> \in OpToRel(<, Nat))
  BY <1>2, NatLessThanWellFounded, WFMin, Zenon
<1>4. \A n \in T : ~(n < least)
  BY <1>2, <1>3, Zenon DEF OpToRel
<1>5. PICK s \in SUBSET D : Cardinality(s) = least /\ s \notin P
  OBVIOUS
<1>6. ASSUME NEW x \in s PROVE s \ {x} \in P
  <2>1. s \ {x} \in SUBSET D /\ Cardinality(s \ {x}) = least - 1
    BY <1>1, <1>5, FS_RemoveElement
  <2>2. least \in Nat /\ least - 1 \in Nat /\ least - 1 < least
    BY <1>1, <1>2, <2>1
  <2> QED
    BY <1>4, <2>1, <2>2
<1> QED
  BY <1>5, <1>6

-----------------------------------------------------------------------------

(***************************************************************************)
(* Sums over a finite set.  MapThenSumSet picks one element after another; *)
(* the sum does not depend on which one is picked.                         *)
(***************************************************************************)
Total(w, D) == MapThenSumSet(LAMBDA r : w[r], D)

Picked(s) == CHOOSE x \in s : TRUE

Sums(g, w, D) ==
    g = [s \in SUBSET D |->
            IF s = {} THEN 0
            ELSE w[CHOOSE x \in s : TRUE] + g[s \ {CHOOSE x \in s : TRUE}]]

LEMMA PickedIsIn == \A s : s # {} => Picked(s) \in s
BY Zenon DEF Picked

LEMMA SumsFields ==
    ASSUME NEW D, NEW g, NEW w, Sums(g, w, D), NEW s \in SUBSET D
    PROVE  /\ s = {} => g[s] = 0
           /\ s # {} => g[s] = w[Picked(s)] + g[s \ {Picked(s)}]
BY DEF Sums, Picked

LEMMA SumsExist ==
    ASSUME NEW D, IsFiniteSet(D), NEW w
    PROVE  \E g : Sums(g, w, D)
<1> DEFINE Follows(g, s) == IF s = {} THEN 0 ELSE w[Picked(s)] + g[s \ {Picked(s)}]
           Upto(g, n) == /\ g = [s \in SUBSET D |-> g[s]]
                         /\ \A s \in SUBSET D : Cardinality(s) <= n => g[s] = Follows(g, s)
           P == {n \in Nat : \E g : Upto(g, n)}
<1>1. \A s \in SUBSET D : Cardinality(s) \in Nat /\ IsFiniteSet(s)
  BY FS_Subset, FS_CardinalityType
<1>2. 0 \in P
  <2> DEFINE g == [s \in SUBSET D |-> 0]
  <2>1. \A s \in SUBSET D : Cardinality(s) <= 0 => s = {}
    BY <1>1, FS_EmptySet
  <2>2. Upto(g, 0)
    BY <2>1
  <2> QED
    BY <2>2
<1>3. ASSUME NEW n \in Nat, n \in P PROVE n + 1 \in P
  <2>1. PICK g : Upto(g, n)
    BY <1>3
  <2> DEFINE h == [s \in SUBSET D |-> IF Cardinality(s) <= n THEN g[s] ELSE Follows(g, s)]
  <2>2. ASSUME NEW s \in SUBSET D, Cardinality(s) <= n + 1 PROVE h[s] = Follows(h, s)
    <3>1. h[s] = Follows(g, s)
      BY <2>1
    <3>2. CASE s = {}
      BY <3>1, <3>2
    <3>3. CASE s # {}
      <4>1. Picked(s) \in s
        BY <3>3, PickedIsIn
      <4>2. /\ s \ {Picked(s)} \in SUBSET D
            /\ Cardinality(s \ {Picked(s)}) = Cardinality(s) - 1
        BY <1>1, <4>1, FS_RemoveElement
      <4>3. Cardinality(s \ {Picked(s)}) <= n
        BY <1>1, <2>2, <4>2
      <4>4. h[s \ {Picked(s)}] = g[s \ {Picked(s)}]
        BY <4>2, <4>3
      <4> QED
        BY <3>1, <3>3, <4>4
    <3> QED
      BY <3>2, <3>3
  <2>3. Upto(h, n + 1)
    BY <2>2
  <2> HIDE DEF h, Upto
  <2> QED
    BY <2>3
<1>4. Cardinality(D) \in P
  <2> HIDE DEF P
  <2> QED
    BY <1>1, <1>2, <1>3, Numbers
<1>5. PICK g : Upto(g, Cardinality(D))
  BY <1>4
<1>6. \A s \in SUBSET D : Cardinality(s) <= Cardinality(D)
  BY FS_Subset
<1>7. \A s \in SUBSET D : g[s] = Follows(g, s)
  BY <1>5, <1>6
<1>8. g = [s \in SUBSET D |-> Follows(g, s)]
  BY <1>5, <1>7
<1>9. Sums(g, w, D)
  BY <1>8, Zenon DEF Sums, Picked
<1> QED
  BY <1>9

LEMMA TotalIsSum ==
    ASSUME NEW D, IsFiniteSet(D), NEW w
    PROVE  \E g : Sums(g, w, D) /\ Total(w, D) = g[D]
<1>1. \E g : Sums(g, w, D)
  BY SumsExist
<1>2. Sums(CHOOSE g : Sums(g, w, D), w, D)
  BY <1>1, Zenon
<1> QED
  BY <1>2, Zenon DEF Sums, Total, MapThenSumSet, MapThenFoldSet

\* Two recursions agree where both are defined.
LEMMA SumsAgree ==
    ASSUME NEW D, NEW E, NEW w, NEW g, NEW h, Sums(g, w, D), Sums(h, w, E),
           NEW s, s \subseteq D, s \subseteq E, IsFiniteSet(s)
    PROVE  g[s] = h[s]
<1> DEFINE P == {t \in SUBSET s : g[t] = h[t]}
<1>1. ASSUME NEW t \in SUBSET s, \A x \in t : t \ {x} \in P PROVE t \in P
  <2>1. t \in SUBSET D /\ t \in SUBSET E
    OBVIOUS
  <2>2. CASE t = {}
    <3>1. g[t] = 0 /\ h[t] = 0
      BY <2>1, <2>2, SumsFields
    <3> QED
      BY <3>1
  <2>3. CASE t # {}
    <3>1. Picked(t) \in t
      BY <2>3, PickedIsIn
    <3>2. g[t \ {Picked(t)}] = h[t \ {Picked(t)}]
      BY <1>1, <3>1
    <3>3. /\ g[t] = w[Picked(t)] + g[t \ {Picked(t)}]
          /\ h[t] = w[Picked(t)] + h[t \ {Picked(t)}]
      BY <2>1, <2>3, SumsFields
    <3> QED
      BY <3>2, <3>3
  <2> QED
    BY <2>2, <2>3
<1>2. s \in P
  <2> HIDE DEF P
  <2> QED
    BY <1>1, Subsets
<1> QED
  BY <1>2

LEMMA SumsAreInts ==
    ASSUME NEW D, IsFiniteSet(D), NEW w, \A r \in D : w[r] \in Int,
           NEW g, Sums(g, w, D)
    PROVE  \A s \in SUBSET D : g[s] \in Int
<1> SUFFICES ASSUME NEW s \in SUBSET D PROVE g[s] \in Int
  OBVIOUS
<1> DEFINE P == {t \in SUBSET s : g[t] \in Int}
<1>1. ASSUME NEW t \in SUBSET s, \A x \in t : t \ {x} \in P PROVE t \in P
  <2>1. t \in SUBSET D
    OBVIOUS
  <2>2. CASE t = {}
    <3>1. g[t] = 0
      BY <2>1, <2>2, SumsFields
    <3> QED
      BY <3>1
  <2>3. CASE t # {}
    <3>1. Picked(t) \in t
      BY <2>3, PickedIsIn
    <3>2. g[t \ {Picked(t)}] \in Int /\ w[Picked(t)] \in Int
      BY <1>1, <2>1, <3>1
    <3>3. g[t] = w[Picked(t)] + g[t \ {Picked(t)}]
      BY <2>1, <2>3, SumsFields
    <3> QED
      BY <3>2, <3>3
  <2> QED
    BY <2>2, <2>3
<1>2. IsFiniteSet(s)
  BY FS_Subset
<1>3. s \in P
  <2> HIDE DEF P
  <2> QED
    BY <1>1, <1>2, Subsets
<1> QED
  BY <1>3

\* Any element may be the first.
LEMMA SumsCommute ==
    ASSUME NEW D, IsFiniteSet(D), NEW w, \A r \in D : w[r] \in Int,
           NEW g, Sums(g, w, D)
    PROVE  \A x \in D : g[D] = w[x] + g[D \ {x}]
<1> DEFINE P == {t \in SUBSET D : \A x \in t : g[t] = w[x] + g[t \ {x}]}
<1>1. ASSUME NEW t \in SUBSET D, \A x \in t : t \ {x} \in P PROVE t \in P
  <2> SUFFICES ASSUME NEW x \in t PROVE g[t] = w[x] + g[t \ {x}]
    OBVIOUS
  <2> DEFINE y == Picked(t)
  <2>1. y \in t /\ g[t] = w[y] + g[t \ {y}]
    BY PickedIsIn, SumsFields
  <2> HIDE DEF y
  <2>2. CASE x = y
    BY <2>1, <2>2
  <2>3. CASE x # y
    <3>1. x \in t \ {y} /\ y \in t \ {x} /\ t \ {y} \in P /\ t \ {x} \in P
      BY <1>1, <2>1, <2>3
    <3> DEFINE rest == g[(t \ {x}) \ {y}]
               before == g[t \ {y}]
               after == g[t \ {x}]
    <3>2. (t \ {y}) \ {x} = (t \ {x}) \ {y}
      OBVIOUS
    <3>3. before = w[x] + rest /\ after = w[y] + rest /\ g[t] = w[y] + before
      BY <2>1, <3>1, <3>2, Zenon
    <3>4. w[x] \in Int /\ w[y] \in Int /\ rest \in Int
      <4>1. (t \ {x}) \ {y} \in SUBSET D /\ x \in D /\ y \in D
        BY <2>1
      <4> QED
        BY <4>1, SumsAreInts
    <3> HIDE DEF rest, before, after
    <3>5. g[t] = w[x] + after
      BY <3>3, <3>4
    <3> QED
      BY <3>5 DEF after
  <2> QED
    BY <2>2, <2>3
<1>2. D \in P
  <2> HIDE DEF P
  <2> QED
    BY <1>1, Subsets
<1> QED
  BY <1>2

LEMMA TotalLaws ==
    ASSUME NEW D, IsFiniteSet(D), NEW w, \A r \in D : w[r] \in Int
    PROVE  /\ D = {} => Total(w, D) = 0
           /\ Total(w, D) \in Int
           /\ \A x \in D : Total(w, D) = w[x] + Total(w, D \ {x})
<1>1. PICK g : Sums(g, w, D) /\ Total(w, D) = g[D]
  BY TotalIsSum
<1>2. D = {} => Total(w, D) = 0
  BY <1>1, SumsFields
<1>3. Total(w, D) \in Int
  BY <1>1, SumsAreInts
<1>4. ASSUME NEW x \in D PROVE Total(w, D) = w[x] + Total(w, D \ {x})
  <2>1. IsFiniteSet(D \ {x}) /\ D \ {x} \subseteq D
    BY FS_Subset
  <2>2. PICK h : Sums(h, w, D \ {x}) /\ Total(w, D \ {x}) = h[D \ {x}]
    BY <2>1, TotalIsSum
  <2>3. h[D \ {x}] = g[D \ {x}]
    BY <1>1, <2>1, <2>2, SumsAgree
  <2>4. \A y \in D : g[D] = w[y] + g[D \ {y}]
    BY <1>1, SumsCommute
  <2> QED
    BY <1>1, <2>2, <2>3, <2>4, Zenon
<1> QED
  BY <1>2, <1>3, <1>4

\* A sum over more elements, of values that are no smaller.
LEMMA TotalGrows ==
    ASSUME NEW D, NEW E, IsFiniteSet(E), D \subseteq E, NEW v, NEW w,
           \A r \in D : v[r] \in Nat, \A r \in E : w[r] \in Nat,
           \A r \in D : v[r] <= w[r]
    PROVE  Total(v, D) \in Nat /\ Total(v, D) <= Total(w, E)
<1> DEFINE P == {t \in SUBSET E : /\ Total(v, t \cap D) \in Nat
                                  /\ Total(v, t \cap D) <= Total(w, t)}
<1>1. ASSUME NEW t \in SUBSET E, \A x \in t : t \ {x} \in P PROVE t \in P
  <2>1. /\ IsFiniteSet(t) /\ IsFiniteSet(t \cap D)
        /\ \A r \in t : w[r] \in Int /\ w[r] >= 0
        /\ \A r \in t \cap D : v[r] \in Int /\ v[r] >= 0
    <3>1. t \cap D \subseteq E
      OBVIOUS
    <3> QED
      BY <3>1, FS_Subset
  <2>2. Total(w, t) \in Int /\ Total(v, t \cap D) \in Int
    BY <2>1, TotalLaws
  <2>3. CASE t = {}
    <3>1. Total(w, t) = 0 /\ Total(v, t \cap D) = 0
      <4>1. t \cap D = {}
        BY <2>3
      <4> QED
        BY <2>1, <2>3, <4>1, TotalLaws
    <3> QED
      BY <3>1
  <2>4. ASSUME NEW x \in t PROVE t \in P
    <3> DEFINE less == Total(v, (t \ {x}) \cap D)
               more == Total(w, t \ {x})
    <3>1. less \in Nat /\ less <= more
      BY <1>1
    <3>2. Total(w, t) = w[x] + more
      BY <2>1, TotalLaws
    <3>3. more \in Int
      <4>1. IsFiniteSet(t \ {x}) /\ \A r \in t \ {x} : w[r] \in Int
        BY <2>1, FS_Subset
      <4> QED
        BY <4>1, TotalLaws
    <3>4. CASE x \in D
      <4>1. Total(v, t \cap D) = v[x] + Total(v, (t \cap D) \ {x})
        BY <2>1, <3>4, TotalLaws
      <4>2. (t \cap D) \ {x} = (t \ {x}) \cap D
        OBVIOUS
      <4>3. v[x] \in Nat /\ w[x] \in Nat /\ v[x] <= w[x]
        BY <3>4
      <4>4. Total(v, t \cap D) = v[x] + less
        BY <4>1, <4>2, Zenon
      <4> HIDE DEF less, more
      <4>5. Total(v, t \cap D) \in Nat /\ Total(v, t \cap D) <= Total(w, t)
        BY <3>1, <3>2, <3>3, <4>3, <4>4
      <4> QED
        BY <4>5
    <3>5. CASE x \notin D
      <4>1. t \cap D = (t \ {x}) \cap D
        BY <3>5
      <4>2. w[x] \in Nat
        OBVIOUS
      <4>3. Total(v, t \cap D) = less
        BY <4>1, Zenon
      <4> HIDE DEF less, more
      <4>4. Total(v, t \cap D) \in Nat /\ Total(v, t \cap D) <= Total(w, t)
        BY <3>1, <3>2, <3>3, <4>2, <4>3
      <4> QED
        BY <4>4
    <3> QED
      BY <3>4, <3>5
  <2> QED
    BY <2>3, <2>4
<1>2. E \in P
  <2> HIDE DEF P
  <2> QED
    BY <1>1, Subsets
<1>3. E \cap D = D
  OBVIOUS
<1> QED
  BY <1>2, <1>3

LEMMA TotalIsLinear ==
    ASSUME NEW D, IsFiniteSet(D), NEW v, NEW w, NEW c \in Int,
           \A r \in D : v[r] \in Int /\ w[r] = c * v[r]
    PROVE  Total(w, D) = c * Total(v, D)
<1> DEFINE P == {t \in SUBSET D : Total(w, t) = c * Total(v, t)}
<1>1. ASSUME NEW t \in SUBSET D, \A x \in t : t \ {x} \in P PROVE t \in P
  <2>1. /\ IsFiniteSet(t)
        /\ \A r \in t : v[r] \in Int /\ w[r] \in Int /\ w[r] = c * v[r]
    BY FS_Subset
  <2>2. CASE t = {}
    <3>1. Total(w, t) = 0 /\ Total(v, t) = 0
      BY <2>1, <2>2, TotalLaws
    <3> QED
      BY <3>1
  <2>3. ASSUME NEW x \in t PROVE t \in P
    <3>1. Total(w, t \ {x}) = c * Total(v, t \ {x})
      BY <1>1
    <3>2. /\ Total(w, t) = w[x] + Total(w, t \ {x})
          /\ Total(v, t) = v[x] + Total(v, t \ {x})
      BY <2>1, TotalLaws
    <3>3. Total(v, t \ {x}) \in Int
      <4>1. IsFiniteSet(t \ {x}) /\ \A r \in t \ {x} : v[r] \in Int
        BY <2>1, FS_Subset
      <4> QED
        BY <4>1, TotalLaws
    <3>4. v[x] \in Int /\ w[x] = c * v[x]
      BY <2>1
    <3>5. \A a \in Int, b \in Int : c * (a + b) = c * a + c * b
      OBVIOUS
    <3> QED
      BY <3>1, <3>2, <3>3, <3>4, <3>5
  <2> QED
    BY <2>2, <2>3
<1>2. D \in P
  <2> HIDE DEF P
  <2> QED
    BY <1>1, Subsets
<1> QED
  BY <1>2

-----------------------------------------------------------------------------

(***************************************************************************)
(* Maxima and minima of finite sets of numbers.                            *)
(***************************************************************************)
LEMMA SomeIsLargest ==
    ASSUME NEW D, IsFiniteSet(D), D # {}, NEW f, \A r \in D : f[r] \in Int
    PROVE  \E m \in D : \A r \in D : f[m] >= f[r]
<1> DEFINE P == {t \in SUBSET D : t = {} \/ \E m \in t : \A r \in t : f[m] >= f[r]}
<1>1. ASSUME NEW t \in SUBSET D, \A x \in t : t \ {x} \in P PROVE t \in P
  <2> SUFFICES ASSUME NEW x \in t PROVE \E m \in t : \A r \in t : f[m] >= f[r]
    OBVIOUS
  <2>1. t \ {x} = {} \/ \E m \in t \ {x} : \A r \in t \ {x} : f[m] >= f[r]
    BY <1>1
  <2>2. f[x] >= f[x] /\ f[x] \in Int
    OBVIOUS
  <2>3. CASE t \ {x} = {}
    <3>1. \A r \in t : r = x
      BY <2>3
    <3> QED
      BY <2>2, <3>1
  <2>4. ASSUME NEW m \in t \ {x}, \A r \in t \ {x} : f[m] >= f[r]
        PROVE  \E k \in t : \A r \in t : f[k] >= f[r]
    <3>1. f[m] \in Int /\ \A r \in t : f[r] \in Int
      OBVIOUS
    <3>2. CASE f[m] >= f[x]
      BY <2>4, <3>2
    <3>3. CASE ~(f[m] >= f[x])
      <4>1. \A r \in t : f[x] >= f[r]
        BY <2>2, <2>4, <3>1, <3>3
      <4> QED
        BY <4>1
    <3> QED
      BY <3>2, <3>3
  <2> QED
    BY <2>1, <2>3, <2>4
<1>2. D \in P
  <2> HIDE DEF P
  <2> QED
    BY <1>1, Subsets
<1> QED
  BY <1>2

LEMMA Extremes ==
    ASSUME NEW D, IsFiniteSet(D), D # {}, NEW f, \A r \in D : f[r] \in Int,
           NEW S, S = {f[r] : r \in D}
    PROVE  /\ Max(S) \in S /\ \A y \in S : Max(S) >= y
           /\ Min(S) \in S /\ \A y \in S : Min(S) <= y
<1>1. \E x \in S : \A y \in S : x >= y
  <2>1. PICK m \in D : \A r \in D : f[m] >= f[r]
    BY SomeIsLargest
  <2> QED
    BY <2>1
<1>2. \E x \in S : \A y \in S : x <= y
  <2> DEFINE g == [r \in D |-> -f[r]]
  <2>1. \A r \in D : g[r] \in Int
    OBVIOUS
  <2>2. PICK m \in D : \A r \in D : g[m] >= g[r]
    <3> HIDE DEF g
    <3> QED
      BY <2>1, SomeIsLargest
  <2>3. \A r \in D : f[m] <= f[r]
    BY <2>2
  <2> QED
    BY <2>3
<1> QED
  BY <1>1, <1>2, Zenon DEF Max, Min

-----------------------------------------------------------------------------

(***************************************************************************)
(* Bags of rows: their sizes, and the aggregates of the SELECTs.           *)
(***************************************************************************)
FiniteBag(S) == IsABag(S) /\ IsFiniteSet(DOMAIN S)

Chosen(S) == {r \in DOMAIN S : r.allowed}

LEMMA BagFields ==
    ASSUME NEW S, FiniteBag(S)
    PROVE  /\ \A r \in DOMAIN S : S[r] \in Nat /\ S[r] > 0 /\ S[r] \in Int
           /\ S = [r \in DOMAIN S |-> S[r]]
BY DEF FiniteBag, IsABag

LEMMA AllowedRows ==
    ASSUME NEW S
    PROVE  /\ AllowedIn(S) = [r \in Chosen(S) |-> S[r]]
           /\ DOMAIN AllowedIn(S) = Chosen(S)
           /\ \A r \in Chosen(S) : AllowedIn(S)[r] = S[r]
<1>1. AllowedIn(S) = [r \in Chosen(S) |-> S[r]]
  BY Zenon DEF AllowedIn, Where, Chosen
<1> QED
  BY <1>1

LEMMA AllowedBag ==
    ASSUME NEW S, FiniteBag(S)
    PROVE  /\ FiniteBag(AllowedIn(S))
           /\ AllowedIn(S) = EmptyBag <=> Chosen(S) = {}
<1>1. Chosen(S) \subseteq DOMAIN S /\ IsFiniteSet(Chosen(S))
  <2>1. Chosen(S) \subseteq DOMAIN S
    BY DEF Chosen
  <2> QED
    BY <2>1, FS_Subset DEF FiniteBag
<1>2. IsABag(AllowedIn(S))
  BY <1>1, AllowedRows, BagFields DEF IsABag
<1>3. AllowedIn(S) = EmptyBag <=> Chosen(S) = {}
  <2>1. DOMAIN EmptyBag = {}
    BY DEF EmptyBag, SetToBag
  <2>2. Chosen(S) = {} => AllowedIn(S) = EmptyBag
    BY AllowedRows DEF EmptyBag, SetToBag
  <2> QED
    BY <2>1, <2>2, AllowedRows
<1> QED
  BY <1>1, <1>2, <1>3, AllowedRows DEF FiniteBag

LEMMA CardinalityIsTotal ==
    ASSUME NEW S
    PROVE  BagCardinality(S) = Total(S, DOMAIN S)
BY Zenon DEF BagCardinality, Total, MapThenSumSet, MapThenFoldSet

\* T has all that S has.
More(S, T) ==
    /\ DOMAIN S \subseteq DOMAIN T
    /\ \A r \in DOMAIN S : S[r] <= T[r]

LEMMA MoreCounts ==
    ASSUME NEW S, NEW T, FiniteBag(S), FiniteBag(T), More(S, T)
    PROVE  /\ BagCardinality(S) \in Nat
           /\ BagCardinality(S) <= BagCardinality(T)
<1>1. /\ \A r \in DOMAIN S : S[r] \in Nat
      /\ \A r \in DOMAIN T : T[r] \in Nat
      /\ IsFiniteSet(DOMAIN T)
  BY BagFields DEF FiniteBag
<1>2. Total(S, DOMAIN S) \in Nat /\ Total(S, DOMAIN S) <= Total(T, DOMAIN T)
  BY <1>1, TotalGrows DEF More
<1> QED
  BY <1>2, CardinalityIsTotal

LEMMA BagSize ==
    ASSUME NEW S, FiniteBag(S)
    PROVE  /\ BagCardinality(S) \in Nat
           /\ BagCardinality(AllowedIn(S)) \in Nat
           /\ BagCardinality(AllowedIn(S)) <= BagCardinality(S)
           /\ DOMAIN S = {} <=> BagCardinality(S) = 0
<1>1. More(S, S) /\ More(AllowedIn(S), S)
  <2>1. \A r \in DOMAIN S : S[r] \in Int
    BY BagFields
  <2>2. Chosen(S) \subseteq DOMAIN S /\ \A r \in DOMAIN S : S[r] <= S[r]
    BY <2>1 DEF Chosen
  <2> QED
    BY <2>2, AllowedRows DEF More
<1>2. BagCardinality(S) \in Nat /\ BagCardinality(AllowedIn(S)) \in Nat
      /\ BagCardinality(AllowedIn(S)) <= BagCardinality(S)
  BY <1>1, AllowedBag, MoreCounts
<1>3. /\ IsFiniteSet(DOMAIN S) /\ \A r \in DOMAIN S : S[r] \in Int
      /\ \A r \in DOMAIN S : S[r] \in Nat /\ S[r] > 0
  BY BagFields DEF FiniteBag
<1>4. DOMAIN S = {} => BagCardinality(S) = 0
  BY <1>3, TotalLaws, CardinalityIsTotal
<1>5. ASSUME NEW r \in DOMAIN S PROVE BagCardinality(S) # 0
  <2>1. Total(S, DOMAIN S) = S[r] + Total(S, DOMAIN S \ {r})
    BY <1>3, TotalLaws
  <2>2. Total(S, DOMAIN S \ {r}) \in Nat
    <3>1. DOMAIN S \ {r} \subseteq DOMAIN S /\ \A q \in DOMAIN S : S[q] <= S[q]
      BY <1>3
    <3> QED
      BY <1>3, <3>1, TotalGrows
  <2>3. S[r] \in Nat /\ S[r] > 0
    BY <1>3
  <2> DEFINE rest == Total(S, DOMAIN S \ {r})
  <2> HIDE DEF rest
  <2>4. S[r] + rest # 0
    BY <2>2, <2>3 DEF rest
  <2> QED
    BY <2>1, <2>4, CardinalityIsTotal DEF rest
<1> QED
  BY <1>2, <1>4, <1>5

LEMMA PartOfBag ==
    ASSUME NEW S, FiniteBag(S), NEW D, D \subseteq DOMAIN S,
           NEW part, part = [r \in D |-> S[r]]
    PROVE  FiniteBag(part) /\ DOMAIN part = D /\ More(part, S)
<1>1. IsFiniteSet(D) /\ DOMAIN part = D /\ \A r \in D : part[r] = S[r]
  BY FS_Subset DEF FiniteBag
<1>2. \A r \in D : S[r] \in Nat /\ S[r] > 0 /\ S[r] <= S[r]
  BY BagFields
<1>3. IsABag(part)
  BY <1>1, <1>2 DEF IsABag
<1>4. FiniteBag(part)
  BY <1>1, <1>3 DEF FiniteBag
<1>5. More(part, S)
  BY <1>1, <1>2 DEF More
<1> QED
  BY <1>1, <1>4, <1>5

\* Where every row is allowed, AllowedIn leaves none out.
LEMMA AllAllowed ==
    ASSUME NEW S, FiniteBag(S), \A r \in DOMAIN S : r.allowed
    PROVE  AllowedIn(S) = S
<1>1. Chosen(S) = DOMAIN S
  BY DEF Chosen
<1> QED
  BY <1>1, AllowedRows, BagFields

LEMMA Sizes ==
    ASSUME NEW S, NEW T, FiniteBag(S), FiniteBag(T), More(S, T)
    PROVE  /\ BagCardinality(S) \in Nat /\ BagCardinality(T) \in Nat
           /\ BagCardinality(AllowedIn(S)) \in Nat
           /\ BagCardinality(AllowedIn(T)) \in Nat
           /\ BagCardinality(S) <= BagCardinality(T)
           /\ BagCardinality(AllowedIn(S)) <= BagCardinality(AllowedIn(T))
<1>1. More(AllowedIn(S), AllowedIn(T))
  BY AllowedRows DEF More, Chosen
<1> QED
  BY <1>1, AllowedBag, BagSize, MoreCounts

\* More rows.
LEMMA Added ==
    ASSUME NEW S, NEW B, FiniteBag(S), FiniteBag(B), NEW T, T = S (+) B
    PROVE  /\ FiniteBag(T) /\ DOMAIN T = DOMAIN S \cup DOMAIN B
           /\ More(S, T)
<1>1. /\ DOMAIN T = DOMAIN S \cup DOMAIN B
      /\ T = [r \in DOMAIN T |-> T[r]]
      /\ \A r \in DOMAIN T : T[r] = (IF r \in DOMAIN S THEN S[r] ELSE 0)
                                      + (IF r \in DOMAIN B THEN B[r] ELSE 0)
  BY DEF (+)
<1>2. \A r \in DOMAIN T : T[r] \in Nat /\ T[r] > 0
  BY <1>1, BagFields
<1>3. \A r \in DOMAIN S : S[r] <= T[r]
  BY <1>1, BagFields
<1>4. IsFiniteSet(DOMAIN T)
  BY <1>1, FS_Union DEF FiniteBag
<1>5. IsABag(T)
  BY <1>1, <1>2 DEF IsABag
<1> QED
  BY <1>1, <1>3, <1>4, <1>5 DEF FiniteBag, More

-----------------------------------------------------------------------------

(***************************************************************************)
(* Verdicts: a young profile is refused nothing before the sixth payment   *)
(* of an hour; a file is refused nothing by a young profile, nor by one    *)
(* with three allowed transactions; a usual amount in a usual mode is      *)
(* allowed unless the hour is busy.                                        *)
(***************************************************************************)
LEMMA YoungRefusal ==
    ASSUME NEW p \in UserProfile, NEW x \in Int32, NEW m, NEW h \in Hours,
           NEW n \in Nat, p.total < MinTransactionsForProfiling,
           ~IsAllowed(AnalyzeTransaction(x, m, h, n, p).decision)
    PROVE  n >= 5
<1> DEFINE r == ResultOf(x, m, h, n, p)
           c == CalculateProfileConfidence(p)
<1>1. Bounded(r, p, n) /\ r.decision \notin {"ALLOW", "FLAG"}
  BY ResultIsBounded DEF ResultOf, IsAllowed
<1>2. r.frequencyRisk = CalculateFrequencySpikeRisk(n)
  BY DEF ResultOf, AnalyzeTransaction
<1>3. r.modeRisk <= 600 - 3 * c /\ c \in 0..100
  BY ResultFields
<1> HIDE DEF r, c
<1>4. r.final \in Int /\ r.final >= Points(75)
  <2>1. r.final \in Int /\ r.decision = DetermineTransactionDecision(r.final, p)
    BY <1>1 DEF Bounded
  <2> QED
    BY <1>1, <2>1, DecisionThresholds
<1> SUFFICES ASSUME n <= 4 PROVE FALSE
  OBVIOUS
<1>5. r.frequencyRisk \in Int /\ r.frequencyRisk <= 400
  BY <1>2 DEF CalculateFrequencySpikeRisk, ThresholdFrequency, Lesser
<1>6. r.raw \in Int /\ r.raw <= 7400
  <2>1. /\ r.amountRisk \in Int /\ r.amountRisk <= 1000
        /\ r.modeRisk \in Risk /\ r.timeRisk \in Risk
        /\ r.raw = 4 * r.amountRisk + 3 * r.frequencyRisk
                     + 2 * r.modeRisk + r.timeRisk
    BY <1>1 DEF Bounded
  <2>2. \A k \in Risk : k \in Int /\ k <= 1000
    BY DEF Risk
  <2> QED
    BY <1>3, <1>5, <2>1, <2>2
<1>7. 200 - CalculateProfileConfidence(p) <= 200
  BY ConfidenceBounds
<1>8. r.raw <= 7400 /\ 200 - CalculateProfileConfidence(p) <= 200
        => r.final <= 7400 * 200
  <2>1. \A bound \in Nat, f \in Nat :
          r.raw <= bound /\ 200 - CalculateProfileConfidence(p) <= f
            => r.final <= bound * f
    BY <1>1 DEF Bounded
  <2> QED
    BY <2>1
<1> QED
  BY <1>4, <1>6, <1>7, <1>8 DEF Points

LEMMA FileVerdict ==
    ASSUME NEW p \in UserProfile, NEW x \in Int32, NEW m, NEW h \in Hours,
           p.total < MinTransactionsForProfiling \/ p.allowed >= 3
    PROVE  IsAllowed(AnalyzeTransaction(x, m, h, 0, p).decision)
<1> DEFINE r == ResultOf(x, m, h, 0, p)
<1>1. Bounded(r, p, 0)
  BY ResultIsBounded
<1> SUFFICES ASSUME r.decision \notin {"ALLOW", "FLAG"} PROVE FALSE
  BY DEF ResultOf, IsAllowed
<1> HIDE DEF r
<1>2. r.final \in Int /\ r.decision = DetermineTransactionDecision(r.final, p)
  BY <1>1 DEF Bounded
<1>3. /\ r.final >= Points(60)
      /\ p.total < MinTransactionsForProfiling => r.final >= Points(75)
  BY <1>2, DecisionThresholds
<1>4. r.final < Points(75) /\ p.allowed < 3
  BY <1>1, <1>3, SixtyPoints
<1> QED
  BY <1>2, <1>3, <1>4, ProfileFields DEF Points

LEMMA HabitVerdict ==
    ASSUME NEW p \in UserProfile, NEW x \in Int32, NEW m \in p.modes,
           NEW h \in Hours, NEW n \in 0..2,
           CalculateAmountDeviationRisk(x, p) <= 200
    PROVE  AnalyzeTransaction(x, m, h, n, p).decision = "ALLOW"
<1> DEFINE r == ResultOf(x, m, h, n, p)
<1>1. Bounded(r, p, n)
  BY ResultIsBounded
<1>2. /\ r.amountRisk = CalculateAmountDeviationRisk(x, p)
      /\ r.frequencyRisk = CalculateFrequencySpikeRisk(n)
      /\ r.modeRisk = CalculateModeDeviationRisk(m, p)
  BY DEF ResultOf, AnalyzeTransaction
<1>3. r.frequencyRisk = 0 /\ r.modeRisk = 0
  BY <1>2 DEF CalculateFrequencySpikeRisk, ThresholdFrequency, CalculateModeDeviationRisk
<1> SUFFICES r.decision = "ALLOW"
  BY DEF ResultOf
<1> HIDE DEF r
<1>4. r.raw \in Int /\ r.raw <= 1800
  <2>1. /\ r.amountRisk \in Int /\ r.timeRisk \in Risk
        /\ r.raw = 4 * r.amountRisk + 3 * r.frequencyRisk
                     + 2 * r.modeRisk + r.timeRisk
    BY <1>1 DEF Bounded
  <2>2. r.timeRisk \in Int /\ r.timeRisk <= 1000
    BY <2>1 DEF Risk
  <2> QED
    BY <1>2, <1>3, <2>1, <2>2
<1>5. r.raw <= 1800 /\ 200 - CalculateProfileConfidence(p) <= 200
        => r.final <= 1800 * 200
  <2>1. \A bound \in Nat, f \in Nat :
          r.raw <= bound /\ 200 - CalculateProfileConfidence(p) <= f
            => r.final <= bound * f
    BY <1>1 DEF Bounded
  <2> QED
    BY <2>1
<1>6. 200 - CalculateProfileConfidence(p) <= 200
  BY ConfidenceBounds
<1>7. r.final \in Int /\ r.decision = DetermineTransactionDecision(r.final, p)
  BY <1>1 DEF Bounded
<1>8. r.final < Points(30) /\ r.final < Points(60)
  BY <1>4, <1>5, <1>6, <1>7 DEF Points
<1> QED
  BY <1>7, <1>8 DEF DetermineTransactionDecision

-----------------------------------------------------------------------------

(***************************************************************************)
(* The columns of a set of rows.                                           *)
(***************************************************************************)
Table(S) == FiniteBag(S) /\ DOMAIN S \subseteq Decided

LEMMA RowFields ==
    ASSUME NEW S, Table(S), NEW r \in DOMAIN S
    PROVE  /\ r.amount \in Int /\ r.mode \in Modes /\ r.at \in Nat
           /\ r.allowed \in BOOLEAN
           /\ r = [amount |-> r.amount, mode |-> r.mode, at |-> r.at,
                   allowed |-> r.allowed]
BY DEF Table, Decided

LEMMA Moments24 ==
    ASSUME NEW t \in Nat
    PROVE  HourOf(t) \in Hours /\ DayOf(t) \in Nat /\ t = 24 * DayOf(t) + HourOf(t)
BY DEF HourOf, DayOf, Hours

LEMMA MaxOfSome ==
    ASSUME NEW K, K \subseteq 0..(MaxInt32 + 1), 0 \in K
    PROVE  Max(K) \in K /\ Max(K) \in Nat
<1>1. IsFiniteSet(K)
  <2>1. IsFiniteSet(0..(MaxInt32 + 1))
    BY MaxInt32Assumption, FS_Interval
  <2> QED
    BY <2>1, FS_Subset
<1> DEFINE f == [k \in K |-> k]
<1>2. K # {} /\ (\A k \in K : f[k] \in Int) /\ K = {f[k] : k \in K}
  <2>1. \A k \in K : k \in Nat
    BY MaxInt32Assumption
  <2>2. \A k \in K : f[k] = k
    OBVIOUS
  <2> HIDE DEF f
  <2>3. K # {} /\ \A k \in K : f[k] \in Int
    BY <2>1, <2>2
  <2>4. K = {f[k] : k \in K}
    BY <2>2, Zenon
  <2> QED
    BY <2>3, <2>4
<1>3. Max(K) \in K
  <2> HIDE DEF f
  <2> QED
    BY <1>1, <1>2, Extremes
<1>4. \A k \in 0..(MaxInt32 + 1) : k \in Nat
  BY MaxInt32Assumption
<1> QED
  BY <1>3, <1>4

LEMMA DeviationTyped == \A S : Deviation(S) \in Nat
<1> SUFFICES ASSUME NEW S PROVE Deviation(S) \in Nat
  OBVIOUS
<1> DEFINE n == BagCardinality(AllowedIn(S))
           total == Sum(AllowedIn(S), LAMBDA r : r.amount)
           v == n * Sum(AllowedIn(S), LAMBDA r : r.amount * r.amount) - total * total
           K == {k \in 0..(MaxInt32 + 1) :
                   \/ k = 0 \/ v > HalfBelow(k, n)
                   \/ v = HalfBelow(k, n) /\ k % 2 = 0}
<1>1. Deviation(S) = IF n < 2 THEN 0 ELSE Max(K)
  BY Zenon DEF Deviation
<1>2. K \subseteq 0..(MaxInt32 + 1) /\ 0 \in K
  <2> HIDE DEF n, v
  <2> QED
    BY MaxInt32Assumption
<1>3. Max(K) \in Nat
  <2> HIDE DEF K
  <2> QED
    BY <1>2, MaxOfSome
<1> HIDE DEF n, K
<1> QED
  BY <1>1, <1>3

\* The first and the last of the allowed rows.
LEMMA FirstAndLast ==
    ASSUME NEW S, Table(S), Chosen(S) # {}
    PROVE  LET moments == {r.at : r \in Chosen(S)} IN
           /\ StartHour(S) = HourOf(Min(moments))
           /\ EndHour(S) = HourOf(Max(moments))
           /\ Min(moments) \in moments /\ Max(moments) \in moments
           /\ moments \subseteq Nat
           /\ \A r \in Chosen(S) : Min(moments) <= r.at /\ r.at <= Max(moments)
<1> DEFINE moments == {r.at : r \in Chosen(S)}
           f == [r \in Chosen(S) |-> r.at]
<1>1. /\ IsFiniteSet(Chosen(S)) /\ DOMAIN AllowedIn(S) = Chosen(S)
      /\ AllowedIn(S) # EmptyBag
  BY AllowedBag, AllowedRows DEF FiniteBag, Table
<1>2. \A r \in Chosen(S) : r.at \in Nat
  BY RowFields DEF Chosen
<1>3. (\A r \in Chosen(S) : f[r] \in Int) /\ moments = {f[r] : r \in Chosen(S)}
  BY <1>2
<1>4. /\ Max(moments) \in moments /\ \A y \in moments : Max(moments) >= y
      /\ Min(moments) \in moments /\ \A y \in moments : Min(moments) <= y
  <2> HIDE DEF f, moments
  <2> QED
    BY <1>1, <1>3, Extremes
<1>5. moments \subseteq Nat
  BY <1>2
<1>6. \A r \in Chosen(S) : r.at \in moments
  OBVIOUS
<1>7. /\ StartHour(S) = HourOf(Min(moments))
      /\ EndHour(S) = HourOf(Max(moments))
  BY <1>1, Zenon DEF StartHour, EndHour, AllowedTimes
<1>8. \A r \in Chosen(S) : Min(moments) <= r.at /\ r.at <= Max(moments)
  <2> HIDE DEF moments
  <2> QED
    BY <1>2, <1>4, <1>5, <1>6
<1> QED
  BY <1>4, <1>5, <1>7, <1>8

LEMMA HoursTyped ==
    ASSUME NEW S, Table(S)
    PROVE  /\ StartHour(S) \in Hours \cup {NoHour}
           /\ EndHour(S) \in Hours \cup {NoHour}
           /\ Chosen(S) # {} => StartHour(S) # NoHour
<1>1. CASE Chosen(S) = {}
  <2>1. AllowedIn(S) = EmptyBag
    BY <1>1, AllowedBag DEF Table
  <2>2. StartHour(S) = NoHour /\ EndHour(S) = NoHour
    BY <2>1, Zenon DEF StartHour, EndHour, AllowedTimes
  <2> QED
    BY <1>1, <2>2
<1>2. CASE Chosen(S) # {}
  <2>1. PICK first \in Nat, last \in Nat :
          StartHour(S) = HourOf(first) /\ EndHour(S) = HourOf(last)
    BY <1>2, FirstAndLast
  <2>2. HourOf(first) \in Hours /\ HourOf(last) \in Hours /\ NoHour \notin Hours
    BY Moments24 DEF Hours, NoHour
  <2> QED
    BY <2>1, <2>2
<1> QED
  BY <1>1, <1>2

LEMMA ColumnsTyped ==
    ASSUME NEW S, Table(S), CanCast(S), NEW total \in Nat, NEW allowed \in Nat
    PROVE  Columns(S, total, allowed) \in UserProfile
<1>1. Average(S) \in Int32 /\ Maximum(S) \in Int32
  BY DEF CanCast
<1>2. {r.mode : r \in DOMAIN AllowedIn(S)} \subseteq Modes
  <2>1. \A r \in Chosen(S) : r.mode \in Modes
    BY RowFields DEF Chosen
  <2> QED
    BY <2>1, AllowedRows
<1> QED
  BY <1>1, <1>2, DeviationTyped, HoursTyped DEF Columns, UserProfile

\* The sums over the allowed rows, as totals of functions.
LEMMA AmountsAdded ==
    ASSUME NEW S, FiniteBag(S)
    PROVE  Sum(S, LAMBDA r : r.amount)
             = Total([r \in DOMAIN S |-> S[r] * r.amount], DOMAIN S)
<1> DEFINE D == DOMAIN S
           w == [r \in D |-> S[r] * r.amount]
           Step(g, s) == IF s = {} THEN 0
                         ELSE S[CHOOSE x \in s : TRUE] * (CHOOSE x \in s : TRUE).amount
                                + g[s \ {CHOOSE x \in s : TRUE}]
           Adds(g) == g = [s \in SUBSET D |-> Step(g, s)]
<1>1. \A g : Sums(g, w, D) <=> Adds(g)
  <2> SUFFICES ASSUME NEW g PROVE Sums(g, w, D) <=> Adds(g)
    OBVIOUS
  <2>1. ASSUME NEW s \in SUBSET D
        PROVE  Step(g, s) = IF s = {} THEN 0
                            ELSE w[CHOOSE x \in s : TRUE] + g[s \ {CHOOSE x \in s : TRUE}]
    <3>1. s # {} => (CHOOSE x \in s : TRUE) \in s
      BY Zenon
    <3>2. s # {} => w[CHOOSE x \in s : TRUE]
                      = S[CHOOSE x \in s : TRUE] * (CHOOSE x \in s : TRUE).amount
      BY <3>1
    <3>3. CASE s = {}
      BY <3>3, Zenon
    <3>4. CASE s # {}
      BY <3>2, <3>4
    <3> QED
      BY <3>3, <3>4, Zenon
  <2> QED
    BY <2>1, Zenon DEF Sums
<1>2. Sum(S, LAMBDA r : r.amount) = (CHOOSE g : Adds(g))[D]
  BY Zenon DEF Sum, MapThenSumSet, MapThenFoldSet
<1>3. IsFiniteSet(D)
  BY DEF FiniteBag
<1>4. PICK g : Sums(g, w, D) /\ Total(w, D) = g[D]
  <2> HIDE DEF w, D
  <2> QED
    BY <1>3, TotalIsSum
<1>5. Adds(CHOOSE h : Adds(h))
  <2> HIDE DEF Adds
  <2> QED
    BY <1>1, <1>4, Zenon
<1>6. Sums(CHOOSE h : Adds(h), w, D)
  <2> HIDE DEF Adds, w, D
  <2> QED
    BY <1>1, <1>5
<1>7. (CHOOSE h : Adds(h))[D] = g[D]
  <2> HIDE DEF Adds, w, D
  <2> QED
    BY <1>3, <1>4, <1>6, SumsAgree
<1> QED
  BY <1>2, <1>4, <1>7, Zenon

LEMMA SquaresAdded ==
    ASSUME NEW S, FiniteBag(S)
    PROVE  Sum(S, LAMBDA r : r.amount * r.amount)
             = Total([r \in DOMAIN S |-> S[r] * (r.amount * r.amount)], DOMAIN S)
<1> DEFINE D == DOMAIN S
           w == [r \in D |-> S[r] * (r.amount * r.amount)]
           Step(g, s) == IF s = {} THEN 0
                         ELSE S[CHOOSE x \in s : TRUE]
                                * ((CHOOSE x \in s : TRUE).amount
                                     * (CHOOSE x \in s : TRUE).amount)
                                + g[s \ {CHOOSE x \in s : TRUE}]
           Adds(g) == g = [s \in SUBSET D |-> Step(g, s)]
<1>1. \A g : Sums(g, w, D) <=> Adds(g)
  <2> SUFFICES ASSUME NEW g PROVE Sums(g, w, D) <=> Adds(g)
    OBVIOUS
  <2>1. ASSUME NEW s \in SUBSET D
        PROVE  Step(g, s) = IF s = {} THEN 0
                            ELSE w[CHOOSE x \in s : TRUE] + g[s \ {CHOOSE x \in s : TRUE}]
    <3>1. s # {} => (CHOOSE x \in s : TRUE) \in s
      BY Zenon
    <3>2. s # {} => w[CHOOSE x \in s : TRUE]
                      = S[CHOOSE x \in s : TRUE]
                          * ((CHOOSE x \in s : TRUE).amount * (CHOOSE x \in s : TRUE).amount)
      BY <3>1
    <3>3. CASE s = {}
      BY <3>3, Zenon
    <3>4. CASE s # {}
      BY <3>2, <3>4
    <3> QED
      BY <3>3, <3>4, Zenon
  <2> QED
    BY <2>1, Zenon DEF Sums
<1>2. Sum(S, LAMBDA r : r.amount * r.amount) = (CHOOSE g : Adds(g))[D]
  BY Zenon DEF Sum, MapThenSumSet, MapThenFoldSet
<1>3. IsFiniteSet(D)
  BY DEF FiniteBag
<1>4. PICK g : Sums(g, w, D) /\ Total(w, D) = g[D]
  <2> HIDE DEF w, D
  <2> QED
    BY <1>3, TotalIsSum
<1>5. Adds(CHOOSE h : Adds(h))
  <2> HIDE DEF Adds
  <2> QED
    BY <1>1, <1>4, Zenon
<1>6. Sums(CHOOSE h : Adds(h), w, D)
  <2> HIDE DEF Adds, w, D
  <2> QED
    BY <1>1, <1>5
<1>7. (CHOOSE h : Adds(h))[D] = g[D]
  <2> HIDE DEF Adds, w, D
  <2> QED
    BY <1>3, <1>4, <1>6, SumsAgree
<1> QED
  BY <1>2, <1>4, <1>7, Zenon

-----------------------------------------------------------------------------

(***************************************************************************)
(* The columns of a habit: where every allowed row has the same amount,    *)
(* the average is no less than the truncated amount, and nothing deviates. *)
(***************************************************************************)
LEMMA RoundedIsAtLeast ==
    ASSUME NEW a \in Int, NEW d \in Nat \ {0}, NEW q \in Int, d * q <= a
    PROVE  Rounded(a, d) >= q
<1> DEFINE floor == a \div d
           rest == a % d
<1>1. floor \in Int /\ rest \in Int /\ a = d * floor + rest /\ rest < d
  OBVIOUS
<1>2. floor >= q
  <2> HIDE DEF floor, rest
  <2> SUFFICES ASSUME floor + 1 <= q PROVE FALSE
    BY <1>1
  <2>1. d * (floor + 1) <= d * q
    <3>1. \A e \in Nat, i \in Int, k \in Int : i <= k => e * i <= e * k
      OBVIOUS
    <3>2. floor + 1 \in Int
      BY <1>1
    <3> QED
      BY <3>1, <3>2
  <2>2. d * (floor + 1) = d * floor + d
    BY <1>1
  <2> DEFINE x == d * floor
             y == d * q
  <2>3. x + d <= y /\ y <= a /\ a = x + rest /\ x \in Int /\ y \in Int
    BY <1>1, <2>1, <2>2
  <2> HIDE DEF x, y
  <2> QED
    BY <1>1, <2>3
<1>3. Rounded(a, d) = floor \/ Rounded(a, d) = floor + 1
  BY DEF Rounded
<1> HIDE DEF floor
<1> QED
  BY <1>1, <1>2, <1>3

LEMMA OneAmount ==
    ASSUME NEW S, Table(S), Chosen(S) # {}, NEW c \in Int,
           \A r \in Chosen(S) : r.amount = c
    PROVE  LET good == AllowedIn(S)
               n == BagCardinality(good)
           IN  /\ n \in Nat /\ n > 0
               /\ Sum(good, LAMBDA r : r.amount) = c * n
               /\ Sum(good, LAMBDA r : r.amount * r.amount) = (c * c) * n
<1> DEFINE good == AllowedIn(S)
           D == DOMAIN good
           n == BagCardinality(good)
           w == [r \in D |-> good[r] * r.amount]
           u == [r \in D |-> good[r] * (r.amount * r.amount)]
<1>1. FiniteBag(good) /\ D = Chosen(S)
  BY AllowedBag, AllowedRows DEF Table
<1>2. n \in Nat /\ n > 0 /\ n = Total(good, D)
  <2> HIDE DEF good
  <2> QED
    BY <1>1, BagSize, CardinalityIsTotal
<1>3. \A r \in D : good[r] \in Int /\ r.amount = c
  <2> HIDE DEF good
  <2> QED
    BY <1>1, BagFields
<1>4. IsFiniteSet(D) /\ c * c \in Int
  BY <1>1 DEF FiniteBag
<1>5. Total(w, D) = c * Total(good, D)
  <2>1. \A r \in D : good[r] \in Int /\ w[r] = c * good[r]
    <3> HIDE DEF good
    <3> QED
      BY <1>3
  <2> HIDE DEF w, D, good
  <2> QED
    BY <1>4, <2>1, TotalIsLinear
<1>6. Total(u, D) = (c * c) * Total(good, D)
  <2>1. \A r \in D : good[r] \in Int /\ u[r] = (c * c) * good[r]
    <3> HIDE DEF good
    <3> QED
      BY <1>3
  <2> DEFINE cc == c * c
  <2>2. cc \in Int /\ \A r \in D : good[r] \in Int /\ u[r] = cc * good[r]
    BY <2>1
  <2> HIDE DEF u, D, good, cc
  <2>3. Total(u, D) = cc * Total(good, D)
    BY <1>4, <2>2, TotalIsLinear
  <2> QED
    BY <2>3 DEF cc
<1>7. /\ Sum(good, LAMBDA r : r.amount) = Total(w, D)
      /\ Sum(good, LAMBDA r : r.amount * r.amount) = Total(u, D)
  <2> HIDE DEF good
  <2> QED
    BY <1>1, AmountsAdded, SquaresAdded
<1> HIDE DEF w, u, good
<1> QED
  BY <1>2, <1>5, <1>6, <1>7, Zenon DEF good

LEMMA HabitAverage ==
    ASSUME NEW S, Table(S), Chosen(S) # {}, NEW c \in Int,
           \A r \in Chosen(S) : r.amount = c
    PROVE  Average(S) >= c \div 10
<1> DEFINE n == BagCardinality(AllowedIn(S))
           total == Sum(AllowedIn(S), LAMBDA r : r.amount)
           q == c \div 10
<1>1. n \in Nat /\ n > 0 /\ total = c * n
  BY OneAmount
<1>2. Average(S) = Rounded(total, 10 * n)
  <2>1. AllowedIn(S) # EmptyBag
    BY AllowedBag DEF Table
  <2> QED
    BY <2>1, Zenon DEF Average
<1>3. q \in Int /\ 10 * q <= c
  OBVIOUS
<1> HIDE DEF n, total, q
<1>4. (10 * n) * q <= c * n
  <2>1. (10 * q) * n <= c * n
    BY <1>1, <1>3
  <2>2. (10 * n) * q = (10 * q) * n
    BY <1>1, <1>3
  <2> QED
    BY <2>1, <2>2
<1>5. 10 * n \in Nat \ {0} /\ c * n \in Int
  BY <1>1
<1>6. Rounded(total, 10 * n) >= q
  <2> DEFINE d == 10 * n
             a == c * n
  <2>1. a \in Int /\ d \in Nat \ {0} /\ d * q <= a /\ total = a
    BY <1>1, <1>4, <1>5
  <2> HIDE DEF d, a
  <2>2. Rounded(a, d) >= q
    BY <1>3, <2>1, RoundedIsAtLeast
  <2> QED
    BY <2>1, <2>2 DEF d
<1> QED
  BY <1>2, <1>6 DEF q

LEMMA HabitDeviation ==
    ASSUME NEW S, Table(S), Chosen(S) # {}, NEW c \in Int,
           \A r \in Chosen(S) : r.amount = c
    PROVE  Deviation(S) = 0
<1> DEFINE n == BagCardinality(AllowedIn(S))
           total == Sum(AllowedIn(S), LAMBDA r : r.amount)
           squares == Sum(AllowedIn(S), LAMBDA r : r.amount * r.amount)
           v == n * squares - total * total
           K == {k \in 0..(MaxInt32 + 1) :
                   \/ k = 0 \/ v > HalfBelow(k, n)
                   \/ v = HalfBelow(k, n) /\ k % 2 = 0}
<1>1. Deviation(S) = IF n < 2 THEN 0 ELSE Max(K)
  BY Zenon DEF Deviation
<1>2. n \in Nat /\ n > 0 /\ total = c * n /\ squares = (c * c) * n
  BY OneAmount
<1> HIDE DEF n, total, squares
<1>3. v = 0
  <2>1. n * ((c * c) * n) = (c * n) * (c * n)
    BY <1>2
  <2>2. (c * n) * (c * n) \in Int
    BY <1>2
  <2> QED
    BY <1>2, <2>1, <2>2
<1> HIDE DEF v
<1>4. n >= 2 => K = {0}
  <2>1. 0 \in K
    BY MaxInt32Assumption
  <2>2. ASSUME n >= 2, NEW k \in 0..(MaxInt32 + 1), k # 0
        PROVE  HalfBelow(k, n) \in Nat /\ HalfBelow(k, n) > 0
    <3> DEFINE e == 2 * k - 1
    <3>1. e \in Nat \ {0} /\ n - 1 \in Nat \ {0} /\ n \in Nat \ {0}
      BY <1>2, <2>2, MaxInt32Assumption
    <3>2. HalfBelow(k, n) = 25 * e * e * n * (n - 1)
      BY DEF HalfBelow
    <3> HIDE DEF e
    <3>3. \A a \in Nat \ {0}, b \in Nat \ {0} : a * b \in Nat \ {0}
      OBVIOUS
    <3>4. 25 * e \in Nat \ {0}
      BY <3>1
    <3>5. 25 * e * e \in Nat \ {0}
      BY <3>1, <3>3, <3>4
    <3>6. 25 * e * e * n \in Nat \ {0}
      BY <3>1, <3>3, <3>5
    <3>7. 25 * e * e * n * (n - 1) \in Nat \ {0}
      BY <3>1, <3>3, <3>6
    <3> QED
      BY <3>2, <3>7
  <2>3. ASSUME n >= 2, NEW k \in K PROVE k = 0
    BY <1>3, <2>2, <2>3
  <2> QED
    BY <2>1, <2>3
<1>5. Max({0}) = 0
  BY MaxInt32Assumption, MaxOfSome
<1> HIDE DEF K
<1>6. CASE n < 2
  BY <1>1, <1>6
<1>7. CASE n >= 2
  BY <1>1, <1>2, <1>4, <1>5, <1>7
<1> QED
  BY <1>2, <1>6, <1>7

LEMMA MaximumIsAtLeast ==
    ASSUME NEW S, Table(S), NEW r \in DOMAIN S
    PROVE  Maximum(S) >= r.amount \div 10
<1> DEFINE f == [x \in DOMAIN S |-> x.amount]
           amounts == {x.amount : x \in DOMAIN S}
<1>1. S # EmptyBag
  BY DEF EmptyBag, SetToBag
<1>2. IsFiniteSet(DOMAIN S) /\ \A x \in DOMAIN S : x.amount \in Int
  BY RowFields DEF Table, FiniteBag
<1>3. Max(amounts) \in amounts /\ \A y \in amounts : Max(amounts) >= y
  <2>1. (\A x \in DOMAIN S : f[x] \in Int) /\ amounts = {f[x] : x \in DOMAIN S}
    BY <1>2
  <2> HIDE DEF f, amounts
  <2> QED
    BY <1>2, <2>1, Extremes
<1>4. r.amount \in amounts /\ amounts \subseteq Int
  BY <1>2
<1>5. Maximum(S) = Rounded(Max(amounts), 10)
  BY <1>1, Zenon DEF Maximum
<1> HIDE DEF amounts
<1> DEFINE q == r.amount \div 10
<1>6. q \in Int /\ 10 * q <= Max(amounts) /\ Max(amounts) \in Int
  <2>1. r.amount \in Int /\ Max(amounts) \in Int /\ Max(amounts) >= r.amount
    BY <1>2, <1>3, <1>4
  <2>2. \A a \in Int : a \div 10 \in Int /\ 10 * (a \div 10) <= a
    OBVIOUS
  <2>3. q \in Int /\ 10 * q <= r.amount
    BY <2>1, <2>2
  <2> HIDE DEF q
  <2> QED
    BY <2>1, <2>3
<1> HIDE DEF q
<1>7. Rounded(Max(amounts), 10) >= q
  BY <1>6, RoundedIsAtLeast
<1> QED
  BY <1>5, <1>7 DEF q

-----------------------------------------------------------------------------

(***************************************************************************)
(* The inductive invariant.                                                *)
(***************************************************************************)

\* A profile stands for its basis, or nothing was ever stored.
Stored ==
    \/ profile = EmptyProfile /\ basis = EmptyBag
    \/ profile = Columns(basis, profile.total, profile.allowed) /\ CanCast(basis)

\* The first refusal comes after five allowed transactions.
RefusedLate(S) ==
    (\E r \in DOMAIN S : ~r.allowed) => BagCardinality(AllowedIn(S)) >= 5

\* A profile for the rows S, in the table or in a goroutine: it counts no more
\* than there is, and if it is established, five allowed ones.
Usable(p, S) ==
    /\ p \in UserProfile
    /\ p.total <= BagCardinality(S)
    /\ p.allowed <= BagCardinality(AllowedIn(S))
    /\ p.total >= 5 => p.allowed >= 5

\* Unless a file dated a row ahead, no row is of a day to come, and a refused
\* row follows an allowed one of the same day or an earlier one.
Dated ==
    ~ahead =>
        \A r \in DOMAIN rows :
            /\ DayOf(r.at) <= DayOf(now)
            /\ r.allowed \/ \E s \in Chosen(rows) : DayOf(s.at) <= DayOf(r.at)

Habitual == profile.total >= 5 /\ ~ahead => Chosen(basis) # {}

Core ==
    /\ Table(rows) /\ Table(basis)
    /\ Usable(profile, rows) /\ profile.stdDev \in Int32
    /\ now \in Moments /\ ahead \in BOOLEAN
    /\ Stored /\ RefusedLate(rows) /\ Dated /\ Habitual

\* A request that is refused is refused late.
PostFits(post, S) ==
    /\ post \in {NotYet, Over} \cup Request
    /\ post.pc = "score" => Usable(post.held, S)
    /\ post.pc = "insert" =>
         post.row.allowed = TRUE \/ BagCardinality(AllowedIn(S)) >= 5

\* What an upload is about to store is the columns of rows there were.
UploadFits(upload, S) ==
    \/ upload \in {NotYet, Over}
    \/ /\ upload \in Upload(upload.snapshot)
       /\ Table(upload.snapshot)
       /\ Usable(upload.held, S)
       /\ upload.pc = "read" => upload.batch < BatchSize
       /\ upload.pc = "store" =>
            /\ CanCast(upload.snapshot)
            /\ More(upload.snapshot, S)
            /\ RefusedLate(upload.snapshot)

\* What a job is about to store has a habit, if it has a row.
RebuildFits(rebuild, early) ==
    \/ rebuild \in {NotYet, [pc |-> "started"], Over}
    \/ /\ rebuild.pc = "store"
       /\ Table(rebuild.snapshot)
       /\ CanCast(rebuild.snapshot)
       /\ rebuild.snapshot # EmptyBag /\ ~early => Chosen(rebuild.snapshot) # {}

PostsFit ==
    posts = [p \in Posts |-> posts[p]] /\ \A p \in Posts : PostFits(posts[p], rows)
UploadsFit ==
    DOMAIN uploads = Uploads /\ \A j \in Uploads : UploadFits(uploads[j], rows)
RebuildsFit ==
    DOMAIN rebuilds = Days /\ \A d \in Days : RebuildFits(rebuilds[d], ahead)

Inv == Core /\ PostsFit /\ UploadsFit /\ RebuildsFit

LEMMA InvGivesTypeOK == Inv => TypeOK
<1> SUFFICES ASSUME Inv PROVE TypeOK
  OBVIOUS
<1>1. IsTable(rows) /\ IsTable(basis)
  BY DEF Inv, Core, Table, FiniteBag, IsTable
<1>2. profile \in UserProfile /\ profile.stdDev \in Int32 /\ now \in Moments /\ ahead \in BOOLEAN
  BY DEF Inv, Core, Usable
<1>3. posts \in [Posts -> {NotYet, Over} \cup Request]
  BY DEF Inv, PostsFit, PostFits
<1>4. /\ DOMAIN uploads = Uploads
      /\ \A j \in Uploads :
           \/ uploads[j] \in {NotYet, Over}
           \/ /\ uploads[j] \in Upload(uploads[j].snapshot)
              /\ IsTable(uploads[j].snapshot)
  BY DEF Inv, UploadsFit, UploadFits, Table, FiniteBag, IsTable
<1>5. /\ DOMAIN rebuilds = Days
      /\ \A d \in Days :
           \/ rebuilds[d] \in {NotYet, [pc |-> "started"], Over}
           \/ rebuilds[d].pc = "store" /\ IsTable(rebuilds[d].snapshot)
  BY DEF Inv, RebuildsFit, RebuildFits, Table, FiniteBag, IsTable
<1> QED
  BY <1>1, <1>2, <1>3, <1>4, <1>5 DEF TypeOK

\* What the scorer sees of a stored profile.
LEMMA StoredFields ==
    ASSUME Inv, Chosen(basis) # {} \/ profile.total >= 5
    PROVE  /\ profile.known = TRUE /\ profile.avg = Average(basis)
           /\ profile.stdDev = Deviation(basis) /\ profile.max = Maximum(basis)
           /\ profile.modes = {r.mode : r \in Chosen(basis)}
           /\ profile.startHour = StartHour(basis)
           /\ profile.endHour = EndHour(basis)
           /\ CanCast(basis) /\ Table(basis) /\ profile \in UserProfile
<1>1. Table(basis) /\ profile \in UserProfile /\ Stored
  BY DEF Inv, Core, Usable
<1>2. ~(profile = EmptyProfile /\ basis = EmptyBag)
  <2>1. DOMAIN EmptyBag = {} /\ EmptyProfile.total = 0
    BY DEF EmptyBag, SetToBag, EmptyProfile
  <2>2. Chosen(basis) \subseteq DOMAIN basis
    BY DEF Chosen
  <2> QED
    BY <2>1, <2>2
<1>3. profile = Columns(basis, profile.total, profile.allowed) /\ CanCast(basis)
  BY <1>1, <1>2 DEF Stored
<1>4. DOMAIN AllowedIn(basis) = Chosen(basis)
  BY AllowedRows
<1> QED
  BY <1>1, <1>3, <1>4 DEF Columns

LEMMA InvGivesEstablishedHasHabit == Inv => EstablishedHasHabit
<1> SUFFICES ASSUME Inv, ~IsColdStart(profile), ~ahead
             PROVE  profile.modes # {} /\ profile.startHour # NoHour
  BY DEF EstablishedHasHabit
<1>1. profile.total >= 5
  BY ProfileFields DEF Inv, Core, Usable, IsColdStart, MinTransactionsForProfiling
<1>2. Chosen(basis) # {}
  BY <1>1 DEF Inv, Core, Habitual
<1> QED
  BY <1>2, StoredFields, HoursTyped

LEMMA UsableVerdict ==
    ASSUME NEW line \in Lines, NEW held, NEW S, Usable(held, S)
    PROVE  Verdicts(line, 0, held) = {TRUE}
<1>1. line.amount \in Int /\ line.at \in Nat
  BY LinesAssumption DEF Line
<1>2. Truncated(line.amount) \in Int
  BY <1>1 DEF Truncated
<1>3. HourOf(line.at) \in Hours
  BY <1>1, Moments24
<1>4. /\ held \in UserProfile
      /\ held.total < MinTransactionsForProfiling \/ held.allowed >= 3
  BY ProfileFields DEF Usable, MinTransactionsForProfiling
<1>5. ASSUME NEW a \in ToInt32(Truncated(line.amount))
      PROVE  IsAllowed(AnalyzeTransaction(a, line.mode, HourOf(line.at), 0, held).decision)
               = TRUE
  <2>1. a \in Int32
    BY <1>2, ConversionIsInt32
  <2>2. IsAllowed(AnalyzeTransaction(a, line.mode, HourOf(line.at), 0, held).decision)
    BY <1>3, <1>4, <2>1, FileVerdict
  <2> QED
    BY <2>2 DEF IsAllowed
<1>6. ToInt32(Truncated(line.amount)) # {}
  BY DEF ToInt32
<1> QED
  BY <1>5, <1>6, Zenon DEF Verdicts

\* A file has a first line.
LEMMA BatchStarts == 0 \in 0..BatchSize /\ 0 < BatchSize
BY LinesAssumption

\* An upload under way.
LEMMA UploadFields ==
    ASSUME NEW S, NEW upload, UploadFits(upload, S),
           upload.pc \notin {"waiting", "over"}
    PROVE  /\ upload \in Upload(upload.snapshot) /\ Table(upload.snapshot)
           /\ Usable(upload.held, S)
           /\ upload.pc = "read" => upload.batch < BatchSize
           /\ upload.pc = "store" =>
                /\ CanCast(upload.snapshot)
                /\ More(upload.snapshot, S)
                /\ RefusedLate(upload.snapshot)
<1>1. upload \notin {NotYet, Over}
  BY DEF NotYet, Over
<1> QED
  BY <1>1 DEF UploadFits

LEMMA InvGivesFilesAreAllowed == Inv => FilesAreAllowed
<1> SUFFICES ASSUME Inv, NEW line \in Lines
             PROVE  /\ Verdicts(line, 0, profile) = {TRUE}
                    /\ \A j \in Uploads :
                         uploads[j].pc = "read" => Verdicts(line, 0, uploads[j].held) = {TRUE}
  BY DEF FilesAreAllowed
<1>1. Verdicts(line, 0, profile) = {TRUE}
  BY UsableVerdict DEF Inv, Core
<1>2. ASSUME NEW j \in Uploads, uploads[j].pc = "read"
      PROVE  Verdicts(line, 0, uploads[j].held) = {TRUE}
  <2>1. Usable(uploads[j].held, rows)
    BY <1>2, UploadFields DEF Inv, UploadsFit
  <2> QED
    BY <2>1, UsableVerdict
<1> QED
  BY <1>1, <1>2

LEMMA InvGivesHabitIsAllowed == Inv => HabitIsAllowed
<1> SUFFICES ASSUME Inv, NEW payment \in HabitOf(basis), HabitOf(basis) = {payment},
                    payment[1] > 0, NEW hour \in Hours
             PROVE  AnalyzeTransaction(Truncated(payment[1]), payment[2], hour,
                                       ThresholdFrequency - 1, profile).decision = "ALLOW"
  BY DEF HabitIsAllowed
<1> DEFINE c == payment[1]
           x == c \div 10
<1>1. HabitOf(basis) = {<<r.amount, r.mode>> : r \in Chosen(basis)}
  BY AllowedRows, Zenon DEF HabitOf
<1>2. PICK some \in Chosen(basis) : payment = <<some.amount, some.mode>>
  BY <1>1
<1>3. /\ profile.known = TRUE /\ profile.avg = Average(basis)
      /\ profile.stdDev = Deviation(basis) /\ profile.max = Maximum(basis)
      /\ profile.modes = {r.mode : r \in Chosen(basis)}
      /\ CanCast(basis) /\ Table(basis) /\ profile \in UserProfile
  BY <1>2, StoredFields
<1>4. some \in DOMAIN basis /\ some.amount = c /\ c \in Int /\ some.mode = payment[2]
  <2>1. some \in DOMAIN basis
    BY DEF Chosen
  <2> QED
    BY <1>2, <1>3, <2>1, RowFields
<1>5. \A r \in Chosen(basis) : r.amount = c
  <2>1. \A r \in Chosen(basis) : <<r.amount, r.mode>> = payment
    BY <1>1
  <2> QED
    BY <2>1
<1>6. Average(basis) >= x /\ Deviation(basis) = 0
  BY <1>2, <1>3, <1>4, <1>5, HabitAverage, HabitDeviation
<1>7. Maximum(basis) >= x
  BY <1>3, <1>4, MaximumIsAtLeast
<1>8. /\ Average(basis) \in Int /\ Maximum(basis) \in Int
      /\ Maximum(basis) <= MaxInt32
  BY <1>3, MaxInt32Assumption DEF CanCast, Int32, MinInt32
<1>9. x \in Int32 /\ x \in Int /\ Truncated(c) = x
  <2>1. x \in Int /\ x >= 0
    BY <1>4
  <2>2. Truncated(c) = x
    BY <1>4 DEF Truncated
  <2> HIDE DEF x
  <2> QED
    BY <1>7, <1>8, <2>1, <2>2, MaxInt32Assumption DEF Int32, MinInt32
<1> HIDE DEF x
<1>10. CalculateAmountDeviationRisk(x, profile) <= 200
  <2>1. profile.known /\ ~(x > profile.max) /\ profile.stdDev = 0 /\ ~(x > profile.avg)
    BY <1>3, <1>6, <1>7, <1>8, <1>9
  <2> QED
    BY <2>1 DEF CalculateAmountDeviationRisk, ColdStartRisk, SameAmountRisk
<1>11. payment[2] \in profile.modes
  BY <1>3, <1>4
<1>12. AnalyzeTransaction(x, payment[2], hour, ThresholdFrequency - 1, profile).decision
         = "ALLOW"
  <2>1. ThresholdFrequency - 1 \in 0..2
    BY DEF ThresholdFrequency
  <2> QED
    BY <1>3, <1>9, <1>10, <1>11, <2>1, HabitVerdict
<1> QED
  BY <1>9, <1>12

LEMMA InvGivesHoursOfOneDayAreUsual == Inv => HoursOfOneDayAreUsual
<1> DEFINE good == Chosen(basis)
           days == {DayOf(r.at) : r \in good}
<1> SUFFICES ASSUME Inv, Cardinality(days) = 1, NEW r \in good
             PROVE  CalculateTimeAnomalyRisk(HourOf(r.at), profile) = 0
  BY AllowedRows, Zenon DEF HoursOfOneDayAreUsual
<1>1. /\ profile.startHour = StartHour(basis) /\ profile.endHour = EndHour(basis)
      /\ Table(basis)
  BY StoredFields
<1>2. \E day : days = {day}
  <2>1. IsFiniteSet(good)
    BY <1>1, AllowedBag, AllowedRows DEF Table, FiniteBag
  <2> DEFINE f == [s \in good |-> DayOf(s.at)]
  <2>2. f \in Surjection(good, days)
    BY DEF Surjection
  <2>3. IsFiniteSet(days)
    <3> HIDE DEF f, days, good
    <3> QED
      BY <2>1, <2>2, FS_Surjection
  <2> QED
    BY <2>3, FS_Singleton
<1> DEFINE moments == {s.at : s \in good}
           first == Min(moments)
           last == Max(moments)
<1>3. /\ profile.startHour = HourOf(first) /\ profile.endHour = HourOf(last)
      /\ first \in moments /\ last \in moments /\ moments \subseteq Nat
      /\ first <= r.at /\ r.at <= last
  BY <1>1, FirstAndLast
<1>4. DayOf(first) = DayOf(r.at) /\ DayOf(last) = DayOf(r.at)
  <2>1. \A s \in good : DayOf(s.at) = DayOf(r.at)
    BY <1>2
  <2> HIDE DEF first, last
  <2> QED
    BY <1>3, <2>1
<1>5. first \in Nat /\ last \in Nat /\ r.at \in Nat
  BY <1>3
<1> HIDE DEF first, last, moments, good, days
<1> DEFINE start == HourOf(first)
           hour == HourOf(r.at)
           end == HourOf(last)
<1>6. /\ start \in Hours /\ hour \in Hours /\ end \in Hours
      /\ start <= hour /\ hour <= end
  <2>1. /\ start \in Hours /\ hour \in Hours /\ end \in Hours /\ DayOf(r.at) \in Nat
        /\ first = 24 * DayOf(r.at) + start
        /\ last = 24 * DayOf(r.at) + end
        /\ r.at = 24 * DayOf(r.at) + hour
    BY <1>4, <1>5, Moments24
  <2> HIDE DEF start, hour, end
  <2>2. start \in Int /\ hour \in Int /\ end \in Int
    BY <2>1 DEF Hours
  <2> QED
    BY <1>3, <1>5, <2>1, <2>2
<1> HIDE DEF start, hour, end
<1>7. IsWithinUsualHours(hour, start, end) /\ start # NoHour /\ end # NoHour
  BY <1>6 DEF IsWithinUsualHours, Hours, NoHour
<1>8. profile.startHour = start /\ profile.endHour = end
  BY <1>3 DEF start, end
<1>9. CalculateTimeAnomalyRisk(hour, profile) = 0
  BY <1>7, <1>8 DEF CalculateTimeAnomalyRisk, TimeRiskByHabit
<1> QED
  BY <1>9 DEF hour

-----------------------------------------------------------------------------

(***************************************************************************)
(* The invariant holds at first, and every step keeps it.                  *)
(***************************************************************************)
LEMMA Nothing ==
    /\ Table(EmptyBag) /\ DOMAIN EmptyBag = {} /\ Chosen(EmptyBag) = {}
    /\ BagCardinality(EmptyBag) = 0
<1>1. DOMAIN EmptyBag = {} /\ IsABag(EmptyBag)
  BY DEF EmptyBag, SetToBag, IsABag
<1>2. Table(EmptyBag)
  BY <1>1, FS_EmptySet DEF Table, FiniteBag
<1> QED
  BY <1>1, <1>2, BagSize DEF Table, Chosen

\* Where rows are added, what fitted fits.
LEMMA UsableStays ==
    ASSUME NEW S, NEW T, FiniteBag(S), FiniteBag(T), More(S, T),
           NEW p, Usable(p, S)
    PROVE  Usable(p, T)
<1>1. /\ p \in UserProfile /\ p.total \in Nat /\ p.allowed \in Nat
      /\ p.total <= BagCardinality(S)
      /\ p.allowed <= BagCardinality(AllowedIn(S))
      /\ p.total >= 5 => p.allowed >= 5
  BY ProfileFields DEF Usable
<1>2. /\ BagCardinality(S) \in Nat /\ BagCardinality(T) \in Nat
      /\ BagCardinality(AllowedIn(S)) \in Nat /\ BagCardinality(AllowedIn(T)) \in Nat
      /\ BagCardinality(S) <= BagCardinality(T)
      /\ BagCardinality(AllowedIn(S)) <= BagCardinality(AllowedIn(T))
  BY Sizes
<1>3. /\ p.total <= BagCardinality(T)
      /\ p.allowed <= BagCardinality(AllowedIn(T))
  BY <1>1, <1>2
<1> QED
  BY <1>1, <1>3 DEF Usable

LEMMA MoreStays ==
    ASSUME NEW R, NEW S, NEW T, FiniteBag(R), FiniteBag(S), FiniteBag(T),
           More(R, S), More(S, T)
    PROVE  More(R, T)
<1>1. ASSUME NEW r \in DOMAIN R PROVE R[r] <= T[r]
  <2>1. r \in DOMAIN S /\ r \in DOMAIN T /\ R[r] <= S[r] /\ S[r] <= T[r]
    BY DEF More
  <2>2. R[r] \in Nat /\ S[r] \in Nat /\ T[r] \in Nat
    BY <2>1, BagFields
  <2> QED
    BY <2>1, <2>2
<1> QED
  BY <1>1 DEF More

LEMMA FitStays ==
    ASSUME NEW S, NEW T, FiniteBag(S), FiniteBag(T), More(S, T)
    PROVE  /\ \A post : PostFits(post, S) => PostFits(post, T)
           /\ \A upload : UploadFits(upload, S) => UploadFits(upload, T)
<1>1. /\ BagCardinality(AllowedIn(S)) \in Nat /\ BagCardinality(AllowedIn(T)) \in Nat
      /\ BagCardinality(AllowedIn(S)) <= BagCardinality(AllowedIn(T))
  BY Sizes
<1>2. ASSUME NEW post, PostFits(post, S) PROVE PostFits(post, T)
  <2>1. post.pc = "score" => Usable(post.held, T)
    BY <1>2, UsableStays DEF PostFits
  <2>2. post.pc = "insert" =>
          post.row.allowed = TRUE \/ BagCardinality(AllowedIn(T)) >= 5
    BY <1>1, <1>2 DEF PostFits
  <2> QED
    BY <1>2, <2>1, <2>2 DEF PostFits
<1>3. ASSUME NEW upload, UploadFits(upload, S) PROVE UploadFits(upload, T)
  <2>1. CASE upload \in {NotYet, Over}
    BY <2>1 DEF UploadFits
  <2>2. CASE upload \notin {NotYet, Over}
    <3>1. /\ upload \in Upload(upload.snapshot)
          /\ Table(upload.snapshot)
          /\ Usable(upload.held, S)
          /\ upload.pc = "read" => upload.batch < BatchSize
          /\ upload.pc = "store" =>
               /\ CanCast(upload.snapshot)
               /\ More(upload.snapshot, S)
               /\ RefusedLate(upload.snapshot)
      BY <1>3, <2>2 DEF UploadFits
    <3>2. Usable(upload.held, T)
      BY <3>1, UsableStays
    <3>3. upload.pc = "store" => More(upload.snapshot, T)
      BY <3>1, MoreStays DEF Table
    <3> QED
      BY <3>1, <3>2, <3>3 DEF UploadFits
  <2> QED
    BY <2>1, <2>2
<1> QED
  BY <1>2, <1>3

\* One request, upload or job advances.
LEMMA OnePost ==
    ASSUME PostsFit, UNCHANGED rows, NEW p \in Posts, NEW post, PostFits(post, rows),
           posts' = [posts EXCEPT ![p] = post]
    PROVE  PostsFit'
<1>1. posts' = [q \in Posts |-> posts'[q]]
  BY DEF PostsFit
<1>2. ASSUME NEW q \in Posts PROVE PostFits(posts'[q], rows)
  <2>1. posts'[q] = IF q = p THEN post ELSE posts[q]
    BY DEF PostsFit
  <2> QED
    BY <2>1 DEF PostsFit
<1> QED
  BY <1>1, <1>2 DEF PostsFit

LEMMA OneUpload ==
    ASSUME UploadsFit, UNCHANGED rows, NEW j \in Uploads, NEW upload,
           UploadFits(upload, rows), SetUpload(j, upload)
    PROVE  UploadsFit'
<1>1. uploads' = [uploads EXCEPT ![j] = upload]
  BY DEF SetUpload
<1>2. DOMAIN uploads' = Uploads
  BY <1>1 DEF UploadsFit
<1>3. ASSUME NEW k \in Uploads PROVE UploadFits(uploads'[k], rows)
  <2>1. uploads'[k] = IF k = j THEN upload ELSE uploads[k]
    BY <1>1 DEF UploadsFit
  <2> QED
    BY <2>1 DEF UploadsFit
<1> QED
  BY <1>2, <1>3 DEF UploadsFit

LEMMA OneRebuild ==
    ASSUME RebuildsFit, UNCHANGED ahead, NEW d \in Days, NEW rebuild,
           RebuildFits(rebuild, ahead), SetRebuild(d, rebuild)
    PROVE  RebuildsFit'
<1>1. rebuilds' = [rebuilds EXCEPT ![d] = rebuild]
  BY DEF SetRebuild
<1>2. DOMAIN rebuilds' = Days
  BY <1>1 DEF RebuildsFit
<1>3. ASSUME NEW e \in Days PROVE RebuildFits(rebuilds'[e], ahead)
  <2>1. rebuilds'[e] = IF e = d THEN rebuild ELSE rebuilds[e]
    BY <1>1 DEF RebuildsFit
  <2> QED
    BY <2>1 DEF RebuildsFit
<1> QED
  BY <1>2, <1>3 DEF RebuildsFit

\* What a step leaves alone.
LEMMA PostsStay ==
    PostsFit /\ UNCHANGED <<posts, rows>> => PostsFit'
BY DEF PostsFit

LEMMA UploadsStay ==
    UploadsFit /\ UNCHANGED <<uploads, rows>> => UploadsFit'
BY DEF UploadsFit

LEMMA RebuildsStay ==
    RebuildsFit /\ UNCHANGED <<rebuilds, ahead>> => RebuildsFit'
BY DEF RebuildsFit

LEMMA CoreStays ==
    Core /\ UNCHANGED <<rows, profile, basis, now, ahead>> => Core'
BY DEF Core, Table, FiniteBag, Usable, Stored, RefusedLate, Dated, Habitual, Chosen

LEMMA InvInit == Init => Inv
<1> SUFFICES ASSUME Init PROVE Inv
  OBVIOUS
<1>1. /\ EmptyProfile \in UserProfile
      /\ EmptyProfile.total = 0 /\ EmptyProfile.allowed = 0 /\ EmptyProfile.stdDev = 0
  BY MaxInt32Assumption DEF EmptyProfile, UserProfile, Int32, MinInt32, NoHour
<1>2. Table(rows) /\ Table(basis) /\ DOMAIN rows = {}
  BY Nothing DEF Init
<1>3. Usable(profile, rows) /\ profile.stdDev \in Int32
  <2>1. BagCardinality(rows) \in Nat /\ BagCardinality(AllowedIn(rows)) \in Nat
    BY <1>2, BagSize DEF Table
  <2> QED
    BY <1>1, <2>1, MaxInt32Assumption DEF Init, Usable, Int32, MinInt32
<1>4. Stored /\ RefusedLate(rows) /\ Dated /\ Habitual
  BY <1>1, <1>2 DEF Init, Stored, RefusedLate, Dated, Habitual
<1>5. Core
  BY <1>2, <1>3, <1>4, MomentsAssumption DEF Init, Core
<1>6. PostsFit /\ UploadsFit /\ RebuildsFit
  BY DEF Init, PostsFit, PostFits, UploadsFit, UploadFits, RebuildsFit, RebuildFits, NotYet
<1> QED
  BY <1>5, <1>6 DEF Inv

LEMMA NumbersOfRows ==
    ASSUME Core
    PROVE  /\ profile \in UserProfile /\ profile.total \in Nat /\ profile.allowed \in Nat
           /\ BagCardinality(rows) \in Nat /\ BagCardinality(AllowedIn(rows)) \in Nat
           /\ now \in Nat /\ now \in Moments
<1>1. BagCardinality(rows) \in Nat /\ BagCardinality(AllowedIn(rows)) \in Nat
  BY BagSize DEF Core, Table
<1> QED
  BY <1>1, ProfileFields, MomentsAssumption DEF Core, Usable

LEMMA EmptyIsUsable ==
    ASSUME Core
    PROVE  Usable(EmptyProfile, rows)
<1>1. /\ EmptyProfile \in UserProfile
      /\ EmptyProfile.total = 0 /\ EmptyProfile.allowed = 0
  BY MaxInt32Assumption DEF EmptyProfile, UserProfile, Int32, MinInt32, NoHour
<1> QED
  BY <1>1, NumbersOfRows DEF Usable

LEMMA ReadsAreUsable ==
    ASSUME Core, NEW held \in ProfileReads
    PROVE  Usable(held, rows)
BY EmptyIsUsable DEF ProfileReads, Core

\* Five rows of which none is refused, or a refused one: five allowed rows.
LEMMA FiveAllowed ==
    ASSUME NEW S, Table(S), BagCardinality(S) >= 5, RefusedLate(S)
    PROVE  BagCardinality(AllowedIn(S)) >= 5 /\ Chosen(S) # {}
<1>1. BagCardinality(AllowedIn(S)) >= 5
  <2>1. CASE \E r \in DOMAIN S : ~r.allowed
    BY <2>1 DEF RefusedLate
  <2>2. CASE \A r \in DOMAIN S : r.allowed
    BY <2>2, AllAllowed DEF Table
  <2> QED
    BY <2>1, <2>2
<1>2. ASSUME Chosen(S) = {} PROVE FALSE
  <2>1. AllowedIn(S) = EmptyBag
    BY <1>2, AllowedBag DEF Table
  <2> QED
    BY <1>1, <2>1, Nothing
<1> QED
  BY <1>1, <1>2

\* Five allowed rows: some row is allowed.
LEMMA SomeAllowed ==
    ASSUME NEW S, Table(S), BagCardinality(AllowedIn(S)) >= 5
    PROVE  Chosen(S) # {}
<1> SUFFICES ASSUME Chosen(S) = {} PROVE FALSE
  OBVIOUS
<1>1. AllowedIn(S) = EmptyBag
  BY AllowedBag DEF Table
<1> QED
  BY <1>1, Nothing

-----------------------------------------------------------------------------

(***************************************************************************)
(* A new row.  Nobody is refused before five allowed transactions, and a   *)
(* refused row is dated when it is inserted.                               *)
(***************************************************************************)
LEMMA VerdictIsBoolean ==
    ASSUME NEW line, NEW count, NEW held, NEW allowed \in Verdicts(line, count, held)
    PROVE  allowed \in BOOLEAN
<1>1. \A d : IsAllowed(d) \in BOOLEAN
  BY DEF IsAllowed
<1> QED
  BY <1>1, Zenon DEF Verdicts

\* Who is refused a payment has five allowed ones.
LEMMA RefusalIsLate ==
    ASSUME Core, NEW held, Usable(held, rows),
           NEW line, line.amount \in Int, line.at \in Nat,
           NEW count \in {RecentCount, 0}, FALSE \in Verdicts(line, count, held)
    PROVE  BagCardinality(AllowedIn(rows)) >= 5
<1>1. /\ held \in UserProfile /\ held.total \in Nat /\ held.allowed \in Nat
      /\ BagCardinality(rows) \in Nat /\ BagCardinality(AllowedIn(rows)) \in Nat
  BY NumbersOfRows, ProfileFields DEF Usable
<1>2. CASE held.total >= 5
  BY <1>1, <1>2 DEF Usable
<1>3. CASE ~(held.total >= 5)
  <2>1. PICK a \in ToInt32(Truncated(line.amount)) :
          ~IsAllowed(AnalyzeTransaction(a, line.mode, HourOf(line.at), count,
                                        held).decision)
    BY Zenon DEF Verdicts
  <2>2. Truncated(line.amount) \in Int
    BY DEF Truncated
  <2>3. a \in Int32 /\ HourOf(line.at) \in Hours
    BY <2>1, <2>2, ConversionIsInt32, Moments24
  <2>4. RecentCount \in Nat /\ RecentCount <= BagCardinality(rows)
    <3> DEFINE recent == {r \in DOMAIN rows : r.at > now - 1}
               part == [r \in recent |-> rows[r]]
    <3>1. Where(rows, LAMBDA r : r.at > now - 1) = part
      BY Zenon DEF Where
    <3>2. FiniteBag(rows) /\ recent \subseteq DOMAIN rows
      BY DEF Core, Table
    <3>3. FiniteBag(part) /\ More(part, rows)
      <4> HIDE DEF recent
      <4> QED
        BY <3>2, PartOfBag
    <3>4. BagCardinality(part) \in Nat /\ BagCardinality(part) <= BagCardinality(rows)
      <4> HIDE DEF part
      <4> QED
        BY <3>2, <3>3, MoreCounts
    <3> QED
      BY <3>1, <3>4, Zenon DEF RecentCount
  <2>5. count \in Nat /\ count <= BagCardinality(rows)
    BY <1>1, <2>4
  <2>6. count >= 5
    <3>1. held.total < MinTransactionsForProfiling
      BY <1>1, <1>3 DEF MinTransactionsForProfiling
    <3> QED
      BY <1>1, <2>1, <2>3, <2>5, <3>1, YoungRefusal
  <2>7. BagCardinality(rows) >= 5
    BY <1>1, <2>5, <2>6
  <2> QED
    BY <2>7, FiveAllowed DEF Core
<1> QED
  BY <1>2, <1>3

LEMMA DayIsMonotone ==
    ASSUME NEW s \in Nat, NEW t \in Nat, s <= t
    PROVE  DayOf(s) <= DayOf(t)
BY DEF DayOf

LEMMA RowKeepsCore ==
    ASSUME Core, NEW row \in Decided, Insert(row),
           UNCHANGED <<profile, basis, now>>,
           \/ row.allowed = TRUE
           \/ BagCardinality(AllowedIn(rows)) >= 5 /\ row.at = now,
           ahead' \in BOOLEAN, ~ahead' => ~ahead /\ DayOf(row.at) <= DayOf(now)
    PROVE  Core' /\ FiniteBag(rows) /\ FiniteBag(rows') /\ More(rows, rows')
<1> DEFINE B == SetToBag({row})
<1>1. Table(B) /\ DOMAIN B = {row}
  <2>1. DOMAIN B = {row} /\ \A r \in DOMAIN B : B[r] = 1
    BY DEF SetToBag
  <2>2. IsABag(B)
    BY DEF SetToBag, IsABag
  <2> HIDE DEF B
  <2> QED
    BY <2>1, <2>2, FS_Singleton DEF Table, FiniteBag
<1>2. rows' = rows (+) B
  BY DEF Insert
<1> HIDE DEF B
<1>3. /\ FiniteBag(rows) /\ DOMAIN rows \subseteq Decided
      /\ FiniteBag(B) /\ DOMAIN B \subseteq Decided
  BY <1>1 DEF Core, Table
<1>4. FiniteBag(rows') /\ DOMAIN rows' = DOMAIN rows \cup {row} /\ More(rows, rows')
  BY <1>1, <1>2, <1>3, Added
<1>5. Table(rows')
  BY <1>3, <1>4 DEF Table
<1>6. /\ BagCardinality(AllowedIn(rows)) \in Nat
      /\ BagCardinality(AllowedIn(rows')) \in Nat
      /\ BagCardinality(AllowedIn(rows)) <= BagCardinality(AllowedIn(rows'))
  BY <1>3, <1>4, Sizes
<1>7. RefusedLate(rows')
  <2>1. (\E r \in DOMAIN rows' : ~r.allowed) => BagCardinality(AllowedIn(rows)) >= 5
    BY <1>4 DEF Core, RefusedLate
  <2> QED
    BY <1>6, <2>1 DEF RefusedLate
<1>8. Usable(profile, rows')
  BY <1>3, <1>4, UsableStays DEF Core
<1>9. Dated'
  <2> SUFFICES ASSUME ~ahead', NEW r \in DOMAIN rows'
               PROVE  /\ DayOf(r.at) <= DayOf(now)
                      /\ r.allowed \/ \E s \in Chosen(rows') : DayOf(s.at) <= DayOf(r.at)
    BY DEF Dated
  <2>1. Chosen(rows) \subseteq Chosen(rows')
    BY <1>4 DEF Chosen
  <2>2. CASE r \in DOMAIN rows
    BY <2>1, <2>2 DEF Core, Dated
  <2>3. CASE r = row
    <3> SUFFICES ASSUME ~(row.allowed = TRUE)
                 PROVE  \E s \in Chosen(rows) : DayOf(s.at) <= DayOf(row.at)
      BY <2>1, <2>3
    <3>1. PICK s \in Chosen(rows) : TRUE
      BY SomeAllowed DEF Core
    <3>2. DayOf(s.at) <= DayOf(now)
      BY DEF Core, Dated, Chosen
    <3> QED
      BY <3>2
  <2> QED
    BY <1>4, <2>2, <2>3
<1>10. Habitual' /\ Stored' /\ Table(basis)' /\ profile'.stdDev \in Int32 /\ now' \in Moments
  BY DEF Core, Habitual, Stored, Table, FiniteBag, Chosen
<1>11. Core'
  BY <1>5, <1>7, <1>8, <1>9, <1>10 DEF Core, Table, FiniteBag
<1> QED
  BY <1>3, <1>4, <1>11

-----------------------------------------------------------------------------

(***************************************************************************)
(* Every step keeps the invariant.                                         *)
(***************************************************************************)
LEMMA ReadProfileKeepsInv ==
    ASSUME Inv, NEW p \in Posts, ReadProfile(p)
    PROVE  Inv'
<1>1. PICK held \in ProfileReads :
        posts' = [posts EXCEPT ![p] = [pc |-> "score", held |-> held]]
  BY DEF ReadProfile
<1>2. UNCHANGED <<rows, profile, basis, now, uploads, rebuilds, ahead>>
  BY DEF ReadProfile
<1> DEFINE post == [pc |-> "score", held |-> held]
<1>3. Usable(held, rows) /\ held \in UserProfile
  BY ReadsAreUsable DEF Inv, Usable
<1>4. PostFits(post, rows)
  BY <1>3 DEF PostFits, Request
<1>5. posts' = [posts EXCEPT ![p] = post]
  BY <1>1
<1> HIDE DEF post
<1>6. PostsFit'
  BY <1>2, <1>4, <1>5, OnePost DEF Inv
<1> QED
  BY <1>2, <1>6, CoreStays, UploadsStay, RebuildsStay DEF Inv

LEMMA ScoreKeepsInv ==
    ASSUME Inv, NEW p \in Posts, Score(p)
    PROVE  Inv'
<1>1. UNCHANGED <<rows, profile, basis, now, uploads, rebuilds, ahead>>
  BY DEF Score
<1>2. PICK payment \in Payments, count \in {RecentCount, 0} :
        \E allowed \in Verdicts([amount |-> payment.amount, mode |-> payment.mode,
                                 at |-> now], count, posts[p].held) :
          posts' = [posts EXCEPT ![p] =
              [pc |-> "insert",
               row |-> Decide([amount |-> payment.amount, mode |-> payment.mode,
                               at |-> now], allowed)]]
  BY Zenon DEF Score
<1> DEFINE line == [amount |-> payment.amount, mode |-> payment.mode, at |-> now]
<1>3. PICK allowed \in Verdicts(line, count, posts[p].held) :
        posts' = [posts EXCEPT ![p] = [pc |-> "insert", row |-> Decide(line, allowed)]]
  BY <1>2, Zenon
<1>4. /\ line.amount \in Int /\ line.mode \in Modes /\ line.at \in Nat
  BY PaymentsAssumption, NumbersOfRows DEF Payment, Inv
<1>5. Usable(posts[p].held, rows)
  BY DEF Score, Inv, PostsFit, PostFits
<1> HIDE DEF line
<1>6. allowed \in BOOLEAN
  BY <1>3, VerdictIsBoolean
<1>7. allowed = TRUE \/ BagCardinality(AllowedIn(rows)) >= 5
  <2> SUFFICES ASSUME allowed = FALSE PROVE BagCardinality(AllowedIn(rows)) >= 5
    BY <1>6
  <2>1. FALSE \in Verdicts(line, count, posts[p].held)
    BY <1>3
  <2> QED
    BY <1>2, <1>4, <1>5, <2>1, RefusalIsLate DEF Inv
<1> DEFINE post == [pc |-> "insert", row |-> Decide(line, allowed)]
<1>8. PostFits(post, rows)
  <2>1. Decide(line, allowed) \in Decided /\ Decide(line, allowed).allowed = allowed
    BY <1>4, <1>6 DEF Decide, Decided
  <2> QED
    BY <1>7, <2>1 DEF PostFits, Request
<1>9. posts' = [posts EXCEPT ![p] = post]
  BY <1>3
<1> HIDE DEF post
<1>10. PostsFit'
  BY <1>1, <1>8, <1>9, OnePost DEF Inv
<1> QED
  BY <1>1, <1>10, CoreStays, UploadsStay, RebuildsStay DEF Inv

\* Rows were added, and a job that began without rows ahead still has none.
LEMMA RowKeepsFits ==
    ASSUME Inv, FiniteBag(rows), FiniteBag(rows'), More(rows, rows')
    PROVE  /\ \A post : PostFits(post, rows) => PostFits(post, rows')
           /\ \A upload : UploadFits(upload, rows) => UploadFits(upload, rows')
           /\ UNCHANGED rebuilds /\ (~ahead' => ~ahead) => RebuildsFit'
<1>1. /\ \A post : PostFits(post, rows) => PostFits(post, rows')
      /\ \A upload : UploadFits(upload, rows) => UploadFits(upload, rows')
  BY FitStays
<1>2. ASSUME UNCHANGED rebuilds, ~ahead' => ~ahead
      PROVE  RebuildsFit'
  BY <1>2 DEF Inv, RebuildsFit, RebuildFits
<1> QED
  BY <1>1, <1>2

LEMMA InsertPostKeepsInv ==
    ASSUME Inv, NEW p \in Posts, InsertPost(p)
    PROVE  Inv'
<1>1. /\ UNCHANGED <<profile, basis, now, uploads, rebuilds, ahead>>
      /\ posts[p].pc = "insert" /\ posts' = [posts EXCEPT ![p] = Over]
  BY DEF InsertPost
<1>2. PostFits(Over, rows)
  BY DEF PostFits, Over
<1>3. CASE UNCHANGED rows
  <2>1. PostsFit'
    BY <1>1, <1>2, <1>3, OnePost DEF Inv
  <2> QED
    BY <1>1, <1>3, <2>1, CoreStays, UploadsStay, RebuildsStay DEF Inv
<1>4. CASE Insert([posts[p].row EXCEPT !.at = now])
  <2> DEFINE row == [posts[p].row EXCEPT !.at = now]
  <2>1. PostFits(posts[p], rows)
    BY DEF Inv, PostsFit
  <2>2. /\ posts[p].row \in Decided
        /\ posts[p].row.allowed = TRUE \/ BagCardinality(AllowedIn(rows)) >= 5
    BY <1>1, <2>1 DEF PostFits, Request, NotYet, Over
  <2>3. /\ row \in Decided /\ row.at = now /\ row.allowed = posts[p].row.allowed
    BY <2>2, NumbersOfRows DEF Decided, Inv
  <2>4. Insert(row)
    BY <1>4
  <2> HIDE DEF row
  <2>5. ~ahead => DayOf(row.at) <= DayOf(now)
    BY <2>3, NumbersOfRows, DayIsMonotone DEF Inv
  <2>6. Core' /\ FiniteBag(rows) /\ FiniteBag(rows') /\ More(rows, rows')
    <3>1. ahead' \in BOOLEAN /\ (~ahead' => ~ahead /\ DayOf(row.at) <= DayOf(now))
      BY <1>1, <2>5 DEF Inv, Core
    <3>2. \/ row.allowed = TRUE
          \/ BagCardinality(AllowedIn(rows)) >= 5 /\ row.at = now
      BY <2>2, <2>3
    <3> QED
      BY <1>1, <2>3, <2>4, <3>1, <3>2, RowKeepsCore DEF Inv
  <2>7. /\ \A post : PostFits(post, rows) => PostFits(post, rows')
        /\ \A upload : UploadFits(upload, rows) => UploadFits(upload, rows')
        /\ RebuildsFit'
    BY <1>1, <2>6, RowKeepsFits
  <2>8. PostsFit'
    <3>1. posts' = [q \in Posts |-> posts'[q]]
      BY <1>1 DEF Inv, PostsFit
    <3>2. ASSUME NEW q \in Posts PROVE PostFits(posts'[q], rows)
      BY <1>1, <1>2 DEF Inv, PostsFit
    <3> QED
      BY <2>7, <3>1, <3>2 DEF PostsFit
  <2>9. UploadsFit'
    BY <1>1, <2>7 DEF Inv, UploadsFit
  <2> QED
    BY <2>6, <2>7, <2>8, <2>9 DEF Inv
<1> QED
  BY <1>3, <1>4 DEF InsertPost

LEMMA ReceiveUploadKeepsInv ==
    ASSUME Inv, NEW j \in Uploads, ReceiveUpload(j)
    PROVE  Inv'
<1>1. PICK held \in ProfileReads :
        SetUpload(j, [pc |-> "read", held |-> held, batch |-> 0, eof |-> FALSE,
                      snapshot |-> EmptyBag])
  BY DEF ReceiveUpload
<1>2. UNCHANGED <<rows, profile, basis, now, posts, rebuilds, ahead>>
  BY DEF ReceiveUpload
<1> DEFINE upload == [pc |-> "read", held |-> held, batch |-> 0, eof |-> FALSE,
                      snapshot |-> EmptyBag]
<1>3. Usable(held, rows) /\ held \in UserProfile
  BY ReadsAreUsable DEF Inv, Usable
<1>4. UploadFits(upload, rows)
  <2>1. upload \in Upload(upload.snapshot) /\ upload.batch < BatchSize
    BY <1>3, LinesAssumption DEF Upload
  <2>2. Table(upload.snapshot) /\ Usable(upload.held, rows) /\ upload.pc # "store"
    BY <1>3, Nothing
  <2> HIDE DEF upload
  <2> QED
    BY <2>1, <2>2 DEF UploadFits
<1>5. SetUpload(j, upload)
  BY <1>1
<1> HIDE DEF upload
<1>6. UploadsFit'
  BY <1>2, <1>4, <1>5, OneUpload DEF Inv
<1> QED
  BY <1>2, <1>6, CoreStays, PostsStay, RebuildsStay DEF Inv

LEMMA InsertLineKeepsInv ==
    ASSUME Inv, NEW j \in Uploads, InsertLine(j)
    PROVE  Inv'
<1> DEFINE batch == uploads[j].batch + 1
           next == [uploads[j] EXCEPT
                      !.pc = IF batch >= BatchSize THEN "recalculate" ELSE "read",
                      !.batch = batch]
<1>1. /\ uploads[j].pc = "read" /\ SetUpload(j, next)
      /\ UNCHANGED <<profile, basis, now, posts, rebuilds>>
  BY DEF InsertLine
<1>2. /\ uploads[j] \in Upload(uploads[j].snapshot) /\ Table(uploads[j].snapshot)
      /\ Usable(uploads[j].held, rows) /\ uploads[j].batch < BatchSize
  BY <1>1, UploadFields DEF Inv, UploadsFit
<1>3. UploadFits(next, rows)
  <2>1. /\ next \in Upload(next.snapshot) /\ next.snapshot = uploads[j].snapshot
        /\ next.held = uploads[j].held /\ next.pc # "store"
        /\ next.pc = "read" => next.batch < BatchSize
    <3>1. /\ batch \in 0..BatchSize
          /\ batch >= BatchSize \/ batch < BatchSize
      <4>1. uploads[j].batch \in 0..BatchSize
        BY <1>2 DEF Upload
      <4> QED
        BY <1>2, <4>1, LinesAssumption
    <3> HIDE DEF batch
    <3> QED
      BY <1>2, <3>1 DEF Upload
  <2> HIDE DEF next
  <2> QED
    BY <1>2, <2>1 DEF UploadFits
<1> HIDE DEF next
<1>4. PICK line \in Lines : \E allowed \in Verdicts(line, 0, uploads[j].held) :
        \/ /\ Insert(Decide(line, allowed))
           /\ ahead' = (ahead \/ DayOf(line.at) > DayOf(now))
        \/ UNCHANGED <<rows, ahead>>
  BY Zenon DEF InsertLine
<1>5. CASE UNCHANGED <<rows, ahead>>
  <2>1. UploadsFit'
    BY <1>1, <1>3, <1>5, OneUpload DEF Inv
  <2> QED
    BY <1>1, <1>5, <2>1, CoreStays, PostsStay, RebuildsStay DEF Inv
<1>6. CASE ~UNCHANGED <<rows, ahead>>
  <2> DEFINE row == Decide(line, TRUE)
  <2>1. /\ Insert(row) /\ ahead' = (ahead \/ DayOf(line.at) > DayOf(now))
    <3>1. Verdicts(line, 0, uploads[j].held) = {TRUE}
      BY <1>2, UsableVerdict
    <3> QED
      BY <1>4, <1>6, <3>1
  <2>2. row \in Decided /\ row.at = line.at /\ row.allowed = TRUE /\ line.at \in Nat
    BY LinesAssumption DEF Decide, Decided, Line
  <2> HIDE DEF row
  <2>3. ahead' \in BOOLEAN /\ (~ahead' => ~ahead /\ DayOf(row.at) <= DayOf(now))
    <3>1. DayOf(line.at) \in Nat /\ DayOf(now) \in Nat
      BY <2>2, Moments24, NumbersOfRows DEF Inv
    <3>2. ahead \in BOOLEAN
      BY DEF Inv, Core
    <3> DEFINE later == DayOf(line.at) > DayOf(now)
    <3>3. ~later => DayOf(row.at) <= DayOf(now)
      BY <2>2, <3>1, SMT
    <3>4. ahead' = (ahead \/ later)
      BY <2>1
    <3> HIDE DEF later
    <3> QED
      BY <3>2, <3>3, <3>4, Zenon
  <2>4. Core' /\ FiniteBag(rows) /\ FiniteBag(rows') /\ More(rows, rows')
    BY <1>1, <2>1, <2>2, <2>3, RowKeepsCore DEF Inv
  <2>5. /\ \A post : PostFits(post, rows) => PostFits(post, rows')
        /\ \A upload : UploadFits(upload, rows) => UploadFits(upload, rows')
        /\ RebuildsFit'
    BY <1>1, <2>3, <2>4, RowKeepsFits
  <2>6. PostsFit'
    BY <1>1, <2>5 DEF Inv, PostsFit
  <2>7. UploadsFit'
    <3>1. uploads' = [uploads EXCEPT ![j] = next]
      BY <1>1 DEF SetUpload
    <3>2. DOMAIN uploads' = Uploads
      BY <3>1 DEF Inv, UploadsFit
    <3>3. ASSUME NEW k \in Uploads PROVE UploadFits(uploads'[k], rows)
      BY <1>3, <3>1 DEF Inv, UploadsFit
    <3> QED
      BY <2>5, <3>2, <3>3 DEF UploadsFit
  <2> QED
    BY <2>4, <2>5, <2>6, <2>7 DEF Inv
<1> QED
  BY <1>5, <1>6

LEMMA EndFileKeepsInv ==
    ASSUME Inv, NEW j \in Uploads, EndFile(j)
    PROVE  Inv'
<1> DEFINE next == [uploads[j] EXCEPT !.pc = "recalculate", !.eof = TRUE,
                                      !.held = EmptyProfile, !.batch = 0]
<1>1. /\ uploads[j].pc = "read" /\ SetUpload(j, next)
      /\ UNCHANGED <<rows, profile, basis, now, posts, rebuilds, ahead>>
  BY DEF EndFile
<1>2. uploads[j] \in Upload(uploads[j].snapshot) /\ Table(uploads[j].snapshot)
  BY <1>1, UploadFields DEF Inv, UploadsFit
<1>3. Usable(EmptyProfile, rows) /\ EmptyProfile \in UserProfile
  BY EmptyIsUsable DEF Inv, Usable
<1>4. UploadFits(next, rows)
  <2>1. /\ next \in Upload(next.snapshot) /\ next.snapshot = uploads[j].snapshot
        /\ next.held = EmptyProfile /\ next.pc = "recalculate"
    BY <1>2, <1>3, BatchStarts DEF Upload
  <2> HIDE DEF next
  <2> QED
    BY <1>2, <1>3, <2>1 DEF UploadFits
<1> HIDE DEF next
<1>5. UploadsFit'
  BY <1>1, <1>4, OneUpload DEF Inv
<1> QED
  BY <1>1, <1>5, CoreStays, PostsStay, RebuildsStay DEF Inv

LEMMA NextBatchFits ==
    ASSUME Core, NEW S, NEW upload \in Upload(S), Usable(upload.held, rows)
    PROVE  UploadFits(NextBatch(upload), rows)
<1>1. CASE upload.eof
  BY <1>1 DEF NextBatch, UploadFits
<1>2. CASE ~upload.eof
  <2> DEFINE next == [upload EXCEPT !.pc = "read", !.batch = 0, !.snapshot = EmptyBag]
  <2>1. /\ next \in Upload(next.snapshot) /\ next.snapshot = EmptyBag
        /\ next.held = upload.held /\ next.pc = "read" /\ next.batch < BatchSize
    BY BatchStarts DEF Upload
  <2>2. NextBatch(upload) = next
    BY <1>2 DEF NextBatch
  <2> HIDE DEF next
  <2> QED
    BY <2>1, <2>2, Nothing DEF UploadFits
<1> QED
  BY <1>1, <1>2

LEMMA BeginRecalculateKeepsInv ==
    ASSUME Inv, NEW j \in Uploads, BeginRecalculate(j)
    PROVE  Inv'
<1>1. /\ uploads[j].pc = "recalculate"
      /\ UNCHANGED <<rows, profile, basis, now, posts, rebuilds, ahead>>
  BY DEF BeginRecalculate
<1>2. uploads[j] \in Upload(uploads[j].snapshot) /\ Usable(uploads[j].held, rows)
  BY <1>1, UploadFields DEF Inv, UploadsFit
<1>3. CASE SetUpload(j, NextBatch(uploads[j]))
  <2>1. UploadsFit'
    BY <1>1, <1>2, <1>3, NextBatchFits, OneUpload DEF Inv
  <2> QED
    BY <1>1, <2>1, CoreStays, PostsStay, RebuildsStay DEF Inv
<1> DEFINE next == [uploads[j] EXCEPT !.pc = "store", !.snapshot = rows]
<1>4. CASE CanCast(rows) /\ SetUpload(j, next)
  <2>1. UploadFits(next, rows)
    <3>1. /\ next \in Upload(next.snapshot) /\ next.snapshot = rows
          /\ next.held = uploads[j].held /\ next.pc = "store"
      BY <1>2 DEF Upload
    <3> HIDE DEF next
    <3>2. Table(rows) /\ RefusedLate(rows)
      BY DEF Inv, Core
    <3>3. More(rows, rows)
      <4>1. \A r \in DOMAIN rows : rows[r] \in Nat
        BY <3>2, BagFields DEF Table
      <4> QED
        BY <4>1 DEF More
    <3> QED
      BY <1>2, <1>4, <3>1, <3>2, <3>3 DEF UploadFits
  <2> HIDE DEF next
  <2>2. UploadsFit'
    BY <1>1, <1>4, <2>1, OneUpload DEF Inv
  <2> QED
    BY <1>1, <2>2, CoreStays, PostsStay, RebuildsStay DEF Inv
<1> QED
  BY <1>3, <1>4 DEF BeginRecalculate

\* New columns, of a snapshot that the counts do not exceed.
LEMMA ColumnsKeepCore ==
    ASSUME Core, UNCHANGED <<rows, now, ahead>>, NEW S, Table(S), CanCast(S),
           NEW total \in Nat, NEW allowed \in Nat,
           SetColumns(S, Columns(S, total, allowed)),
           total <= BagCardinality(rows), allowed <= BagCardinality(AllowedIn(rows)),
           total >= 5 => allowed >= 5,
           total >= 5 /\ ~ahead => Chosen(S) # {}
    PROVE  Core'
<1>1. profile' = Columns(S, total, allowed) /\ basis' = S
  BY DEF SetColumns
<1>2. profile'.total = total /\ profile'.allowed = allowed
      /\ profile'.stdDev = Deviation(S)
  BY <1>1 DEF Columns
<1>3. profile' \in UserProfile
  BY <1>1, ColumnsTyped
<1>4. Usable(profile', rows') /\ profile'.stdDev \in Int32
  BY <1>2, <1>3 DEF Usable, CanCast
<1>5. Table(basis') /\ Stored'
  BY <1>1, <1>2 DEF Stored
<1>6. Habitual'
  BY <1>1, <1>2 DEF Habitual
<1>7. Table(rows)' /\ RefusedLate(rows)' /\ Dated' /\ now' \in Moments /\ ahead' \in BOOLEAN
  BY DEF Core, Table, FiniteBag, RefusedLate, Dated, Chosen
<1> QED
  BY <1>4, <1>5, <1>6, <1>7 DEF Core, Table, FiniteBag

LEMMA CommitRecalculateKeepsInv ==
    ASSUME Inv, NEW j \in Uploads, CommitRecalculate(j)
    PROVE  Inv'
<1> DEFINE S == uploads[j].snapshot
           total == BagCardinality(S)
           allowed == BagCardinality(AllowedIn(S))
           next == [uploads[j] EXCEPT !.pc = "refresh", !.snapshot = EmptyBag]
<1>1. /\ uploads[j].pc = "store"
      /\ UNCHANGED <<rows, now, posts, rebuilds, ahead>>
      /\ SetColumns(S, RecalculatedColumns(S))
      /\ SetUpload(j, NextBatch(uploads[j])) \/ SetUpload(j, next)
  BY DEF CommitRecalculate
<1>2. /\ uploads[j] \in Upload(S) /\ Table(S) /\ Usable(uploads[j].held, rows)
      /\ CanCast(S) /\ More(S, rows) /\ RefusedLate(S)
  BY <1>1, UploadFields DEF Inv, UploadsFit
<1>3. Core'
  <2>1. SetColumns(S, Columns(S, total, allowed))
    BY <1>1 DEF RecalculatedColumns
  <2>2. FiniteBag(S) /\ FiniteBag(rows)
    BY <1>2 DEF Inv, Core, Table
  <2> HIDE DEF S
  <2>3. /\ total \in Nat /\ allowed \in Nat /\ total <= BagCardinality(rows)
        /\ allowed <= BagCardinality(AllowedIn(rows))
    BY <1>2, <2>2, Sizes
  <2>4. total >= 5 => allowed >= 5 /\ Chosen(S) # {}
    BY <1>2, FiveAllowed
  <2> HIDE DEF total, allowed
  <2> QED
    BY <1>1, <1>2, <2>1, <2>3, <2>4, ColumnsKeepCore DEF Inv
<1>4. UploadsFit'
  <2>1. UploadFits(NextBatch(uploads[j]), rows)
    BY <1>2, NextBatchFits DEF Inv
  <2>2. UploadFits(next, rows)
    <3>1. /\ next \in Upload(next.snapshot) /\ next.snapshot = EmptyBag
          /\ next.held = uploads[j].held /\ next.pc = "refresh"
      BY <1>2 DEF Upload
    <3> HIDE DEF next
    <3> QED
      BY <1>2, <3>1, Nothing DEF UploadFits
  <2> HIDE DEF next
  <2> QED
    BY <1>1, <2>1, <2>2, OneUpload DEF Inv
<1> QED
  BY <1>1, <1>3, <1>4, PostsStay, RebuildsStay DEF Inv

LEMMA RefreshProfileKeepsInv ==
    ASSUME Inv, NEW j \in Uploads, RefreshProfile(j)
    PROVE  Inv'
<1>1. PICK held \in {profile, uploads[j].held} :
        SetUpload(j, [uploads[j] EXCEPT !.pc = "read", !.held = held, !.batch = 0])
  BY DEF RefreshProfile
<1>2. /\ uploads[j].pc = "refresh"
      /\ UNCHANGED <<rows, profile, basis, now, posts, rebuilds, ahead>>
  BY DEF RefreshProfile
<1> DEFINE next == [uploads[j] EXCEPT !.pc = "read", !.held = held, !.batch = 0]
<1>3. /\ uploads[j] \in Upload(uploads[j].snapshot) /\ Table(uploads[j].snapshot)
      /\ Usable(uploads[j].held, rows)
  BY <1>2, UploadFields DEF Inv, UploadsFit
<1>4. Usable(held, rows) /\ held \in UserProfile
  BY <1>1, <1>3 DEF Inv, Core, Usable
<1>5. UploadFits(next, rows)
  <2>1. /\ next \in Upload(next.snapshot) /\ next.snapshot = uploads[j].snapshot
        /\ next.held = held /\ next.pc = "read" /\ next.batch < BatchSize
    BY <1>3, <1>4, BatchStarts DEF Upload
  <2> HIDE DEF next
  <2> QED
    BY <1>3, <1>4, <2>1 DEF UploadFits
<1>6. SetUpload(j, next)
  BY <1>1
<1> HIDE DEF next
<1>7. UploadsFit'
  BY <1>2, <1>5, <1>6, OneUpload DEF Inv
<1> QED
  BY <1>2, <1>7, CoreStays, PostsStay, RebuildsStay DEF Inv

LEMMA ClosedHaveHabit ==
    ASSUME Core
    PROVE  Table(ClosedRows) /\ (ClosedRows # EmptyBag /\ ~ahead => Chosen(ClosedRows) # {})
<1> DEFINE closed == {r \in DOMAIN rows : r.at < Today}
           part == [r \in closed |-> rows[r]]
<1>1. ClosedRows = part
  BY Zenon DEF ClosedRows, Where
<1>2. FiniteBag(part) /\ DOMAIN part = closed
  <2>1. FiniteBag(rows) /\ closed \subseteq DOMAIN rows
    BY DEF Core, Table
  <2> HIDE DEF closed
  <2> QED
    BY <2>1, PartOfBag
<1>3. Table(part)
  BY <1>2 DEF Core, Table
<1>4. ASSUME part # EmptyBag, ~ahead PROVE Chosen(part) # {}
  <2>1. PICK r \in closed : TRUE
    <3>1. closed = {} => part = EmptyBag
      BY DEF EmptyBag, SetToBag
    <3> QED
      BY <1>4, <3>1
  <2>2. PICK s \in DOMAIN rows : s.allowed /\ DayOf(s.at) <= DayOf(r.at)
    <3>1. r \in DOMAIN rows
      OBVIOUS
    <3>2. r.at \in Nat
      BY <3>1, RowFields DEF Core
    <3>3. DayOf(r.at) <= DayOf(r.at)
      BY <3>2 DEF DayOf
    <3> QED
      BY <1>4, <3>1, <3>3 DEF Core, Dated, Chosen
  <2>3. s \in closed
    <3>1. r.at \in Nat /\ s.at \in Nat /\ now \in Nat /\ r.at < Today
      BY RowFields, NumbersOfRows DEF Core
    <3>2. s.at < Today
      BY <2>2, <3>1 DEF DayOf, Today
    <3> QED
      BY <3>2
  <2> QED
    BY <1>2, <2>2, <2>3 DEF Chosen
<1> HIDE DEF part
<1> QED
  BY <1>1, <1>3, <1>4

LEMMA BeginRebuildKeepsInv ==
    ASSUME Inv, NEW d \in Days, BeginRebuild(d)
    PROVE  Inv'
<1>1. UNCHANGED <<rows, profile, basis, now, posts, uploads, ahead>>
  BY DEF BeginRebuild
<1> DEFINE next == [pc |-> "store", snapshot |-> ClosedRows]
<1>2. CASE SetRebuild(d, Over)
  <2>1. RebuildFits(Over, ahead)
    BY DEF RebuildFits
  <2>2. RebuildsFit'
    BY <1>1, <1>2, <2>1, OneRebuild DEF Inv
  <2> QED
    BY <1>1, <2>2, CoreStays, PostsStay, UploadsStay DEF Inv
<1>3. CASE CanCast(ClosedRows) /\ SetRebuild(d, next)
  <2>1. RebuildFits(next, ahead)
    <3>1. next.pc = "store" /\ next.snapshot = ClosedRows
      OBVIOUS
    <3> HIDE DEF next
    <3> QED
      BY <1>3, <3>1, ClosedHaveHabit DEF RebuildFits, Inv
  <2> HIDE DEF next
  <2>2. RebuildsFit'
    BY <1>1, <1>3, <2>1, OneRebuild DEF Inv
  <2> QED
    BY <1>1, <2>2, CoreStays, PostsStay, UploadsStay DEF Inv
<1> QED
  BY <1>2, <1>3 DEF BeginRebuild

LEMMA CommitRebuildKeepsInv ==
    ASSUME Inv, NEW d \in Days, CommitRebuild(d)
    PROVE  Inv'
<1> DEFINE S == rebuilds[d].snapshot
<1>1. /\ rebuilds[d].pc = "store" /\ SetRebuild(d, Over)
      /\ UNCHANGED <<rows, now, posts, uploads, ahead>>
      /\ \/ S # EmptyBag /\ SetColumns(S, RebuiltColumns(S))
         \/ UNCHANGED <<profile, basis>>
  BY DEF CommitRebuild
<1>2. /\ Table(S) /\ CanCast(S) /\ (S # EmptyBag /\ ~ahead => Chosen(S) # {})
  <2>1. rebuilds[d] \notin {NotYet, [pc |-> "started"], Over}
    BY <1>1 DEF NotYet, Over
  <2> QED
    BY <2>1 DEF Inv, RebuildsFit, RebuildFits
<1> HIDE DEF S
<1>3. Core'
  <2>1. CASE UNCHANGED <<profile, basis>>
    BY <1>1, <2>1, CoreStays DEF Inv
  <2>2. CASE S # EmptyBag /\ SetColumns(S, RebuiltColumns(S))
    <3>1. SetColumns(S, Columns(S, profile.total, profile.allowed))
      BY <2>2 DEF RebuiltColumns
    <3>2. /\ profile.total \in Nat /\ profile.allowed \in Nat
          /\ profile.total <= BagCardinality(rows)
          /\ profile.allowed <= BagCardinality(AllowedIn(rows))
          /\ profile.total >= 5 => profile.allowed >= 5
      BY NumbersOfRows DEF Inv, Core, Usable
    <3> QED
      BY <1>1, <1>2, <2>2, <3>1, <3>2, ColumnsKeepCore DEF Inv
  <2> QED
    BY <1>1, <2>1, <2>2
<1>4. RebuildsFit'
  <2>1. RebuildFits(Over, ahead)
    BY DEF RebuildFits
  <2> QED
    BY <1>1, <2>1, OneRebuild DEF Inv
<1> QED
  BY <1>1, <1>3, <1>4, PostsStay, UploadsStay DEF Inv

LEMMA LaterKeepsInv ==
    ASSUME Inv, Later
    PROVE  Inv'
<1>1. PICK t \in Moments :
        /\ t > now /\ now' = t
        /\ rebuilds' = [d \in Days |->
               IF DayOf(now) < d /\ d <= DayOf(t) THEN [pc |-> "started"]
               ELSE rebuilds[d]]
  BY DEF Later
<1>2. UNCHANGED <<rows, profile, basis, posts, uploads, ahead>>
  BY DEF Later
<1>3. RebuildsFit'
  <2>1. DOMAIN rebuilds' = Days
    BY <1>1
  <2>2. ASSUME NEW d \in Days PROVE RebuildFits(rebuilds'[d], ahead)
    <3>1. rebuilds'[d] = [pc |-> "started"] \/ rebuilds'[d] = rebuilds[d]
      BY <1>1
    <3>2. RebuildFits([pc |-> "started"], ahead)
      BY DEF RebuildFits
    <3> QED
      BY <3>1, <3>2 DEF Inv, RebuildsFit
  <2> QED
    BY <1>2, <2>1, <2>2 DEF RebuildsFit
<1>4. Dated'
  <2>1. now \in Nat /\ t \in Nat /\ DayOf(now) <= DayOf(t)
    BY <1>1, NumbersOfRows, MomentsAssumption, DayIsMonotone DEF Inv
  <2> SUFFICES ASSUME ~ahead, NEW r \in DOMAIN rows
               PROVE  /\ DayOf(r.at) <= DayOf(t)
                      /\ r.allowed \/ \E s \in Chosen(rows) : DayOf(s.at) <= DayOf(r.at)
    BY <1>1, <1>2 DEF Dated, Chosen
  <2>2. /\ DayOf(r.at) <= DayOf(now)
        /\ r.allowed \/ \E s \in Chosen(rows) : DayOf(s.at) <= DayOf(r.at)
    BY DEF Inv, Core, Dated
  <2>3. DayOf(r.at) \in Nat /\ DayOf(now) \in Nat /\ DayOf(t) \in Nat
    BY <2>1, RowFields, Moments24 DEF Inv, Core
  <2> QED
    BY <2>1, <2>2, <2>3
<1>5. Core'
  <2>1. /\ Table(rows)' /\ Table(basis)' /\ Stored' /\ Usable(profile, rows)'
        /\ RefusedLate(rows)' /\ Habitual' /\ now' \in Moments /\ ahead' \in BOOLEAN
        /\ profile'.stdDev \in Int32
    BY <1>1, <1>2 DEF Inv, Core, Table, FiniteBag, Stored, Usable, RefusedLate, Habitual,
                      Chosen
  <2> QED
    BY <1>4, <2>1 DEF Core
<1> QED
  BY <1>2, <1>3, <1>5, PostsStay, UploadsStay DEF Inv

LEMMA NextKeepsInv == Inv /\ [Next]_vars => Inv'
<1> SUFFICES ASSUME Inv, [Next]_vars PROVE Inv'
  OBVIOUS
<1>1. ASSUME NEW p \in Posts, PostStep(p) PROVE Inv'
  BY <1>1, ReadProfileKeepsInv, ScoreKeepsInv, InsertPostKeepsInv DEF PostStep
<1>2. ASSUME NEW j \in Uploads, UploadStep(j) PROVE Inv'
  BY <1>2, ReceiveUploadKeepsInv, InsertLineKeepsInv, EndFileKeepsInv,
     BeginRecalculateKeepsInv, CommitRecalculateKeepsInv, RefreshProfileKeepsInv
     DEF UploadStep
<1>3. ASSUME NEW d \in Days, RebuildStep(d) PROVE Inv'
  BY <1>3, BeginRebuildKeepsInv, CommitRebuildKeepsInv DEF RebuildStep
<1>4. CASE UNCHANGED vars
  BY <1>4, CoreStays, PostsStay, UploadsStay, RebuildsStay DEF vars, Inv
<1> QED
  BY <1>1, <1>2, <1>3, <1>4, LaterKeepsInv DEF Next

-----------------------------------------------------------------------------

LEMMA SpecKeepsInv == Spec => []Inv
<1> QED
  BY InvInit, NextKeepsInv, PTL DEF Spec

(***************************************************************************)
(* Every stored profile is one the scorer can use, whichever request,      *)
(* upload and job wrote it last, and the rows that it stands for are rows  *)
(* the service can have stored.                                            *)
(***************************************************************************)
THEOREM ColumnsTypeOK == Spec => []TypeOK
BY SpecKeepsInv, InvGivesTypeOK, PTL

(***************************************************************************)
(* Whoever keeps to one payment may go on making it, at any hour.          *)
(***************************************************************************)
THEOREM HabitsAreAllowed == Spec => []HabitIsAllowed
BY SpecKeepsInv, InvGivesHabitIsAllowed, PTL

(***************************************************************************)
(* The hours of a single day's allowed payments are usual ones.            *)
(***************************************************************************)
THEOREM OneDaysHoursAreUsual == Spec => []HoursOfOneDayAreUsual
BY SpecKeepsInv, InvGivesHoursOfOneDayAreUsual, PTL

(***************************************************************************)
(* An established user has a habit, unless a file dated a row ahead.       *)
(***************************************************************************)
THEOREM EstablishedHabit == Spec => []EstablishedHasHabit
BY SpecKeepsInv, InvGivesEstablishedHasHabit, PTL

(***************************************************************************)
(* No line of a file is ever refused, however many uploads overlap.        *)
(***************************************************************************)
THEOREM AllFilesAreAllowed == Spec => []FilesAreAllowed
BY SpecKeepsInv, InvGivesFilesAreAllowed, PTL
=============================================================================
