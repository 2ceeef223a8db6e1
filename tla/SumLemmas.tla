------------------------------ MODULE SumLemmas ------------------------------
(***************************************************************************)
(* Sums over finite sets: what SumFunctionOnSet of the community module    *)
(* Functions returns for functions with natural values.  The operator is a *)
(* fold in the order of CHOOSE; the lemmas say that the order is no matter.*)
(* And orders on finite sets: who is first, who is last, how many a cut by *)
(* the number of predecessors lets through.                                *)
(***************************************************************************)
EXTENDS Integers, FiniteSets, Functions, FiniteSetTheorems, WellFoundedInduction, TLAPS

\* g gives the sum of f over every subset of T.
SumsUp(g, f, T) ==
    /\ g \in [SUBSET T -> Nat]
    /\ g[{}] = 0
    /\ \A s \in SUBSET T : \A x \in s : g[s] = f[x] + g[s \ {x}]

\* The recursion of the fold.
IsFold(g, f, S) ==
    g = [s \in SUBSET S |->
           IF s = {} THEN 0 ELSE LET x == CHOOSE x \in s : TRUE IN f[x] + g[s \ {x}]]

\* Every set of naturals that is not empty has a least element.
LEMMA LeastNat ==
    ASSUME NEW T \in SUBSET Nat, T # {}
    PROVE  \E x \in T : \A y \in T : x <= y
<1>1. IsWellFoundedOn(OpToRel(<, Nat), Nat)
  BY NatLessThanWellFounded
<1>2. PICK x \in T : \A y \in T : ~(<<y, x>> \in OpToRel(<, Nat))
  BY <1>1, WFMin
<1>3. \A y \in T : ~(y < x)
  BY <1>2 DEF OpToRel
<1>4. QED
  BY <1>3

\* Induction over the naturals, for the members of a set.
LEMMA NatSetInduction ==
    ASSUME NEW T, 0 \in T, \A n \in Nat : n \in T => n + 1 \in T
    PROVE  Nat \subseteq T
<1> SUFFICES ASSUME Nat \ T # {} PROVE FALSE
  OBVIOUS
<1>1. PICK x \in Nat \ T : \A y \in Nat \ T : x <= y
  BY LeastNat
<1>2. x # 0
  BY <1>1
<1>3. x - 1 \in Nat /\ x - 1 \in T
  BY <1>1, <1>2
<1>4. QED
  BY <1>1, <1>3

\* A family that has the empty set, and every subset of a finite set all of whose
\* subsets with one element less it has, has all of the subsets.
LEMMA SubsetInduction ==
    ASSUME NEW U, IsFiniteSet(U), NEW F, {} \in F,
           \A s \in SUBSET U : s # {} /\ (\A x \in s : s \ {x} \in F) => s \in F
    PROVE  SUBSET U \subseteq F
<1> DEFINE T == {n \in Nat : \A s \in SUBSET U : Cardinality(s) = n => s \in F}
<1>1. \A s \in SUBSET U : IsFiniteSet(s) /\ Cardinality(s) \in Nat
  BY FS_Subset, FS_CardinalityType
<1>2. 0 \in T
  BY <1>1, FS_EmptySet
<1>3. ASSUME NEW n \in Nat, n \in T
      PROVE  n + 1 \in T
  <2> SUFFICES ASSUME NEW s \in SUBSET U, Cardinality(s) = n + 1
               PROVE  s \in F
    OBVIOUS
  <2>1. s # {}
    BY <1>1, FS_EmptySet
  <2>2. ASSUME NEW x \in s PROVE s \ {x} \in F
    <3>1. Cardinality(s \ {x}) = n
      BY <1>1, FS_RemoveElement
    <3>2. QED
      BY <1>3, <3>1
  <2>3. QED
    BY <2>1, <2>2
<1>4. Nat \subseteq T
  <2> HIDE DEF T
  <2>1. QED
    BY <1>2, <1>3, NatSetInduction
<1>5. QED
  BY <1>1, <1>4

\* Every finite set of natural terms has its sums.
LEMMA SumsExist ==
    ASSUME NEW U, IsFiniteSet(U), NEW f, \A x \in U : f[x] \in Nat
    PROVE  \E g : SumsUp(g, f, U)
<1> DEFINE F == {s \in SUBSET U : \E g : SumsUp(g, f, s)}
<1>1. {} \in F
  <2>1. SumsUp([s \in SUBSET {} |-> 0], f, {})
    BY DEF SumsUp
  <2>2. QED
    BY <2>1
<1>2. ASSUME NEW T \in SUBSET U, T # {}, \A x \in T : T \ {x} \in F
      PROVE  T \in F
  <2>0. PICK x \in T : TRUE
    BY <1>2
  <2>1. PICK g : SumsUp(g, f, T \ {x})
    BY <1>2
  <2> DEFINE h == [s \in SUBSET T |-> IF x \in s THEN f[x] + g[s \ {x}] ELSE g[s]]
  <2>2. f[x] \in Nat
    OBVIOUS
  <2>3. \A s \in SUBSET T : s \ {x} \in SUBSET (T \ {x}) /\ (x \notin s => s \in SUBSET (T \ {x}))
    OBVIOUS
  <2>4. /\ \A s \in SUBSET (T \ {x}) : g[s] \in Nat
        /\ g[{}] = 0
        /\ \A s \in SUBSET (T \ {x}) : \A y \in s : g[s] = f[y] + g[s \ {y}]
    BY <2>1 DEF SumsUp
  <2>5. h \in [SUBSET T -> Nat]
    BY <2>2, <2>3, <2>4
  <2>6. h[{}] = 0
    BY <2>4
  <2>7. ASSUME NEW s \in SUBSET T, NEW y \in s
        PROVE  h[s] = f[y] + h[s \ {y}]
    <3>1. s \ {y} \in SUBSET T
      OBVIOUS
    <3>2. CASE y = x
      <4>1. h[s] = f[x] + g[s \ {x}] /\ h[s \ {x}] = g[s \ {x}]
        BY <3>1, <3>2
      <4>2. QED
        BY <3>2, <4>1
    <3>3. CASE y # x /\ x \in s
      <4>1. h[s] = f[x] + g[s \ {x}] /\ h[s \ {y}] = f[x] + g[(s \ {y}) \ {x}]
        BY <3>1, <3>3
      <4>2. s \ {x} \in SUBSET (T \ {x}) /\ y \in s \ {x}
        BY <3>3
      <4>3. g[s \ {x}] = f[y] + g[(s \ {x}) \ {y}]
        BY <2>4, <4>2
      <4>4. (s \ {x}) \ {y} = (s \ {y}) \ {x}
        OBVIOUS
      <4>5. f[y] \in Nat /\ g[(s \ {x}) \ {y}] \in Nat
        BY <2>4
      <4>6. \A a, b, c \in Nat : a + (b + c) = b + (a + c)
        OBVIOUS
      <4> HIDE DEF h
      <4>7. h[s] = f[x] + (f[y] + g[(s \ {x}) \ {y}])
        BY <4>1, <4>3
      <4>8. h[s \ {y}] = f[x] + g[(s \ {x}) \ {y}]
        BY <4>1, <4>4
      <4>9. QED
        BY <2>2, <4>5, <4>6, <4>7, <4>8
    <3>4. CASE y # x /\ x \notin s
      <4>1. h[s] = g[s] /\ s \in SUBSET (T \ {x})
        BY <2>3, <3>4
      <4>2. x \notin s \ {y}
        BY <3>4
      <4>3. h[s \ {y}] = g[s \ {y}]
        BY <3>1, <4>2
      <4>4. QED
        BY <2>4, <4>1, <4>3
    <3>5. QED
      BY <3>2, <3>3, <3>4
  <2>8. SumsUp(h, f, T)
    <3> HIDE DEF h
    <3>1. QED
      BY <2>5, <2>6, <2>7 DEF SumsUp
  <2>9. QED
    <3> HIDE DEF h
    <3>1. QED
      BY <2>8
<1>3. SUBSET U \subseteq F
  <2> HIDE DEF F
  <2>1. QED
    BY <1>1, <1>2, SubsetInduction
<1>4. QED
  BY <1>3

\* The fold computes the sum.
LEMMA SumIs ==
    ASSUME NEW U, IsFiniteSet(U), NEW f, NEW g, SumsUp(g, f, U), NEW S \in SUBSET U
    PROVE  SumFunctionOnSet(f, S) = g[S]
<1> DEFINE h == [s \in SUBSET S |-> g[s]]
           k == CHOOSE k : IsFold(k, f, S)
<1>1. SumFunctionOnSet(f, S) = k[S]
  BY DEF SumFunctionOnSet, FoldFunctionOnSet, MapThenFoldSet, IsFold
<1>2. IsFold(h, f, S)
  <2>1. ASSUME NEW s \in SUBSET S, s # {}
        PROVE  h[s] = f[CHOOSE x \in s : TRUE] + h[s \ {CHOOSE x \in s : TRUE}]
    <3>1. (CHOOSE x \in s : TRUE) \in s
      BY <2>1
    <3> DEFINE x == CHOOSE x \in s : TRUE
    <3> HIDE DEF x
    <3>2. s \in SUBSET U /\ s \ {x} \in SUBSET S /\ x \in s
      BY <3>1 DEF x
    <3>3. g[s] = f[x] + g[s \ {x}]
      BY <3>2 DEF SumsUp
    <3>4. QED
      BY <3>2, <3>3 DEF x
  <2>2. h[{}] = 0
    BY DEF SumsUp
  <2>3. h = [s \in SUBSET S |->
               IF s = {} THEN 0 ELSE f[CHOOSE x \in s : TRUE] + h[s \ {CHOOSE x \in s : TRUE}]]
    <3> HIDE DEF h
    <3>1. h = [s \in SUBSET S |-> h[s]]
      BY DEF h
    <3>2. QED
      BY <2>1, <2>2, <3>1
  <2> HIDE DEF h
  <2>4. QED
    BY <2>3 DEF IsFold
<1>3. IsFold(k, f, S)
  <2> HIDE DEF h
  <2>1. QED
    BY <1>2
<1>4. SUBSET S \subseteq {s \in SUBSET S : k[s] = h[s]}
  <2> DEFINE F == {s \in SUBSET S : k[s] = h[s]}
  <2> HIDE DEF k, h
  <2>1. /\ \A s \in SUBSET S : k[s] = IF s = {} THEN 0
              ELSE f[CHOOSE x \in s : TRUE] + k[s \ {CHOOSE x \in s : TRUE}]
        /\ \A s \in SUBSET S : h[s] = IF s = {} THEN 0
              ELSE f[CHOOSE x \in s : TRUE] + h[s \ {CHOOSE x \in s : TRUE}]
    BY <1>2, <1>3 DEF IsFold
  <2>2. {} \in F
    BY <2>1
  <2>3. ASSUME NEW s \in SUBSET S, s # {}, \A x \in s : s \ {x} \in F
        PROVE  s \in F
    <3>1. (CHOOSE x \in s : TRUE) \in s
      BY <2>3
    <3>2. k[s \ {CHOOSE x \in s : TRUE}] = h[s \ {CHOOSE x \in s : TRUE}]
      BY <2>3, <3>1
    <3>3. QED
      BY <2>1, <2>3, <3>2
  <2>4. IsFiniteSet(S)
    BY FS_Subset
  <2>5. QED
    <3> HIDE DEF F
    <3>1. SUBSET S \subseteq F
      BY <2>2, <2>3, <2>4, SubsetInduction
    <3>2. QED
      BY <3>1 DEF F
<1>5. QED
  BY <1>1, <1>4

\* A sum without a term.
LEMMA SumOfNone ==
    ASSUME NEW f
    PROVE  SumFunctionOnSet(f, {}) = 0
<1>1. PICK g : SumsUp(g, f, {})
  BY SumsExist, FS_EmptySet
<1>2. SumFunctionOnSet(f, {}) = g[{}]
  BY <1>1, SumIs, FS_EmptySet
<1>3. QED
  BY <1>1, <1>2 DEF SumsUp

\* A sum of natural numbers is one.
LEMMA SumIsNat ==
    ASSUME NEW S, IsFiniteSet(S), NEW f, \A x \in S : f[x] \in Nat
    PROVE  SumFunctionOnSet(f, S) \in Nat
<1>1. PICK g : SumsUp(g, f, S)
  BY SumsExist
<1>2. SumFunctionOnSet(f, S) = g[S]
  BY <1>1, SumIs
<1>3. g[S] \in Nat
  BY <1>1 DEF SumsUp
<1>4. QED
  BY <1>2, <1>3

\* A term can be taken out of a sum, whichever it is.
LEMMA SumTakesOut ==
    ASSUME NEW S, IsFiniteSet(S), NEW f, \A x \in S : f[x] \in Nat, NEW x \in S
    PROVE  SumFunctionOnSet(f, S) = f[x] + SumFunctionOnSet(f, S \ {x})
<1>1. PICK g : SumsUp(g, f, S)
  BY SumsExist
<1>2. SumFunctionOnSet(f, S) = g[S] /\ SumFunctionOnSet(f, S \ {x}) = g[S \ {x}]
  BY <1>1, SumIs
<1>3. QED
  BY <1>1, <1>2 DEF SumsUp

\* A sum looks at nothing but the values it adds.
LEMMA SumSeesTerms ==
    ASSUME NEW S, IsFiniteSet(S), NEW f, NEW h, \A x \in S : f[x] \in Nat /\ h[x] = f[x]
    PROVE  SumFunctionOnSet(h, S) = SumFunctionOnSet(f, S)
<1>1. PICK g : SumsUp(g, f, S)
  BY SumsExist
<1>2. SumsUp(g, h, S)
  BY <1>1 DEF SumsUp
<1>3. QED
  BY <1>1, <1>2, SumIs

\* Two sums that differ in what they do with c alone.
LEMMA SumMoves ==
    ASSUME NEW S, IsFiniteSet(S), NEW T, IsFiniteSet(T), NEW c, S \ {c} = T \ {c},
           NEW f, \A x \in S : f[x] \in Nat,
           NEW h, \A x \in T : h[x] \in Nat,
           \A x \in S \ {c} : h[x] = f[x]
    PROVE  SumFunctionOnSet(h, T) + (IF c \in S THEN f[c] ELSE 0)
               = SumFunctionOnSet(f, S) + (IF c \in T THEN h[c] ELSE 0)
<1>1. IsFiniteSet(S \ {c}) /\ IsFiniteSet(T \ {c})
  BY FS_Subset
<1>2. SumFunctionOnSet(h, T \ {c}) = SumFunctionOnSet(f, S \ {c})
  BY <1>1, SumSeesTerms
<1>3. SumFunctionOnSet(f, S \ {c}) \in Nat
  BY <1>1, SumIsNat
<1>4. SumFunctionOnSet(f, S) = SumFunctionOnSet(f, S \ {c}) + (IF c \in S THEN f[c] ELSE 0)
  <2>1. CASE c \in S
    <3>1. SumFunctionOnSet(f, S) = f[c] + SumFunctionOnSet(f, S \ {c}) /\ f[c] \in Nat
      BY <2>1, SumTakesOut
    <3>2. QED
      BY <1>3, <2>1, <3>1
  <2>2. CASE c \notin S
    <3>1. S \ {c} = S
      BY <2>2
    <3>2. SumFunctionOnSet(f, S) \in Nat
      BY <1>3, <3>1
    <3>3. SumFunctionOnSet(f, S) = SumFunctionOnSet(f, S) + 0
      BY <3>2
    <3>4. QED
      BY <2>2, <3>1, <3>3
  <2>3. QED
    BY <2>1, <2>2
<1>5. SumFunctionOnSet(h, T) = SumFunctionOnSet(h, T \ {c}) + (IF c \in T THEN h[c] ELSE 0)
  <2>1. CASE c \in T
    <3>1. SumFunctionOnSet(h, T) = h[c] + SumFunctionOnSet(h, T \ {c}) /\ h[c] \in Nat
      BY <2>1, SumTakesOut
    <3>2. QED
      BY <1>2, <1>3, <2>1, <3>1
  <2>2. CASE c \notin T
    <3>1. T \ {c} = T
      BY <2>2
    <3>2. QED
      BY <1>2, <1>3, <2>2, <3>1
  <2>3. QED
    BY <2>1, <2>2
<1>6. (IF c \in S THEN f[c] ELSE 0) \in Nat /\ (IF c \in T THEN h[c] ELSE 0) \in Nat
  OBVIOUS
<1>7. QED
  BY <1>2, <1>3, <1>4, <1>5, <1>6
\* A sum is at least k times the number of terms that are k or more.
LEMMA SumAtLeast ==
    ASSUME NEW S, IsFiniteSet(S), NEW f, \A x \in S : f[x] \in Nat,
           NEW E \in SUBSET S, NEW k \in Nat, \A x \in E : f[x] >= k
    PROVE  SumFunctionOnSet(f, S) >= k * Cardinality(E)
<1> DEFINE F == {s \in SUBSET S : SumFunctionOnSet(f, s) >= k * Cardinality(s \cap E)}
<1>1. {} \in F
  <2>1. {} \cap E = {} /\ Cardinality({}) = 0
    BY FS_EmptySet
  <2>2. QED
    BY <2>1, SumOfNone
<1>2. ASSUME NEW s \in SUBSET S, s # {}, \A x \in s : s \ {x} \in F
      PROVE  s \in F
  <2>1. PICK x \in s : TRUE
    BY <1>2
  <2> DEFINE r == SumFunctionOnSet(f, s \ {x})
             c == Cardinality((s \ {x}) \cap E)
  <2>2. IsFiniteSet(s) /\ IsFiniteSet(s \ {x}) /\ IsFiniteSet(s \cap E)
    BY FS_Subset
  <2>3. r \in Nat /\ f[x] \in Nat
    BY <2>2, SumIsNat
  <2>4. SumFunctionOnSet(f, s) = f[x] + r
    BY <2>2, SumTakesOut
  <2>5. r >= k * c
    BY <1>2
  <2>6. c \in Nat
    BY <2>2, FS_Subset, FS_CardinalityType
  <2>7. CASE x \in E
    <3>1. (s \ {x}) \cap E = (s \cap E) \ {x} /\ x \in s \cap E
      BY <2>7
    <3> DEFINE kept == s \cap E
    <3> HIDE DEF kept
    <3>2. IsFiniteSet(kept) /\ x \in kept
      BY <2>2, <3>1 DEF kept
    <3>3. Cardinality(kept \ {x}) = Cardinality(kept) - 1 /\ Cardinality(kept) \in Nat
      BY <3>2, FS_RemoveElement, FS_CardinalityType
    <3>4. c = Cardinality(s \cap E) - 1 /\ Cardinality(s \cap E) \in Nat
      BY <3>1, <3>3 DEF kept
    <3>5. k * Cardinality(s \cap E) = k * c + k
      BY <2>6, <3>4, SMT
    <3>6. f[x] >= k
      BY <2>7
    <3>7. k * c \in Nat
      BY <2>6
    <3> HIDE DEF r, c
    <3>8. f[x] + r >= k * c + k
      BY <2>3, <2>5, <3>6, <3>7
    <3>9. QED
      BY <2>4, <3>5, <3>8
  <2>8. CASE x \notin E
    <3>1. (s \ {x}) \cap E = s \cap E
      BY <2>8
    <3>2. k * c \in Nat
      BY <2>6
    <3>3. c = Cardinality(s \cap E)
      BY <3>1
    <3> HIDE DEF r, c
    <3>4. f[x] + r >= k * c
      BY <2>3, <2>5, <3>2
    <3>5. QED
      BY <2>4, <3>3, <3>4
  <2>9. QED
    BY <2>7, <2>8
<1>3. SUBSET S \subseteq F
  <2> HIDE DEF F
  <2>1. QED
    BY <1>1, <1>2, SubsetInduction
<1>4. S \in F /\ S \cap E = E
  BY <1>3
<1>5. QED
  BY <1>4

-----------------------------------------------------------------------------
(* Orders, as sets of pairs, on finite sets. *)

\* x comes before y in R; the elements of S that come before x.
IsOrder(R, S) ==
    /\ \A x \in S : <<x, x>> \notin R
    /\ \A x, y, z \in S : <<x, y>> \in R /\ <<y, z>> \in R => <<x, z>> \in R

Preceding(R, S, x) == {y \in S : <<y, x>> \in R}

\* Some element comes after no other.
LEMMA OrderHasFirst ==
    ASSUME NEW S, IsFiniteSet(S), S # {}, NEW R, IsOrder(R, S)
    PROVE  \E x \in S : \A y \in S : <<y, x>> \notin R
<1> DEFINE F == {T \in SUBSET S : T = {} \/ \E x \in T : \A y \in T : <<y, x>> \notin R}
<1>1. {} \in F
  OBVIOUS
<1>2. ASSUME NEW T \in SUBSET S, T # {}, \A x \in T : T \ {x} \in F
      PROVE  T \in F
  <2>1. PICK x \in T : TRUE
    BY <1>2
  <2>2. T \ {x} = {} \/ \E m \in T \ {x} : \A y \in T \ {x} : <<y, m>> \notin R
    BY <1>2, <2>1
  <2>3. x \in S /\ <<x, x>> \notin R
    BY <2>1 DEF IsOrder
  <2>4. CASE T \ {x} = {}
    BY <2>1, <2>3, <2>4
  <2>5. ASSUME NEW m \in T \ {x}, \A y \in T \ {x} : <<y, m>> \notin R
        PROVE  T \in F
    <3>1. CASE <<x, m>> \notin R
      BY <2>5, <3>1
    <3>2. CASE <<x, m>> \in R
      <4>1. \A y \in T : <<y, x>> \notin R
        <5> SUFFICES ASSUME NEW y \in T, <<y, x>> \in R PROVE FALSE
          OBVIOUS
        <5>1. y \in T \ {x}
          BY <2>3
        <5>2. <<y, m>> \in R
          BY <2>1, <3>2 DEF IsOrder
        <5>3. QED
          BY <2>5, <5>1, <5>2
      <4>2. QED
        BY <2>1, <4>1
    <3>3. QED
      BY <3>1, <3>2
  <2>6. QED
    BY <2>2, <2>4, <2>5
<1> HIDE DEF F
<1>3. S \in F
  BY <1>1, <1>2, SubsetInduction
<1>4. QED
  BY <1>3 DEF F

\* Some element comes before no other.
LEMMA OrderHasLast ==
    ASSUME NEW S, IsFiniteSet(S), S # {}, NEW R, IsOrder(R, S)
    PROVE  \E x \in S : \A y \in S : <<x, y>> \notin R
<1> DEFINE Q == {p \in S \X S : <<p[2], p[1]>> \in R}
<1>1. \A x, y \in S : <<x, y>> \in Q <=> <<y, x>> \in R
  OBVIOUS
<1> HIDE DEF Q
<1>2. IsOrder(Q, S)
  BY <1>1 DEF IsOrder
<1>3. PICK x \in S : \A y \in S : <<y, x>> \notin Q
  BY <1>2, OrderHasFirst
<1>4. QED
  BY <1>1, <1>3

\* Those of S with fewer than size before them, `taken` having been taken already,
\* are no more than are left, and no fewer unless they are all.
LEMMA CutIsExact ==
    ASSUME NEW S, IsFiniteSet(S), NEW R, IsOrder(R, S),
           \A x, y \in S : x # y => <<x, y>> \in R \/ <<y, x>> \in R,
           NEW taken \in Nat, NEW size \in Int, NEW C, C \subseteq S,
           \A x \in S : x \in C <=> taken + Cardinality(Preceding(R, S, x)) < size
    PROVE  /\ IsFiniteSet(C)
           /\ C = {} \/ taken + Cardinality(C) <= size
           /\ C = S \/ taken + Cardinality(C) >= size
<1>1. IsFiniteSet(C) /\ C \subseteq S /\ Cardinality(C) \in Nat
  BY FS_Subset, FS_CardinalityType
<1>2. \A x \in S : IsFiniteSet(Preceding(R, S, x)) /\ Cardinality(Preceding(R, S, x)) \in Nat
  BY FS_Subset, FS_CardinalityType DEF Preceding
<1>3. ASSUME C # {} PROVE taken + Cardinality(C) <= size
  <2>1. IsOrder(R, C)
    BY <1>1 DEF IsOrder
  <2>2. PICK x \in C : \A y \in C : <<x, y>> \notin R
    BY <1>1, <1>3, <2>1, OrderHasLast
  <2>3. C \ {x} \subseteq Preceding(R, S, x)
    BY <1>1, <2>2 DEF Preceding
  <2>4. Cardinality(C \ {x}) <= Cardinality(Preceding(R, S, x))
    BY <1>1, <1>2, <2>3, FS_Subset
  <2>5. Cardinality(C \ {x}) = Cardinality(C) - 1
    BY <1>1, FS_RemoveElement
  <2>6. taken + Cardinality(Preceding(R, S, x)) < size /\ Cardinality(Preceding(R, S, x)) \in Nat
    BY <1>1, <1>2
  <2>7. QED
    BY <1>1, <2>4, <2>5, <2>6
<1>4. ASSUME C # S PROVE taken + Cardinality(C) >= size
  <2>1. S \ C # {} /\ IsFiniteSet(S \ C) /\ IsOrder(R, S \ C)
    <3>1. IsFiniteSet(S \ C)
      BY FS_Subset
    <3>2. QED
      BY <1>1, <1>4, <3>1 DEF IsOrder
  <2>2. PICK x \in S \ C : \A y \in S \ C : <<y, x>> \notin R
    BY <2>1, OrderHasFirst
  <2>3. Preceding(R, S, x) \subseteq C
    BY <2>2 DEF Preceding
  <2>4. Cardinality(Preceding(R, S, x)) <= Cardinality(C)
    BY <1>1, <2>3, FS_Subset
  <2>5. ~(taken + Cardinality(Preceding(R, S, x)) < size)
    BY <2>2
  <2>6. QED
    BY <1>1, <1>2, <2>4, <2>5
<1>5. QED
  BY <1>1, <1>3, <1>4

\* As many names as elements, if no two elements have the same.
LEMMA NamesCount ==
    ASSUME NEW S, IsFiniteSet(S), NEW f, \A x, y \in S : f[x] = f[y] => x = y,
           NEW T, \A x \in S : f[x] \in T, \A y \in T : \E x \in S : y = f[x]
    PROVE  Cardinality(T) = Cardinality(S)
<1> DEFINE g == [x \in S |-> f[x]]
<1>1. g \in Bijection(S, T)
  BY DEF Bijection, Injection, Surjection, IsInjective
<1>2. ExistsBijection(S, T)
  BY <1>1 DEF ExistsBijection
<1>3. QED
  BY <1>2, FS_Bijection
===============================================================================
