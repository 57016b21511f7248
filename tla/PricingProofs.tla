---------------------------- MODULE PricingProofs ----------------------------
(***************************************************************************)
(* The arithmetic of the engine, for every product, demand and parameter   *)
(* an organiser can set.  First what the proofs of this module and of      *)
(* NightProofs know of sums: SumFunctionOnSet is a fold, which is worth     *)
(* something only once it is known that its recursion has one solution.    *)
(***************************************************************************)
EXTENDS Pricing, FiniteSetTheorems, WellFoundedInduction, TLAPS

-----------------------------------------------------------------------------
(* Induction, in the form of a least counterexample.                       *)

LEMMA LeastNumber ==
  ASSUME NEW T \in SUBSET Nat, T # {}
  PROVE  \E n \in T : \A m \in T : n <= m
<1> DEFINE Less == {p \in Nat \X Nat : p[1] < p[2]}
<1>1. IsWellFoundedOn(Less, Nat)
  BY NatLessThanWellFounded DEF OpToRel
<1>2. PICK n \in T : \A m \in T : ~(<<m, n>> \in Less)
  <2> HIDE DEF Less
  <2> QED
    BY <1>1, WFMin
<1>3. \A m \in T : ~(m < n)
  BY <1>2
<1> QED
  BY <1>3

LEMMA LeastSubset ==
  ASSUME NEW S, IsFiniteSet(S), NEW F \in SUBSET SUBSET S, F # {}
  PROVE  \E T \in F : \A U \in F : U \subseteq T => U = T
<1>1. FiniteSubsetsOf(S) = SUBSET S
  BY FS_FiniteSubsetsOfFinite
<1>2. IsWellFoundedOn(StrictSubsetOrdering(S), SUBSET S)
  BY <1>1, FS_StrictSubsetOrderingWellFounded
<1>3. PICK T \in F : \A U \in F : ~(<<U, T>> \in StrictSubsetOrdering(S))
  BY <1>2, WFMin
<1> QED
  BY <1>3 DEF StrictSubsetOrdering

\* What holds of nothing, and of a set with one more element, holds of S.
LEMMA SetInduction ==
  ASSUME NEW S, IsFiniteSet(S), NEW F \in SUBSET SUBSET S, {} \in F,
         \A T \in F : \A x \in S \ T : T \cup {x} \in F
  PROVE  S \in F
<1> DEFINE G == (SUBSET S) \ F
<1>1. SUFFICES ASSUME G # {}
               PROVE  FALSE
  OBVIOUS
<1>2. PICK T \in G : \A U \in G : U \subseteq T => U = T
  <2> HIDE DEF G
  <2> SUFFICES G \in SUBSET SUBSET S
    BY <1>1, LeastSubset
  <2> QED
    BY DEF G
<1>3. PICK x \in T : TRUE
  BY <1>2
<1>4. T \ {x} \in F
  BY <1>2, <1>3
<1>5. (T \ {x}) \cup {x} \in F
  BY <1>2, <1>3, <1>4
<1>6. (T \ {x}) \cup {x} = T
  BY <1>3
<1> QED
  BY <1>2, <1>5, <1>6

-----------------------------------------------------------------------------
(* Sums.                                                                   *)

Sums(g, f, S) ==
  g = [s \in SUBSET S |-> IF s = {} THEN 0
                          ELSE f[CHOOSE x \in s : TRUE] + g[s \ {CHOOSE x \in s : TRUE}]]

LEMMA SumsUnique ==
  ASSUME NEW f, NEW S, IsFiniteSet(S), NEW g, Sums(g, f, S), NEW h, Sums(h, f, S)
  PROVE  g = h
<1> DEFINE F == {s \in SUBSET S : g[s] # h[s]}
<1>1. SUFFICES ASSUME F # {}
               PROVE  FALSE
  BY DEF Sums
<1>2. PICK T \in F : \A U \in F : U \subseteq T => U = T
  <2> HIDE DEF F
  <2> SUFFICES F \in SUBSET SUBSET S
    BY <1>1, LeastSubset
  <2> QED
    BY DEF F
<1>3. T # {}
  BY <1>2 DEF Sums
<1> DEFINE c == CHOOSE x \in T : TRUE
<1>4. c \in T
  BY <1>3
<1>5. T \ {c} \in SUBSET S /\ T \ {c} \subseteq T /\ T \ {c} # T
  BY <1>4, <1>2
<1>6. g[T \ {c}] = h[T \ {c}]
  BY <1>2, <1>5
<1>7. g[T] = f[c] + g[T \ {c}] /\ h[T] = f[c] + h[T \ {c}]
  BY <1>2, <1>3 DEF Sums
<1> QED
  BY <1>2, <1>6, <1>7

LEMMA SumsRestrict ==
  ASSUME NEW f, NEW S, NEW g, Sums(g, f, S), NEW T \in SUBSET S
  PROVE  Sums([s \in SUBSET T |-> g[s]], f, T)
<1> DEFINE h == [s \in SUBSET T |-> g[s]]
<1>1. ASSUME NEW s \in SUBSET T
      PROVE  h[s] = IF s = {} THEN 0
                    ELSE f[CHOOSE x \in s : TRUE] + h[s \ {CHOOSE x \in s : TRUE}]
  <2>1. s \ {CHOOSE x \in s : TRUE} \in SUBSET T /\ s \in SUBSET S
    OBVIOUS
  <2>2. g[s] = IF s = {} THEN 0
                    ELSE f[CHOOSE x \in s : TRUE] + g[s \ {CHOOSE x \in s : TRUE}]
    BY <2>1 DEF Sums
  <2> QED
    BY <2>1, <2>2
<1>2. DOMAIN h = SUBSET T
  OBVIOUS
<1> HIDE DEF h
<1>3. h = [s \in SUBSET T |-> h[s]]
  BY <1>2 DEF h
<1> QED
  BY <1>1, <1>3 DEF Sums

LEMMA SumsExist ==
  ASSUME NEW f, NEW S, IsFiniteSet(S)
  PROVE  \E g : Sums(g, f, S)
<1> DEFINE F == {T \in SUBSET S : ~\E g : Sums(g, f, T)}
           the(U) == (CHOOSE g : Sums(g, f, U))[U]
<1>1. SUFFICES ASSUME F # {}
               PROVE  FALSE
  OBVIOUS
<1>2. PICK T \in F : \A U \in F : U \subseteq T => U = T
  <2> HIDE DEF F
  <2> SUFFICES F \in SUBSET SUBSET S
    BY <1>1, LeastSubset
  <2> QED
    BY DEF F
<1>3. ASSUME NEW U \in SUBSET T, U # T
      PROVE  Sums(CHOOSE g : Sums(g, f, U), f, U)
  <2>1. \E g : Sums(g, f, U)
    BY <1>2, <1>3
  <2> QED
    BY <2>1
<1>4. ASSUME NEW U \in SUBSET T, U # T
      PROVE  the(U) = IF U = {} THEN 0
                      ELSE f[CHOOSE x \in U : TRUE] + the(U \ {CHOOSE x \in U : TRUE})
  <2>1. CASE U = {}
    <3> DEFINE gu == CHOOSE g : Sums(g, f, U)
    <3>1. Sums(gu, f, U)
      BY <1>3, <1>4
    <3> HIDE DEF gu
    <3>2. gu[U] = 0
      BY <3>1, <2>1 DEF Sums
    <3> QED
      BY <3>2, <2>1 DEF gu
  <2>2. CASE U # {}
    <3> DEFINE c == CHOOSE x \in U : TRUE
               V == U \ {c}
               gu == CHOOSE g : Sums(g, f, U)
               gv == CHOOSE g : Sums(g, f, V)
    <3>1. V \in SUBSET U /\ V \in SUBSET T /\ V # T
      BY <1>4
    <3>2. Sums(gu, f, U) /\ Sums(gv, f, V)
      BY <1>3, <1>4, <3>1
    <3> HIDE DEF gu, gv, V
    <3>3. IsFiniteSet(V)
      <4>1. V \in SUBSET S
        BY <3>1, <1>2
      <4> QED
        BY <4>1, FS_Subset
    <3> DEFINE gr == [s \in SUBSET V |-> gu[s]]
    <3>7. Sums(gr, f, V)
      BY <3>1, <3>2, SumsRestrict
    <3> HIDE DEF gr
    <3>4. gv = gr
      BY <3>2, <3>3, <3>7, SumsUnique
    <3>5. gv[V] = gu[V]
      BY <3>4 DEF gr
    <3>6. gu[U] = f[c] + gu[V]
      BY <3>2, <2>2 DEF Sums, V
    <3> QED
      BY <3>5, <3>6, <2>2 DEF gu, gv, V
  <2> QED
    BY <2>1, <2>2
<1> DEFINE h == [s \in SUBSET T |-> IF s = {} THEN 0
                   ELSE f[CHOOSE x \in s : TRUE] + the(s \ {CHOOSE x \in s : TRUE})]
<1> HIDE DEF the
<1>5. ASSUME NEW s \in SUBSET T, s # {}
      PROVE  h[s] = f[CHOOSE x \in s : TRUE] + h[s \ {CHOOSE x \in s : TRUE}]
  <2> DEFINE U == s \ {CHOOSE x \in s : TRUE}
  <2>1. (CHOOSE x \in s : TRUE) \in s
    BY <1>5
  <2>2. U \in SUBSET T /\ U # T
    BY <2>1
  <2> HIDE DEF U
  <2>3. h[U] = the(U)
    BY <2>2, <1>4
  <2> QED
    BY <2>3, <1>5 DEF U
<1>6. h[{}] = 0 /\ h = [s \in SUBSET T |-> h[s]]
  OBVIOUS
<1> HIDE DEF h
<1>7. Sums(h, f, T)
  BY <1>5, <1>6 DEF Sums
<1> QED
  BY <1>7, <1>2

LEMMA SumIs ==
  ASSUME NEW f, NEW S, IsFiniteSet(S), NEW g, Sums(g, f, S)
  PROVE  SumFunctionOnSet(f, S) = g[S]
<1>1. \A h : Sums(h, f, S) => h = g
  BY SumsUnique
<1> QED
  BY <1>1 DEF Sums, SumFunctionOnSet, FoldFunctionOnSet, MapThenFoldSet

\* What a sum is: none of nothing, one element and the sum of the others.
LEMMA SumChoice ==
  ASSUME NEW f, NEW S, IsFiniteSet(S)
  PROVE  SumFunctionOnSet(f, S) =
           IF S = {} THEN 0
           ELSE f[CHOOSE x \in S : TRUE] + SumFunctionOnSet(f, S \ {CHOOSE x \in S : TRUE})
<1> DEFINE c == CHOOSE x \in S : TRUE
           V == S \ {c}
<1>1. PICK g : Sums(g, f, S)
  BY SumsExist
<1>2. SumFunctionOnSet(f, S) = g[S]
  BY <1>1, SumIs
<1>3. V \in SUBSET S /\ IsFiniteSet(V)
  BY FS_Subset
<1> DEFINE h == [s \in SUBSET V |-> g[s]]
<1> HIDE DEF V
<1>4. Sums(h, f, V)
  BY <1>1, <1>3, SumsRestrict
<1>5. SumFunctionOnSet(f, V) = h[V]
  <2> HIDE DEF h
  <2> QED
    BY <1>3, <1>4, SumIs
<1>6. g[S] = IF S = {} THEN 0 ELSE f[c] + g[V]
  BY <1>1 DEF Sums, V
<1> QED
  BY <1>2, <1>5, <1>6 DEF V

LEMMA SumNothing ==
  ASSUME NEW f
  PROVE  SumFunctionOnSet(f, {}) = 0
BY SumChoice, FS_EmptySet

LEMMA SumType ==
  ASSUME NEW f, NEW S, IsFiniteSet(S), \A x \in S : f[x] \in Int
  PROVE  SumFunctionOnSet(f, S) \in Int
<1> DEFINE F == {s \in SUBSET S : SumFunctionOnSet(f, s) \notin Int}
<1>1. SUFFICES ASSUME F # {}
               PROVE  FALSE
  OBVIOUS
<1>2. PICK T \in F : \A U \in F : U \subseteq T => U = T
  <2> HIDE DEF F
  <2> SUFFICES F \in SUBSET SUBSET S
    BY <1>1, LeastSubset
  <2> QED
    BY DEF F
<1> DEFINE c == CHOOSE x \in T : TRUE
<1>3. IsFiniteSet(T)
  BY <1>2, FS_Subset
<1>4. T # {}
  BY <1>2, SumNothing
<1>5. c \in T /\ f[c] \in Int
  BY <1>2, <1>4
<1>6. SumFunctionOnSet(f, T \ {c}) \in Int
  BY <1>2, <1>5
<1>7. SumFunctionOnSet(f, T) = f[c] + SumFunctionOnSet(f, T \ {c})
  BY <1>3, <1>4, SumChoice
<1> QED
  BY <1>2, <1>5, <1>6, <1>7

\* Any element may be taken out first.
LEMMA SumTake ==
  ASSUME NEW f, NEW S, IsFiniteSet(S), \A y \in S : f[y] \in Int, NEW x \in S
  PROVE  SumFunctionOnSet(f, S) = f[x] + SumFunctionOnSet(f, S \ {x})
<1> DEFINE Sum(s) == SumFunctionOnSet(f, s)
           F == {s \in SUBSET S : \E y \in s : Sum(s) # f[y] + Sum(s \ {y})}
<1>1. SUFFICES ASSUME F # {}
               PROVE  FALSE
  OBVIOUS
<1>2. PICK T \in F : \A U \in F : U \subseteq T => U = T
  <2> HIDE DEF F
  <2> SUFFICES F \in SUBSET SUBSET S
    BY <1>1, LeastSubset
  <2> QED
    BY DEF F
<1>3. PICK y \in T : Sum(T) # f[y] + Sum(T \ {y})
  BY <1>2
<1> DEFINE c == CHOOSE z \in T : TRUE
<1>4. \A s \in SUBSET S : IsFiniteSet(s) /\ Sum(s) \in Int
  BY FS_Subset, SumType
<1>5. T # {} /\ c \in T
  BY <1>3
<1> HIDE DEF Sum
<1>6. \A s \in SUBSET S : s # {} => Sum(s) = f[CHOOSE z \in s : TRUE] + Sum(s \ {CHOOSE z \in s : TRUE})
  BY <1>4, SumChoice DEF Sum
<1>7. Sum(T) = f[c] + Sum(T \ {c})
  BY <1>2, <1>5, <1>6
<1>8. c # y
  BY <1>3, <1>7
<1>9. /\ T \ {c} \in SUBSET S /\ T \ {c} \subseteq T /\ T \ {c} # T
      /\ T \ {y} \in SUBSET S /\ T \ {y} \subseteq T /\ T \ {y} # T
      /\ y \in T \ {c} /\ c \in T \ {y}
  BY <1>2, <1>3, <1>5, <1>8
<1>10. T \ {c} \notin F /\ T \ {y} \notin F
  BY <1>2, <1>9
<1>11. Sum(T \ {c}) = f[y] + Sum((T \ {c}) \ {y})
  BY <1>9, <1>10
<1>12. Sum(T \ {y}) = f[c] + Sum((T \ {y}) \ {c})
  BY <1>9, <1>10
<1>13. (T \ {c}) \ {y} = (T \ {y}) \ {c} /\ (T \ {c}) \ {y} \in SUBSET S
  BY <1>9
<1>14. f[c] \in Int /\ f[y] \in Int /\ Sum((T \ {c}) \ {y}) \in Int
  BY <1>2, <1>4, <1>5, <1>13
<1> DEFINE rest == Sum((T \ {c}) \ {y})
           fc == f[c]
           fy == f[y]
<1>15. Sum(T) = fc + (fy + rest) /\ Sum(T \ {y}) = fc + rest
  BY <1>7, <1>11, <1>12, <1>13
<1>16. fc \in Int /\ fy \in Int /\ rest \in Int
  BY <1>14
<1>17. Sum(T) # fy + Sum(T \ {y})
  BY <1>3
<1> HIDE DEF fc, fy, rest
<1> QED
  BY <1>15, <1>16, <1>17

LEMMA SumAdd ==
  ASSUME NEW f, NEW S, IsFiniteSet(S), NEW x, x \notin S, f[x] \in Int,
         \A y \in S : f[y] \in Int
  PROVE  SumFunctionOnSet(f, S \cup {x}) = f[x] + SumFunctionOnSet(f, S)
<1>1. IsFiniteSet(S \cup {x})
  BY FS_AddElement
<1>2. (S \cup {x}) \ {x} = S
  OBVIOUS
<1> QED
  BY <1>1, <1>2, SumTake

LEMMA SumSame ==
  ASSUME NEW f, NEW g, NEW S, IsFiniteSet(S), \A x \in S : f[x] = g[x]
  PROVE  SumFunctionOnSet(f, S) = SumFunctionOnSet(g, S)
<1> DEFINE F == {s \in SUBSET S : SumFunctionOnSet(f, s) # SumFunctionOnSet(g, s)}
<1>1. SUFFICES ASSUME F # {}
               PROVE  FALSE
  OBVIOUS
<1>2. PICK T \in F : \A U \in F : U \subseteq T => U = T
  <2> HIDE DEF F
  <2> SUFFICES F \in SUBSET SUBSET S
    BY <1>1, LeastSubset
  <2> QED
    BY DEF F
<1> DEFINE c == CHOOSE x \in T : TRUE
<1>3. IsFiniteSet(T)
  BY <1>2, FS_Subset
<1>4. T # {}
  BY <1>2, SumNothing
<1>5. c \in T /\ f[c] = g[c]
  BY <1>2, <1>4
<1>6. SumFunctionOnSet(f, T \ {c}) = SumFunctionOnSet(g, T \ {c})
  BY <1>2, <1>5
<1>7. /\ SumFunctionOnSet(f, T) = f[c] + SumFunctionOnSet(f, T \ {c})
      /\ SumFunctionOnSet(g, T) = g[c] + SumFunctionOnSet(g, T \ {c})
  BY <1>3, <1>4, SumChoice
<1> QED
  BY <1>2, <1>5, <1>6, <1>7

LEMMA SumSupport ==
  ASSUME NEW f, NEW g, NEW S, IsFiniteSet(S), NEW T \in SUBSET S,
         \A x \in T : f[x] \in Int /\ g[x] = f[x], \A x \in S \ T : g[x] = 0
  PROVE  SumFunctionOnSet(g, S) = SumFunctionOnSet(f, T)
<1> DEFINE F == {R \in SUBSET S : SumFunctionOnSet(g, R) = SumFunctionOnSet(f, R \cap T)}
<1>1. {} \in F
  BY SumNothing
<1>2. ASSUME NEW R \in F, NEW x \in S \ R
      PROVE  R \cup {x} \in F
  <2>1. IsFiniteSet(R) /\ IsFiniteSet(R \cap T)
    BY FS_Subset
  <2>2. SumFunctionOnSet(g, R \cup {x}) = g[x] + SumFunctionOnSet(g, R)
    BY <2>1, SumAdd
  <2>3. SumFunctionOnSet(g, R) \in Int
    BY <2>1, SumType
  <2>4. CASE x \in T
    <3>1. SumFunctionOnSet(f, (R \cap T) \cup {x}) = f[x] + SumFunctionOnSet(f, R \cap T)
      BY <2>1, <2>4, SumAdd
    <3>2. (R \cup {x}) \cap T = (R \cap T) \cup {x}
      BY <2>4
    <3> QED
      BY <2>2, <2>4, <3>1, <3>2
  <2>5. CASE x \notin T
    <3>1. (R \cup {x}) \cap T = R \cap T /\ g[x] = 0
      BY <2>5
    <3> QED
      BY <2>2, <2>3, <3>1
  <2> QED
    BY <2>4, <2>5
<1>3. F \in SUBSET SUBSET S
  OBVIOUS
<1>4. S \in F
  <2> HIDE DEF F
  <2> QED
    BY <1>1, <1>2, <1>3, SetInduction
<1>5. S \cap T = T
  OBVIOUS
<1> QED
  BY <1>4, <1>5

\* Other names for the same summands.
LEMMA SumImage ==
  ASSUME NEW S, IsFiniteSet(S), NEW h, \A x, y \in S : h[x] = h[y] => x = y,
         NEW R, R = {h[x] : x \in S},
         NEW f, NEW g, \A x \in S : f[x] \in Int /\ g[h[x]] = f[x]
  PROVE  SumFunctionOnSet(g, R) = SumFunctionOnSet(f, S) /\ IsFiniteSet(R)
<1> DEFINE Of(T) == {h[x] : x \in T}
           F == {T \in SUBSET S : /\ IsFiniteSet(Of(T))
                                  /\ SumFunctionOnSet(g, Of(T)) = SumFunctionOnSet(f, T)}
<1>1. {} \in F
  <2>1. Of({}) = {}
    OBVIOUS
  <2> QED
    BY <2>1, SumNothing, FS_EmptySet
<1>2. ASSUME NEW T \in F, NEW x \in S \ T
      PROVE  T \cup {x} \in F
  <2>1. IsFiniteSet(T)
    BY FS_Subset
  <2>2. Of(T \cup {x}) = Of(T) \cup {h[x]} /\ h[x] \notin Of(T)
    OBVIOUS
  <2>3. \A z \in Of(T) : g[z] \in Int
    OBVIOUS
  <2>4. SumFunctionOnSet(f, T \cup {x}) = f[x] + SumFunctionOnSet(f, T)
    BY <2>1, SumAdd
  <2> HIDE DEF Of
  <2>5. SumFunctionOnSet(g, Of(T) \cup {h[x]}) = g[h[x]] + SumFunctionOnSet(g, Of(T))
    BY <2>2, <2>3, SumAdd
  <2>6. IsFiniteSet(Of(T) \cup {h[x]})
    BY FS_AddElement
  <2> QED
    BY <2>2, <2>4, <2>5, <2>6
<1>3. F \in SUBSET SUBSET S
  OBVIOUS
<1>4. S \in F
  <2> HIDE DEF F
  <2> QED
    BY <1>1, <1>2, <1>3, SetInduction
<1> QED
  BY <1>4

LEMMA SumUnion ==
  ASSUME NEW f, NEW S, NEW T, IsFiniteSet(S), IsFiniteSet(T), S \cap T = {},
         \A x \in S \cup T : f[x] \in Int
  PROVE  SumFunctionOnSet(f, S \cup T) = SumFunctionOnSet(f, S) + SumFunctionOnSet(f, T)
<1> DEFINE F == {R \in SUBSET T : SumFunctionOnSet(f, S \cup R)
                                  = SumFunctionOnSet(f, S) + SumFunctionOnSet(f, R)}
<1>1. {} \in F
  <2>1. SumFunctionOnSet(f, S) \in Int /\ S \cup {} = S
    BY SumType
  <2> QED
    BY <2>1, SumNothing
<1>2. ASSUME NEW R \in F, NEW x \in T \ R
      PROVE  R \cup {x} \in F
  <2>1. IsFiniteSet(R) /\ IsFiniteSet(S \cup R)
    BY FS_Subset, FS_Union
  <2>2. SumFunctionOnSet(f, R \cup {x}) = f[x] + SumFunctionOnSet(f, R)
    BY <2>1, SumAdd
  <2>3. SumFunctionOnSet(f, (S \cup R) \cup {x}) = f[x] + SumFunctionOnSet(f, S \cup R)
    BY <2>1, SumAdd
  <2>4. (S \cup R) \cup {x} = S \cup (R \cup {x})
    OBVIOUS
  <2>5. SumFunctionOnSet(f, R) \in Int /\ SumFunctionOnSet(f, S) \in Int
    BY <2>1, SumType
  <2>6. f[x] + (SumFunctionOnSet(f, S) + SumFunctionOnSet(f, R))
          = SumFunctionOnSet(f, S) + (f[x] + SumFunctionOnSet(f, R))
    BY <2>5
  <2> QED
    BY <2>2, <2>3, <2>4, <2>6
<1>3. F \in SUBSET SUBSET T
  OBVIOUS
<1>4. T \in F
  <2> HIDE DEF F
  <2> QED
    BY <1>1, <1>2, <1>3, SetInduction
<1> QED
  BY <1>4

\* Class by class: h says which class an element is in, part what a class adds up to.
Classed(h, K, f, S, part) ==
  /\ IsFiniteSet(K) /\ IsFiniteSet(S)
  /\ \A x \in S : h[x] \in K
  /\ \A x \in S : f[x] \in Int
  /\ \A k \in K : part[k] = SumFunctionOnSet(f, {x \in S : h[x] = k})

LEMMA SumClasses ==
  ASSUME NEW h, NEW K, NEW f, NEW S, NEW part, Classed(h, K, f, S, part)
  PROVE  SumFunctionOnSet(part, K) = SumFunctionOnSet(f, S)
<1> SUFFICES ASSUME IsFiniteSet(K), IsFiniteSet(S), \A x \in S : h[x] \in K,
                    \A x \in S : f[x] \in Int,
                    \A k \in K : part[k] = SumFunctionOnSet(f, {x \in S : h[x] = k})
             PROVE  SumFunctionOnSet(part, K) = SumFunctionOnSet(f, S)
  BY Zenon DEF Classed
<1> DEFINE In(L) == {x \in S : h[x] \in L}
           F == {L \in SUBSET K : SumFunctionOnSet(part, L) = SumFunctionOnSet(f, In(L))}
<1>1. {} \in F
  <2>1. In({}) = {}
    OBVIOUS
  <2> QED
    BY <2>1, SumNothing
<1>2. ASSUME NEW L \in F, NEW k \in K \ L
      PROVE  L \cup {k} \in F
  <2> DEFINE C == {x \in S : h[x] = k}
  <2>1. IsFiniteSet(L) /\ IsFiniteSet(In(L)) /\ IsFiniteSet(C)
    BY FS_Subset
  <2>2. In(L \cup {k}) = C \cup In(L) /\ C \cap In(L) = {}
    OBVIOUS
  <2>3. \A l \in K : part[l] \in Int
    <3> TAKE l \in K
    <3>1. IsFiniteSet({x \in S : h[x] = l})
      BY FS_Subset
    <3> QED
      BY <3>1, SumType
  <2>4. SumFunctionOnSet(part, L \cup {k}) = part[k] + SumFunctionOnSet(part, L)
    BY <2>1, <2>3, SumAdd
  <2>5. \A x \in C \cup In(L) : f[x] \in Int
    OBVIOUS
  <2>6. part[k] = SumFunctionOnSet(f, C)
    OBVIOUS
  <2>7. L \cup {k} \in SUBSET K /\ SumFunctionOnSet(part, L) = SumFunctionOnSet(f, In(L))
    OBVIOUS
  <2> HIDE DEF In, C
  <2>8. SumFunctionOnSet(f, C \cup In(L)) = SumFunctionOnSet(f, C) + SumFunctionOnSet(f, In(L))
    BY <2>1, <2>2, <2>5, SumUnion
  <2> QED
    BY <2>2, <2>4, <2>6, <2>7, <2>8
<1>3. F \in SUBSET SUBSET K
  OBVIOUS
<1>4. K \in F
  <2> HIDE DEF F
  <2> QED
    BY <1>1, <1>2, <1>3, SetInduction
<1>5. In(K) = S
  OBVIOUS
<1> QED
  BY <1>4, <1>5

LEMMA SumNat ==
  ASSUME NEW f, NEW S, IsFiniteSet(S), \A x \in S : f[x] \in Nat
  PROVE  /\ SumFunctionOnSet(f, S) \in Nat
         /\ \A x \in S : f[x] <= SumFunctionOnSet(f, S)
<1> DEFINE F == {T \in SUBSET S : /\ SumFunctionOnSet(f, T) \in Nat
                                  /\ \A x \in T : f[x] <= SumFunctionOnSet(f, T)}
<1>1. {} \in F
  BY SumNothing
<1>2. ASSUME NEW T \in F, NEW x \in S \ T
      PROVE  T \cup {x} \in F
  <2>1. IsFiniteSet(T)
    BY FS_Subset
  <2>2. SumFunctionOnSet(f, T \cup {x}) = f[x] + SumFunctionOnSet(f, T)
    BY <2>1, SumAdd
  <2>3. f[x] \in Nat /\ SumFunctionOnSet(f, T) \in Nat
    OBVIOUS
  <2>4. \A y \in T : f[y] \in Nat /\ f[y] <= SumFunctionOnSet(f, T)
    OBVIOUS
  <2> QED
    BY <2>2, <2>3, <2>4
<1>3. F \in SUBSET SUBSET S
  OBVIOUS
<1>4. S \in F
  <2> HIDE DEF F
  <2> QED
    BY <1>1, <1>2, <1>3, SetInduction
<1> QED
  BY <1>4

-----------------------------------------------------------------------------
(* Rounding and bounds.                                                    *)

LEMMA MaxOfTwo ==
  ASSUME NEW a \in Int, NEW b \in Int
  PROVE  Max({a, b}) = IF a >= b THEN a ELSE b
BY DEF Max

LEMMA MinOfTwo ==
  ASSUME NEW a \in Int, NEW b \in Int
  PROVE  Min({a, b}) = IF a <= b THEN a ELSE b
BY DEF Min

LEMMA ClipIs ==
  ASSUME NEW v \in Int, NEW min \in Int, NEW max \in Int, min <= max
  PROVE  clip(v, min, max) = IF v < min THEN min ELSE IF v > max THEN max ELSE v
<1>1. Min({v, max}) = IF v <= max THEN v ELSE max
  BY MinOfTwo
<1>2. Min({v, max}) \in Int
  BY <1>1
<1>3. clip(v, min, max) = IF min >= Min({v, max}) THEN min ELSE Min({v, max})
  BY <1>2, MaxOfTwo DEF clip
<1> QED
  BY <1>1, <1>3

\* What is rounded is at most half a unit away.
LEMMA RoundIs ==
  ASSUME NEW a \in Int, NEW b \in Nat \ {0}
  PROVE  /\ round(a, b) \in Int
         /\ 2 * (b * round(a, b)) <= 2 * a + b
         /\ 2 * a + b < 2 * (b * round(a, b)) + 2 * b
<1> DEFINE n == 2 * a + b
           d == 2 * b
           k == n \div d
<1>1. n \in Int /\ d \in Nat \ {0}
  OBVIOUS
<1> HIDE DEF n, d
<1>2. k \in Int /\ d * k <= n /\ n < d * k + d
  BY <1>1
<1>3. d * k = 2 * (b * k)
  BY <1>2 DEF d
<1>4. round(a, b) = k
  BY DEF round, n, d
<1> QED
  BY <1>2, <1>3, <1>4 DEF n, d

LEMMA TimesIs ==
  ASSUME NEW v \in Int, NEW ratio \in Int
  PROVE  /\ times(v, ratio) \in Int
         /\ 2000 * times(v, ratio) <= 2 * (v * ratio) + 1000
         /\ 2 * (v * ratio) + 1000 < 2000 * times(v, ratio) + 2000
<1> DEFINE n == v * ratio
<1>1. n \in Int
  OBVIOUS
<1> HIDE DEF n
<1>2. times(v, ratio) = round(n, 1000)
  BY DEF times, One, n
<1>3. 1000 \in Nat \ {0}
  OBVIOUS
<1>4. /\ round(n, 1000) \in Int
      /\ 2 * (1000 * round(n, 1000)) <= 2 * n + 1000
      /\ 2 * n + 1000 < 2 * (1000 * round(n, 1000)) + 2 * 1000
  BY <1>1, <1>3, RoundIs
<1> QED
  BY <1>2, <1>4 DEF n

\* The multiples of a step next to a bound.
LEMMA MultipleBelow ==
  ASSUME NEW m \in Int, NEW step \in Nat \ {0}
  PROVE  /\ (m \div step) * step \in Int
         /\ (m \div step) * step <= m /\ m < (m \div step) * step + step
OBVIOUS

LEMMA ProductOrder ==
  ASSUME NEW a \in Int, NEW b \in Int, NEW c \in Nat, a <= b
  PROVE  a * c <= b * c
OBVIOUS

LEMMA RoundToStepIs ==
  ASSUME NEW v \in Nat, NEW step \in Nat \ {0}
  PROVE  /\ roundToStep(v, step) \in Int
         /\ 20 * roundToStep(v, step) <= 2 * v + 10 * step
         /\ 2 * v + 10 * step < 20 * roundToStep(v, step) + 20 * step
<1> DEFINE b == step * 10
           k == round(v, b)
<1>1. b \in Nat \ {0} /\ v \in Int
  OBVIOUS
<1>2. roundToStep(v, step) = k * step
  BY <1>1, RoundIs DEF roundToStep, abs, Fine
<1>3. k \in Int /\ 2 * (b * k) <= 2 * v + b /\ 2 * v + b < 2 * (b * k) + 2 * b
  <2> HIDE DEF b
  <2> QED
    BY <1>1, RoundIs
<1> HIDE DEF k
<1>4. b * k = 10 * (k * step)
  BY <1>3
<1>5. k * step \in Int
  BY <1>3
<1> DEFINE r == k * step
<1> HIDE DEF r
<1>6. /\ r \in Int /\ 2 * (10 * r) <= 2 * v + step * 10
      /\ 2 * v + step * 10 < 2 * (10 * r) + 2 * (step * 10)
  BY <1>3, <1>4, <1>5 DEF r
<1> QED
  BY <1>2, <1>6 DEF r

\* A rounded price is inside its range whatever the step; and a price that was
\* inside it is rounded by half a step at most, or by less than a whole one at
\* the end of the range.
THEOREM RoundIntoRangeIs ==
  ASSUME NEW v \in Int, NEW min \in Nat \ {0}, NEW max \in Int, min <= max,
         NEW step \in Nat \ {0}
  PROVE  /\ roundIntoRange(v, min, max, step) \in min .. max
         /\ \A pin \in min .. max : v = pin * Fine =>
              LET off == abs(roundIntoRange(v, min, max, step) - pin)
              IN  \/ 2 * off <= step
                  \/ off < step /\ (2 * (pin - min) < step \/ 2 * (max - pin) < step)
<1> DEFINE clamped == clip(v, min * Fine, max * Fine)
           R == roundToStep(clamped, step)
           down == (max \div step) * step
           up == -((-min) \div step) * step
           price == roundIntoRange(v, min, max, step)
<1>1. clamped \in Nat /\ min * 10 <= clamped /\ clamped <= max * 10
  BY ClipIs DEF Fine
<1>2. \A pin \in min .. max : v = pin * Fine => clamped = pin * 10
  BY ClipIs DEF Fine
<1> HIDE DEF clamped
<1>3. /\ R \in Int /\ 20 * R <= 2 * clamped + 10 * step
      /\ 2 * clamped + 10 * step < 20 * R + 20 * step
  BY <1>1, RoundToStepIs
<1>4. down \in Int /\ down <= max /\ max < down + step
  BY MultipleBelow
<1>5. up \in Int /\ min <= up /\ up < min + step
  <2> DEFINE m == (-min) \div step
  <2>1. m * step \in Int /\ m * step <= -min /\ -min < m * step + step
    BY MultipleBelow
  <2>2. m \in Int
    OBVIOUS
  <2> HIDE DEF m
  <2>3. (-m) * step = -(m * step)
    BY <2>2
  <2>4. up = (-m) * step
    BY DEF m
  <2> DEFINE w == m * step
  <2> HIDE DEF w
  <2>5. up = -w /\ w \in Int /\ w <= -min /\ -min < w + step
    BY <2>1, <2>3, <2>4 DEF w
  <2> QED
    BY <2>5
<1>6. price = CASE R > max -> IF down >= min THEN down ELSE nearestBound(clamped, min, max)
                [] R < min -> IF up <= max THEN up ELSE nearestBound(clamped, min, max)
                [] OTHER -> R
  BY DEF roundIntoRange, clamped
<1>7. nearestBound(clamped, min, max)
        = IF clamped - min * 10 <= max * 10 - clamped THEN min ELSE max
  BY DEF nearestBound, Fine
<1> HIDE DEF R, down, up, price
<1>8. \/ R > max /\ down >= min /\ price = down
      \/ R > max /\ down < min /\ price = nearestBound(clamped, min, max)
      \/ R <= max /\ R < min /\ up <= max /\ price = up
      \/ R <= max /\ R < min /\ up > max /\ price = nearestBound(clamped, min, max)
      \/ R <= max /\ R >= min /\ price = R
  BY <1>3, <1>4, <1>5, <1>6
<1>9. price \in min .. max
  BY <1>1, <1>3, <1>4, <1>5, <1>7, <1>8
<1>10. ASSUME NEW pin \in min .. max, v = pin * Fine
       PROVE  LET off == abs(price - pin)
              IN  \/ 2 * off <= step
                  \/ off < step /\ (2 * (pin - min) < step \/ 2 * (max - pin) < step)
  <2>1. clamped = pin * 10
    BY <1>2, <1>10
  <2>2. price \in Int /\ abs(price - pin) = IF price - pin < 0 THEN pin - price ELSE price - pin
    BY <1>9 DEF abs
  <2>3. 2 * R <= 2 * pin + step /\ 2 * pin < 2 * R + step
    BY <1>3, <2>1
  <2>4. nearestBound(clamped, min, max) = IF pin - min <= max - pin THEN min ELSE max
    BY <1>7, <2>1
  <2> QED
    BY <1>3, <1>4, <1>5, <1>8, <2>2, <2>3, <2>4
<1> QED
  BY <1>9, <1>10 DEF price

-----------------------------------------------------------------------------
(* The engine.  A product as ProductState types it, and inside its range.  *)

ProductStates(Groups) ==
  [group : Groups, alcoholic : BOOLEAN, archived : BOOLEAN, order : Nat,
   base : Nat \ {0}, min : Nat \ {0}, max : Nat \ {0}, price : Nat, raw : Int,
   stock : Nat, stockInitial : Nat, demand : Nat, share : Nat, pin : Nat, until : Nat]

InRange(q) == /\ q.min <= q.base /\ q.base <= q.max
              /\ q.min <= q.price /\ q.price <= q.max

\* Where a pin holds the price: at the end of the range, when it is outside.
PinAt(q) == clip(q.pin, q.min, q.max)

LEMMA ParamsAre ==
  ASSUME NEW c, engineParamsSchema(c)
  PROVE  /\ c.ewmaLambda \in Nat /\ c.ewmaLambda <= 1000
         /\ c.demandSensitivity \in Nat /\ c.meanReversion \in Nat /\ c.stockPressure \in Nat
         /\ c.lowStockThreshold \in Nat
         /\ c.maxStepPct \in Nat /\ c.maxStepPct <= 500
         /\ c.roundingCents \in Nat \ {0} /\ c.renormalize \in BOOLEAN
         /\ validParams(c)
<1> DEFINE R == 0 .. 1000
           H == 0 .. 500
           P == 1 .. 100
<1>1. One \div 2 = 500 /\ One = 1000
  BY DEF One
<1>2. /\ \A n \in R : n \in Nat /\ n <= 1000
      /\ \A n \in H : n \in Nat /\ n <= 500 /\ n \in R
      /\ \A n \in P : n \in Nat \ {0} /\ n > 0
  OBVIOUS
<1>3. /\ {c.ewmaLambda, c.demandSensitivity, c.meanReversion, c.stockPressure,
          c.lowStockThreshold} \subseteq R
      /\ c.maxStepPct \in H
      /\ c.roundingCents \in P
      /\ c.renormalize \in BOOLEAN
  BY <1>1 DEF engineParamsSchema
<1> HIDE DEF R, H, P
<1>4. /\ c.ewmaLambda \in R /\ c.demandSensitivity \in R /\ c.meanReversion \in R
      /\ c.stockPressure \in R /\ c.lowStockThreshold \in R
  BY <1>3, Zenon
<1>5. c.maxStepPct \in R /\ c.roundingCents > 0
  BY <1>2, <1>3, Zenon
<1>6. validParams(c)
  <2>1. 0 .. One = R
    BY <1>1 DEF R
  <2>2. {c.maxStepPct, c.ewmaLambda, c.lowStockThreshold} \subseteq R
    BY <1>4, <1>5
  <2> QED
    BY <1>5, <2>1, <2>2 DEF validParams
<1>7. /\ c.ewmaLambda \in Nat /\ c.ewmaLambda <= 1000
      /\ c.demandSensitivity \in Nat /\ c.meanReversion \in Nat /\ c.stockPressure \in Nat
      /\ c.lowStockThreshold \in Nat
  BY <1>2, <1>4
<1>8. c.maxStepPct \in Nat /\ c.maxStepPct <= 500 /\ c.roundingCents \in Nat \ {0}
  BY <1>2, <1>3
<1> QED
  BY <1>3, <1>6, <1>7, <1>8, Zenon

LEMMA PreviousIs ==
  ASSUME NEW Groups, NEW q \in ProductStates(Groups), InRange(q)
  PROVE  /\ previousRawPrice(q) \in Nat
         /\ q.min * 10 <= previousRawPrice(q) /\ previousRawPrice(q) <= q.max * 10
         /\ 10 <= previousRawPrice(q)
<1>1. q.raw \in Int /\ q.min \in Nat \ {0} /\ q.max \in Nat \ {0} /\ q.min <= q.max
  BY DEF ProductStates, InRange
<1> QED
  BY <1>1, ClipIs DEF previousRawPrice, Fine

LEMMA NaturalProduct ==
  ASSUME NEW a \in Nat, NEW b \in Nat
  PROVE  a * b \in Nat
OBVIOUS

LEMMA DemandType ==
  ASSUME NEW Groups, NEW q \in ProductStates(Groups), NEW units \in Nat,
         NEW c, engineParamsSchema(c)
  PROVE  newDemand(q, units, c) \in Nat
<1> DEFINE a == c.ewmaLambda * units
           b == (1000 - c.ewmaLambda) * q.demand
<1>1. q.demand \in Nat /\ c.ewmaLambda \in Nat /\ c.ewmaLambda <= 1000
  BY ParamsAre DEF ProductStates
<1>2. a \in Nat /\ b \in Nat
  <2>1. 1000 - c.ewmaLambda \in Nat
    BY <1>1
  <2> QED
    BY <1>1, <2>1, NaturalProduct
<1>3. newDemand(q, units, c) = (a * 100 + b) \div 1000
  BY DEF newDemand, One
<1> HIDE DEF a, b
<1> QED
  BY <1>2, <1>3

LEMMA ShareType ==
  ASSUME NEW Groups, NEW G, IsFiniteSet(G), NEW products, NEW p \in G,
         \A o \in G : products[o] \in ProductStates(Groups)
  PROVE  expectedShare(products, G, p) \in Int
<1> DEFINE raw == [o \in G |-> IF products[o].share > 0 THEN products[o].share
                                                        ELSE One \div Cardinality(G)]
           total == SumFunction(raw)
<1>1. Cardinality(G) \in Nat \ {0}
  BY FS_CardinalityType, FS_EmptySet
<1>2. One \div Cardinality(G) \in Int
  BY <1>1 DEF One
<1>3. \A o \in G : raw[o] \in Int
  BY <1>2 DEF ProductStates
<1>4. total \in Int
  <2>1. DOMAIN raw = G
    OBVIOUS
  <2> HIDE DEF raw
  <2> QED
    BY <1>3, <2>1, SumType DEF SumFunction
<1>5. expectedShare(products, G, p) = IF total > 0 THEN round(raw[p] * One, total) ELSE 0
  BY DEF expectedShare
<1> HIDE DEF raw, total
<1>6. raw[p] * One \in Int
  BY <1>3 DEF One
<1>7. ASSUME total > 0
      PROVE  round(raw[p] * One, total) \in Int
  <2>1. total \in Nat \ {0}
    BY <1>4, <1>7
  <2> QED
    BY <1>6, <2>1, RoundIs
<1> QED
  BY <1>5, <1>7

LEMMA SignalsType ==
  ASSUME NEW Groups, NEW G, IsFiniteSet(G), NEW products, NEW p \in G,
         \A o \in G : products[o] \in ProductStates(Groups) /\ InRange(products[o]),
         NEW demand \in [G -> Nat], NEW c, engineParamsSchema(c)
  PROVE  LET s == signals(products, G, demand, p, c)
         IN  s.x \in Int /\ s.r \in Int /\ s.k \in Int
<1> DEFINE q == products[p]
           total == SumFunction(demand)
           expected == expectedShare(products, G, p)
           observed == IF total = 0 THEN expected ELSE round(demand[p] * One, total)
           stockRatio == IF q.stockInitial > 0 THEN (q.stock * One) \div q.stockInitial ELSE 0
<1>1. q \in ProductStates(Groups) /\ InRange(q)
  OBVIOUS
<1>2. expected \in Int
  BY ShareType
<1>3. total \in Nat
  BY SumNat DEF SumFunction
<1>4. observed \in Int
  <2>1. demand[p] * One \in Int
    BY DEF One
  <2> HIDE DEF total
  <2> QED
    BY <1>2, <1>3, <2>1, RoundIs
<1>5. stockRatio \in Int
  <2>1. q.stock \in Nat /\ q.stockInitial \in Nat
    BY <1>1 DEF ProductStates
  <2> HIDE DEF q
  <2> QED
    BY <2>1 DEF One
<1>6. previousRawPrice(q) \in Int
  BY <1>1, PreviousIs
<1>7. q.base \in Nat \ {0}
  BY <1>1 DEF ProductStates
<1>8. c.lowStockThreshold \in Nat
  BY ParamsAre
<1>9. signals(products, G, demand, p, c)
       = [x |-> IF expected > 0
                  THEN clip(round((observed - expected) * One, expected), -One, One) ELSE 0,
          r |-> round((previousRawPrice(q) - q.base * Fine) * One, q.base * Fine),
          k |-> IF c.lowStockThreshold > 0
                  THEN round(Max({0, c.lowStockThreshold - stockRatio}) * One,
                             c.lowStockThreshold) ELSE 0]
  BY DEF signals
<1> HIDE DEF q, total, expected, observed, stockRatio
<1>10. ASSUME expected > 0
       PROVE  clip(round((observed - expected) * One, expected), -One, One) \in Int
  <2>1. (observed - expected) * One \in Int
    BY <1>2, <1>4 DEF One
  <2>2. round((observed - expected) * One, expected) \in Int
    BY <1>2, <1>10, <2>1, RoundIs
  <2> QED
    BY <2>2, ClipIs DEF One
<1>11. round((previousRawPrice(q) - q.base * Fine) * One, q.base * Fine) \in Int
  <2>1. (previousRawPrice(q) - q.base * Fine) * One \in Int /\ q.base * Fine \in Nat \ {0}
    BY <1>6, <1>7 DEF One, Fine
  <2> QED
    BY <2>1, RoundIs
<1>12. ASSUME c.lowStockThreshold > 0
       PROVE  round(Max({0, c.lowStockThreshold - stockRatio}) * One,
                    c.lowStockThreshold) \in Int
  <2> DEFINE below == c.lowStockThreshold - stockRatio
  <2>3. below \in Int
    BY <1>5, <1>8
  <2> HIDE DEF below
  <2>1. Max({0, c.lowStockThreshold - stockRatio}) \in Int
    BY <2>3, MaxOfTwo DEF below
  <2>2. Max({0, c.lowStockThreshold - stockRatio}) * One \in Int
    BY <2>1 DEF One
  <2>4. c.lowStockThreshold \in Nat \ {0}
    BY <1>8, <1>12
  <2> QED
    BY <2>2, <2>4, RoundIs
<1> QED
  BY <1>9, <1>10, <1>11, <1>12

\* The step a product is asked to take is capped.
LEMMA DeltaIs ==
  ASSUME NEW s, s.x \in Int, s.r \in Int, s.k \in Int, NEW c, engineParamsSchema(c)
  PROVE  delta(s, c) \in -c.maxStepPct .. c.maxStepPct
<1> DEFINE x == s.x
           r == s.r
           k == s.k
           a == c.demandSensitivity
           b == c.meanReversion
           d == c.stockPressure
           n == a * x - b * r + d * k
<1>1. x \in Int /\ r \in Int /\ k \in Int /\ a \in Nat /\ b \in Nat /\ d \in Nat
  BY ParamsAre
<1>2. c.maxStepPct \in Nat /\ -c.maxStepPct \in Int /\ -c.maxStepPct <= c.maxStepPct
  BY ParamsAre
<1>3. n \in Int
  <2> HIDE DEF a, b, d, x, r, k
  <2> QED
    BY <1>1
<1>4. delta(s, c) = clip(round(n, One), -c.maxStepPct, c.maxStepPct)
  BY DEF delta
<1> HIDE DEF n
<1>5. round(n, One) \in Int
  BY <1>3, RoundIs DEF One
<1> QED
  BY <1>2, <1>4, <1>5, ClipIs

LEMMA MovedIs ==
  ASSUME NEW from \in Nat, 10 <= from, NEW step \in Int, NEW cap \in Nat, cap <= 500,
         step \in -cap .. cap
  PROVE  /\ from + times(from, step) \in Nat \ {0}
         /\ from + times(from, step) <= from + from \div 2 + 1
<1> DEFINE n == from * step
           t == times(from, step)
<1>1. n \in Int /\ -(from * 500) <= n /\ n <= from * 500
  <2>1. -500 <= step /\ step <= 500
    OBVIOUS
  <2>2. (-500) * from <= step * from /\ step * from <= 500 * from
    BY <2>1, ProductOrder
  <2>3. step * from = from * step /\ step * from \in Int
    OBVIOUS
  <2> QED
    BY <2>2, <2>3
<1>2. t \in Int /\ 2000 * t <= 2 * n + 1000 /\ 2 * n + 1000 < 2000 * t + 2000
  BY TimesIs
<1> HIDE DEF n, t
<1>3. from + t > 0 /\ from + t <= from + from \div 2 + 1
  BY <1>1, <1>2
<1> QED
  BY <1>2, <1>3 DEF t

\* The candidate obeys the cap and the range, and is no further from any price
\* than both the candidate and the price before.
LEMMA CappedIs ==
  ASSUME NEW Groups, NEW q \in ProductStates(Groups), InRange(q),
         NEW c, engineParamsSchema(c), NEW cand \in Int
  PROVE  LET from == previousRawPrice(q)
             to == Capped(q, cand, c)
         IN  /\ to \in Nat /\ q.min * 10 <= to /\ to <= q.max * 10
             /\ to - from <= times(from, c.maxStepPct)
             /\ from - to <= times(from, c.maxStepPct)
             /\ (from <= to /\ to <= cand) \/ (cand <= to /\ to <= from)
<1> DEFINE from == previousRawPrice(q)
           to == Capped(q, cand, c)
           cap == c.maxStepPct
           y == from * cap
           a == times(from, cap)
           low == times(from, One - cap)
           high == times(from, One + cap)
           min == q.min * Fine
           max == q.max * Fine
<1>1. from \in Nat /\ min \in Nat /\ max \in Nat /\ min <= from /\ from <= max
      /\ min = q.min * 10 /\ max = q.max * 10
  BY PreviousIs DEF Fine, ProductStates
<1>2. cap \in Nat /\ cap <= 500
  BY ParamsAre
<1>3. to = clip(clip(cand, low, high), min, max)
  BY DEF Capped
<1> HIDE DEF from, to, cap, min, max
<1>4. y \in Nat /\ from * (1000 - cap) = 1000 * from - y /\ from * (1000 + cap) = 1000 * from + y
  BY <1>1, <1>2, NaturalProduct
<1>5. 1000 - cap \in Int /\ 1000 + cap \in Int /\ from \in Int /\ cap \in Int
  BY <1>1, <1>2
<1>6. a \in Int /\ 2000 * a <= 2 * y + 1000 /\ 2 * y + 1000 < 2000 * a + 2000
  BY <1>5, TimesIs
<1>7. /\ low \in Int /\ 2000 * low <= 2 * (1000 * from - y) + 1000
      /\ 2 * (1000 * from - y) + 1000 < 2000 * low + 2000
  BY <1>4, <1>5, TimesIs DEF One
<1>8. /\ high \in Int /\ 2000 * high <= 2 * (1000 * from + y) + 1000
      /\ 2 * (1000 * from + y) + 1000 < 2000 * high + 2000
  BY <1>4, <1>5, TimesIs DEF One
<1> HIDE DEF y, a, low, high
<1>9. low <= from /\ from <= high /\ from - low <= a /\ high - from <= a
  BY <1>1, <1>4, <1>6, <1>7, <1>8
<1> DEFINE x == clip(cand, low, high)
<1>10. x = IF cand < low THEN low ELSE IF cand > high THEN high ELSE cand
  BY <1>1, <1>7, <1>8, <1>9, ClipIs
<1> HIDE DEF x
<1>11. x \in Int
  BY <1>7, <1>8, <1>10
<1>12. min \in Int /\ max \in Int /\ min <= max
  BY <1>1
<1>13. clip(x, min, max) = IF x < min THEN min ELSE IF x > max THEN max ELSE x
  BY <1>11, <1>12, ClipIs
<1>14. to = IF x < min THEN min ELSE IF x > max THEN max ELSE x
  BY <1>3, <1>13 DEF x
<1>15. /\ to \in Nat /\ min <= to /\ to <= max /\ to - from <= a /\ from - to <= a
       /\ (from <= to /\ to <= cand) \/ (cand <= to /\ to <= from)
  BY <1>1, <1>6, <1>7, <1>8, <1>9, <1>10, <1>11, <1>14
<1> QED
  BY <1>1, <1>15 DEF from, to, cap, a

\* Prices that are not zero have a weighted sum that is not zero.
LEMMA WeightedIs ==
  ASSUME NEW free, IsFiniteSet(free), NEW demand, \A p \in free : demand[p] \in Nat,
         NEW price, \A p \in free : price[p] \in Nat \ {0}
  PROVE  /\ weighted(free, demand, price) \in Nat
         /\ free # {} => weighted(free, demand, price) > 0
<1> DEFINE f == [p \in free |-> (demand[p] + 10) * price[p]]
<1>1. \A p \in free : f[p] \in Nat /\ f[p] > 0
  <2> TAKE p \in free
  <2> DEFINE d == demand[p] + 10
             v == price[p]
  <2>1. d \in Nat \ {0} /\ v \in Nat \ {0} /\ f[p] = d * v
    OBVIOUS
  <2> HIDE DEF d, v, f
  <2>2. d * v \in Nat /\ d * v >= d
    BY <2>1
  <2> QED
    BY <2>1, <2>2
<1>2. weighted(free, demand, price) = SumFunctionOnSet(f, free)
  BY DEF weighted, SumFunction
<1> HIDE DEF f
<1>3. SumFunctionOnSet(f, free) \in Nat /\ \A p \in free : f[p] <= SumFunctionOnSet(f, free)
  BY <1>1, SumNat
<1> QED
  BY <1>1, <1>2, <1>3

LEMMA CorrectedType ==
  ASSUME NEW Groups, NEW free, IsFiniteSet(free), NEW products,
         \A p \in free : products[p] \in ProductStates(Groups) /\ InRange(products[p]),
         NEW demand, \A p \in free : demand[p] \in Nat,
         NEW s \in [cand : [free -> Nat \ {0}], done : BOOLEAN]
  PROVE  corrected(products, free, demand, s) \in [cand : [free -> Nat \ {0}], done : BOOLEAN]
<1> DEFINE base == [p \in free |-> products[p].base * Fine]
           k == correction(products, free, demand, s.cand)
           w == weighted(free, demand, s.cand)
<1>1. \A p \in free : base[p] \in Nat \ {0} /\ s.cand[p] \in Nat \ {0}
  BY DEF ProductStates, Fine
<1>2. weighted(free, demand, base) \in Nat /\ w \in Nat
  <2> HIDE DEF base
  <2> QED
    BY <1>1, WeightedIs
<1>3. k = round(weighted(free, demand, base) * One, w)
  BY DEF correction
<1> HIDE DEF base, w, k
<1>4. SUFFICES ASSUME ~s.done, w > 0
               PROVE  corrected(products, free, demand, s)
                        \in [cand : [free -> Nat \ {0}], done : BOOLEAN]
  <2>1. s.done \/ w <= 0 => corrected(products, free, demand, s) = s
    BY DEF corrected, w
  <2>2. ~(w > 0) => w <= 0
    BY <1>2
  <2> QED
    BY <2>1, <2>2
<1>5. k \in Int
  <2>1. w \in Nat \ {0} /\ weighted(free, demand, base) * One \in Int
    BY <1>2, <1>4 DEF One
  <2> QED
    BY <1>3, <2>1, RoundIs
<1>6. \A p \in free : clip(times(s.cand[p], k), products[p].min * Fine, products[p].max * Fine)
                        \in Nat \ {0}
  <2> TAKE p \in free
  <2>1. times(s.cand[p], k) \in Int
    BY <1>1, <1>5, TimesIs
  <2>2. /\ products[p].min * Fine \in Nat \ {0} /\ products[p].max * Fine \in Nat
        /\ products[p].min * Fine <= products[p].max * Fine
    BY DEF ProductStates, InRange, Fine
  <2> QED
    BY <2>1, <2>2, ClipIs
<1>7. corrected(products, free, demand, s)
        = [cand |-> [p \in free |-> clip(times(s.cand[p], k), products[p].min * Fine,
                                                              products[p].max * Fine)],
           done |-> k = One]
  <2>1. ~(w <= 0)
    BY <1>2, <1>4
  <2> QED
    BY <1>4, <2>1 DEF corrected, w, k
<1> QED
  BY <1>6, <1>7

LEMMA RenormalizeType ==
  ASSUME NEW Groups, NEW free, IsFiniteSet(free), NEW products,
         \A p \in free : products[p] \in ProductStates(Groups) /\ InRange(products[p]),
         NEW demand, \A p \in free : demand[p] \in Nat,
         NEW cand \in [free -> Nat \ {0}]
  PROVE  renormalizeGroup(products, free, demand, cand) \in [free -> Nat \ {0}]
<1> DEFINE S == [cand : [free -> Nat \ {0}], done : BOOLEAN]
           next(s) == corrected(products, free, demand, s)
<1>1. \A s \in S : next(s) \in S
  BY CorrectedType
<1>2. [cand |-> cand, done |-> FALSE] \in S
  OBVIOUS
<1>3. \A s \in S : s.cand \in [free -> Nat \ {0}]
  OBVIOUS
<1>4. renormalizeGroup(products, free, demand, cand)
        = next(next(next(next(next([cand |-> cand, done |-> FALSE]))))).cand
  BY DEF renormalizeGroup
<1> HIDE DEF S, next
<1>5. next(next(next(next(next([cand |-> cand, done |-> FALSE]))))) \in S
  BY <1>1, <1>2
<1> QED
  BY <1>3, <1>4, <1>5

-----------------------------------------------------------------------------
(* A product alone in its group: renormalisation takes it to its base.     *)

LEMMA Cancel ==
  ASSUME NEW w \in Nat \ {0}, NEW a \in Int, NEW b \in Int
  PROVE  /\ w * a <= w * b => a <= b
         /\ w * a < w * b => a < b
OBVIOUS

factor(w, B, C) == round((w * B) * One, w * C)

\* The factor is told in thousandths, so it misses by half a thousandth of the
\* price it corrects, and the corrected price is rounded.
LEMMA FactorIs ==
  ASSUME NEW w \in Nat \ {0}, NEW B \in Nat, NEW C \in Nat \ {0}
  PROVE  /\ factor(w, B, C) \in Int /\ times(C, factor(w, B, C)) \in Int
         /\ 2000 * times(C, factor(w, B, C)) <= 2000 * B + C + 1000
         /\ 2000 * B < 2000 * times(C, factor(w, B, C)) + C + 1000
<1> DEFINE k == factor(w, B, C)
<1>9. k = round((w * B) * One, w * C)
  BY DEF factor
<1> HIDE DEF k
<1>1. PICK n \in Nat, d \in Nat \ {0} : n = w * B /\ d = w * C
  OBVIOUS
<1>2. /\ k \in Int
      /\ 2 * (d * k) <= 2 * (n * 1000) + d
      /\ 2 * (n * 1000) + d < 2 * (d * k) + 2 * d
  <2>1. k = round(n * One, d) /\ n * One \in Int /\ n * One = n * 1000
    BY <1>1, <1>9 DEF One
  <2> QED
    BY <2>1, RoundIs
<1>3. PICK Ck \in Int : Ck = C * k
  BY <1>2
<1>4. PICK t \in Int : /\ t = times(C, k)
                       /\ 2000 * t <= 2 * Ck + 1000 /\ 2 * Ck + 1000 < 2000 * t + 2000
  <2>1. times(C, k) = (2 * Ck + 1000) \div 2000
    BY <1>3 DEF times, round, One
  <2> QED
    BY <2>1
<1>5. d * k = w * Ck
  BY <1>1, <1>2, <1>3
<1>6. /\ w * (2 * Ck) = 2 * (w * Ck)
      /\ w * (2000 * B + C) = 2 * (n * 1000) + d
      /\ w * (2 * Ck + 2 * C) = 2 * (w * Ck) + 2 * d
  BY <1>1
<1>7. 2 * Ck <= 2000 * B + C
  <2>1. w * (2 * Ck) <= w * (2000 * B + C)
    BY <1>2, <1>5, <1>6
  <2>2. 2 * Ck \in Int /\ 2000 * B + C \in Int
    OBVIOUS
  <2> QED
    BY <2>1, <2>2, Cancel
<1>8. 2000 * B + C < 2 * Ck + 2 * C
  <2>1. w * (2000 * B + C) < w * (2 * Ck + 2 * C)
    BY <1>2, <1>5, <1>6
  <2>2. 2 * Ck + 2 * C \in Int /\ 2000 * B + C \in Int
    OBVIOUS
  <2> QED
    BY <2>1, <2>2, Cancel
<1> QED
  BY <1>2, <1>3, <1>4, <1>7, <1>8 DEF k

LEMMA SumOne ==
  ASSUME NEW f, NEW x, f[x] \in Int
  PROVE  SumFunctionOnSet(f, {x}) = f[x]
<1>1. IsFiniteSet({x}) /\ {x} \ {x} = {}
  BY FS_Singleton
<1> QED
  BY <1>1, SumTake, SumNothing

LEMMA WeightedOne ==
  ASSUME NEW p, NEW demand, demand[p] \in Nat, NEW price, price[p] \in Nat
  PROVE  weighted({p}, demand, price) = (demand[p] + 10) * price[p]
<1> DEFINE f == [o \in {p} |-> (demand[o] + 10) * price[o]]
           v == (demand[p] + 10) * price[p]
<1>1. v \in Int
  BY NaturalProduct
<1>2. f[p] = v /\ DOMAIN f = {p}
  OBVIOUS
<1>3. weighted({p}, demand, price) = SumFunctionOnSet(f, {p})
  BY <1>2 DEF weighted, SumFunction
<1> HIDE DEF f, v
<1>4. weighted({p}, demand, price) = v
  BY <1>1, <1>2, <1>3, SumOne
<1> QED
  BY <1>4 DEF v

LEMMA CorrectedAlone ==
  ASSUME NEW Groups, NEW p, NEW products,
         products[p] \in ProductStates(Groups), InRange(products[p]),
         NEW demand, demand[p] \in Nat,
         NEW s \in [cand : [{p} -> Nat \ {0}], done : BOOLEAN],
         LET top == products[p].max * 10
         IN  ~s.done => s.cand[p] <= top + top \div 2 + 1
  PROVE  LET top == products[p].max * 10
             t == corrected(products, {p}, demand, s)
         IN  /\ s.done => t = s
             /\ ~s.done => /\ t.cand[p] <= top
                           /\ abs(t.cand[p] - products[p].base * 10) <= top \div 1000 + 1
<1> DEFINE min == products[p].min * 10
           max == products[p].max * 10
           B == products[p].base * 10
           C == s.cand[p]
           w == demand[p] + 10
           base == [o \in {p} |-> products[o].base * Fine]
           k == correction(products, {p}, demand, s.cand)
           t == corrected(products, {p}, demand, s)
<1>1. SUFFICES ASSUME ~s.done
               PROVE  t.cand[p] <= max /\ abs(t.cand[p] - B) <= max \div 1000 + 1
  BY DEF corrected
<1>2. /\ C \in Nat \ {0} /\ B \in Nat \ {0} /\ w \in Nat \ {0} /\ min \in Nat /\ max \in Nat
      /\ min <= B /\ B <= max /\ base[p] = B
  BY DEF ProductStates, InRange, Fine
<1>3. C <= max + max \div 2 + 1
  BY <1>1
<1>4. weighted({p}, demand, s.cand) = w * C
  <2>1. s.cand[p] \in Nat
    BY <1>2
  <2> QED
    BY <2>1, WeightedOne
<1>5. weighted({p}, demand, base) = w * B
  <2> HIDE DEF base
  <2>1. base[p] \in Nat
    BY <1>2
  <2>2. weighted({p}, demand, base) = w * base[p]
    BY <2>1, WeightedOne
  <2> QED
    BY <1>2, <2>2
<1>6. k = round(weighted({p}, demand, base) * One, weighted({p}, demand, s.cand))
  BY DEF correction
<1>7. ~(weighted({p}, demand, s.cand) <= 0)
  <2> HIDE DEF w, C
  <2>1. w * C \in Nat /\ w * C > 0
    BY <1>2
  <2> QED
    BY <1>4, <2>1
<1>8. t.cand[p] = clip(times(C, k), min, max)
  BY <1>1, <1>7 DEF corrected, Fine
<1> HIDE DEF min, max, B, C, w, k, t, base
<1>9. /\ k \in Int /\ times(C, k) \in Int
      /\ 2000 * times(C, k) <= 2000 * B + C + 1000
      /\ 2000 * B < 2000 * times(C, k) + C + 1000
  <2>1. k = factor(w, B, C)
    BY <1>4, <1>5, <1>6 DEF factor
  <2> QED
    BY <1>2, <2>1, FactorIs
<1> DEFINE x == times(C, k)
<1> HIDE DEF x
<1>10. x \in Int /\ 2000 * x <= 2000 * B + C + 1000 /\ 2000 * B < 2000 * x + C + 1000
  BY <1>9 DEF x
<1>11. t.cand[p] = IF x < min THEN min ELSE IF x > max THEN max ELSE x
  <2>1. min \in Int /\ max \in Int /\ min <= max
    BY <1>2
  <2> QED
    BY <1>8, <1>10, <2>1, ClipIs DEF x
<1>12. x - B <= max \div 1000 + 1 /\ B - x <= max \div 1000 + 1
  BY <1>2, <1>3, <1>10
<1> QED
  BY <1>2, <1>10, <1>11, <1>12 DEF abs

LEMMA RenormalizeAlone ==
  ASSUME NEW Groups, NEW p, NEW products,
         products[p] \in ProductStates(Groups), InRange(products[p]),
         NEW demand, demand[p] \in Nat, NEW cand \in [{p} -> Nat \ {0}],
         LET top == products[p].max * 10
         IN  cand[p] <= top + top \div 2 + 1
  PROVE  LET top == products[p].max * 10
             r == renormalizeGroup(products, {p}, demand, cand)
         IN  r[p] \in Nat /\ abs(r[p] - products[p].base * 10) <= top \div 1000 + 1
<1> DEFINE top == products[p].max * 10
           S == [cand : [{p} -> Nat \ {0}], done : BOOLEAN]
           T == {s \in S : /\ s.cand[p] <= top
                           /\ abs(s.cand[p] - products[p].base * 10) <= top \div 1000 + 1}
           next(s) == corrected(products, {p}, demand, s)
           start == [cand |-> cand, done |-> FALSE]
<1>1. \A s \in S : next(s) \in S
  <2>1. IsFiniteSet({p})
    BY FS_Singleton
  <2> QED
    BY <2>1, CorrectedType
<1>2. start \in S
  OBVIOUS
<1>3. top \in Nat
  BY DEF ProductStates
<1>9. \A s \in S : (~s.done => s.cand[p] <= top + top \div 2 + 1) =>
        \/ next(s) = s
        \/ next(s).cand[p] <= top /\ abs(next(s).cand[p] - products[p].base * 10)
                                         <= top \div 1000 + 1
  BY CorrectedAlone
<1>4. next(start) \in T
  <2>1. start.cand[p] <= top + top \div 2 + 1 /\ ~start.done
    OBVIOUS
  <2> HIDE DEF start
  <2>2. next(start).cand[p] <= top /\ abs(next(start).cand[p] - products[p].base * 10)
                                       <= top \div 1000 + 1
    BY <1>2, <2>1, CorrectedAlone
  <2>3. next(start) \in S
    BY <1>1, <1>2
  <2> HIDE DEF next, S, top
  <2> QED
    BY <2>2, <2>3
<1>5. ASSUME NEW s \in T
      PROVE  next(s) \in T
  <2>1. s \in S /\ s.cand[p] <= top
    OBVIOUS
  <2>2. s.cand[p] <= top + top \div 2 + 1
    <3>1. s.cand[p] \in Nat
      BY <2>1
    <3> HIDE DEF top
    <3> QED
      BY <1>3, <2>1, <3>1
  <2>3. next(s) \in S
    BY <1>1, <2>1
  <2>4. \/ next(s) = s
        \/ next(s).cand[p] <= top /\ abs(next(s).cand[p] - products[p].base * 10)
                                         <= top \div 1000 + 1
    <3> HIDE DEF next, S, T, top
    <3> QED
      BY <1>9, <2>1, <2>2
  <2> HIDE DEF next, S, top
  <2> QED
    BY <2>1, <2>3, <2>4
<1>6. renormalizeGroup(products, {p}, demand, cand) = next(next(next(next(next(start))))).cand
  BY DEF renormalizeGroup
<1>7. \A s \in T : /\ s.cand[p] \in Nat
                   /\ abs(s.cand[p] - products[p].base * 10) <= top \div 1000 + 1
  OBVIOUS
<1> HIDE DEF next, start, S, T
<1>8. next(next(next(next(next(start))))) \in T
  BY <1>4, <1>5
<1> QED
  BY <1>6, <1>7, <1>8

\* What a tick makes of one product.
Ticked(Groups, q, r, c) ==
  /\ r \in ProductStates(Groups) /\ InRange(r)
  /\ r = [q EXCEPT !.price = r.price, !.raw = r.raw, !.demand = r.demand, !.pin = r.pin]

\* What it makes of p, one of the group G.
GroupTicked(Groups, p, G, q, r, tick, c) ==
  LET from == previousRawPrice(q) IN
  /\ Ticked(Groups, q, r, c)
  /\ overrideAppliesAt(q, tick) =>
       r.pin = q.pin
       /\ r.price = roundIntoRange(PinAt(q) * Fine, q.min, q.max, c.roundingCents)
  /\ ~overrideAppliesAt(q, tick) =>
       /\ r.pin = 0
       /\ abs(r.raw - from) <= times(from, c.maxStepPct)
       /\ c.renormalize /\ G = {p} =>
            abs(r.raw - q.base * 10) <= Max({(q.max * 10) \div 1000 + 1,
                                             abs(from - q.base * 10)})
       /\ q.min = q.max => r.raw = q.base * 10

LEMMA RunGroupIs ==
  ASSUME NEW Groups, NEW G, IsFiniteSet(G), NEW products,
         \A o \in G : products[o] \in ProductStates(Groups) /\ InRange(products[o]),
         NEW units, \A o \in G : units[o] \in Nat, NEW tick,
         NEW c, engineParamsSchema(c), NEW p \in G
  PROVE  GroupTicked(Groups, p, G, products[p], runGroup(products, G, tick, c, units)[p], tick, c)
<1> DEFINE demand == [o \in G |-> newDemand(products[o], units[o], c)]
           free == {o \in G : ~overrideAppliesAt(products[o], tick)}
           moved == [o \in free |->
                       LET previous == previousRawPrice(products[o])
                           step == delta(signals(products, G, demand, o, c), c)
                       IN  previous + times(previous, step)]
           candidate == IF c.renormalize /\ free # {}
                          THEN renormalizeGroup(products, free, demand, moved) ELSE moved
           raw == [o \in G |-> IF o \in free THEN Capped(products[o], candidate[o], c)
                               ELSE clip(products[o].pin * Fine, products[o].min * Fine,
                                         products[o].max * Fine)]
           q == products[p]
           from == previousRawPrice(q)
           price == roundIntoRange(raw[p], q.min, q.max, c.roundingCents)
           r == runGroup(products, G, tick, c, units)[p]
<1>1. r = [q EXCEPT !.price = price, !.raw = raw[p], !.demand = demand[p],
                    !.pin = IF p \in free THEN 0 ELSE @]
  BY DEF runGroup
<1>2. demand \in [G -> Nat]
  BY DemandType
<1>3. IsFiniteSet(free) /\ free \subseteq G
  BY FS_Subset
<1>4. \A o \in free : /\ moved[o] \in Nat \ {0}
                      /\ moved[o] <= previousRawPrice(products[o])
                                     + previousRawPrice(products[o]) \div 2 + 1
  <2> TAKE o \in free
  <2> DEFINE step == delta(signals(products, G, demand, o, c), c)
             was == previousRawPrice(products[o])
  <2>1. was \in Nat /\ 10 <= was
    BY PreviousIs
  <2>2. step \in -c.maxStepPct .. c.maxStepPct
    <3> HIDE DEF demand
    <3> DEFINE s == signals(products, G, demand, o, c)
    <3>1. s.x \in Int /\ s.r \in Int /\ s.k \in Int
      BY <1>2, <1>3, SignalsType
    <3> HIDE DEF s
    <3>2. delta(s, c) \in -c.maxStepPct .. c.maxStepPct
      BY <3>1, DeltaIs
    <3> QED
      BY <3>2 DEF s
  <2>3. moved[o] = was + times(was, step)
    OBVIOUS
  <2> HIDE DEF moved, step, was, demand, free
  <2>4. PICK cap \in Nat : cap <= 500 /\ step \in -cap .. cap
    BY <2>2, ParamsAre
  <2>5. step \in Int
    BY <2>4
  <2>6. was + times(was, step) \in Nat \ {0} /\ was + times(was, step) <= was + was \div 2 + 1
    BY <2>1, <2>4, <2>5, MovedIs
  <2> QED
    BY <2>3, <2>6 DEF was
<1>5. moved \in [free -> Nat \ {0}]
  <2>1. moved = [o \in free |-> moved[o]]
    OBVIOUS
  <2> HIDE DEF moved
  <2> QED
    BY <1>4, <2>1
<1>6. q \in ProductStates(Groups) /\ InRange(q)
  OBVIOUS
<1>7. /\ q.min \in Nat \ {0} /\ q.max \in Nat \ {0} /\ q.base \in Nat \ {0} /\ q.pin \in Nat
      /\ q.min <= q.max /\ q.min <= q.base /\ q.base <= q.max
      /\ c.roundingCents \in Nat \ {0}
  BY <1>6, ParamsAre DEF ProductStates, InRange
<1>8. p \notin free => raw[p] = PinAt(q) * 10 /\ PinAt(q) \in Nat
  <2>1. SUFFICES ASSUME p \notin free
                 PROVE  raw[p] = PinAt(q) * 10 /\ PinAt(q) \in Nat
    OBVIOUS
  <2>2. raw[p] = clip(q.pin * Fine, q.min * Fine, q.max * Fine)
    BY <2>1
  <2> HIDE DEF raw, q
  <2>3. PICK pin \in Nat, min \in Nat \ {0}, max \in Nat \ {0} :
             pin = q.pin /\ min = q.min /\ max = q.max /\ min <= max
    BY <1>7
  <2>4. clip(pin * 10, min * 10, max * 10)
          = IF pin * 10 < min * 10 THEN min * 10
            ELSE IF pin * 10 > max * 10 THEN max * 10 ELSE pin * 10
    BY <2>3, ClipIs
  <2>5. clip(pin, min, max) = IF pin < min THEN min ELSE IF pin > max THEN max ELSE pin
    BY <2>3, ClipIs
  <2> QED
    BY <2>2, <2>3, <2>4, <2>5 DEF Fine, PinAt
<1> HIDE DEF moved, demand
<1>9. candidate \in [free -> Nat \ {0}]
  <2>1. \A o \in free : demand[o] \in Nat
    BY <1>2, <1>3
  <2>2. \A o \in free : products[o] \in ProductStates(Groups) /\ InRange(products[o])
    BY <1>3
  <2> HIDE DEF free
  <2>3. renormalizeGroup(products, free, demand, moved) \in [free -> Nat \ {0}]
    BY <1>3, <1>5, <2>1, <2>2, RenormalizeType
  <2> QED
    BY <1>5, <2>3
<1>10. p \in free => raw[p] = Capped(q, candidate[p], c) /\ candidate[p] \in Int
  <2>1. p \in free => raw[p] = Capped(q, candidate[p], c)
    OBVIOUS
  <2> HIDE DEF candidate, free
  <2> QED
    BY <1>9, <2>1
<1>11. from \in Nat /\ from <= q.max * 10 /\ q.min * 10 <= from
  BY <1>6, PreviousIs
<1>12. p \in free =>
         /\ raw[p] \in Nat /\ q.min * 10 <= raw[p] /\ raw[p] <= q.max * 10
         /\ raw[p] - from <= times(from, c.maxStepPct)
         /\ from - raw[p] <= times(from, c.maxStepPct)
         /\ (from <= raw[p] /\ raw[p] <= candidate[p]) \/ (candidate[p] <= raw[p] /\ raw[p] <= from)
  <2> HIDE DEF candidate, free, raw, q
  <2> QED
    BY <1>6, <1>10, CappedIs
<1>13. p \in free /\ c.renormalize /\ G = {p} =>
         abs(candidate[p] - q.base * 10) <= (q.max * 10) \div 1000 + 1
  <2>1. SUFFICES ASSUME p \in free, c.renormalize, G = {p}
                 PROVE  abs(candidate[p] - q.base * 10) <= (q.max * 10) \div 1000 + 1
    OBVIOUS
  <2>2. free = {p}
    BY <2>1
  <2>3. candidate = renormalizeGroup(products, {p}, demand, moved)
    BY <2>1, <2>2
  <2>4. demand[p] \in Nat /\ moved \in [{p} -> Nat \ {0}]
    BY <1>2, <1>5, <2>2
  <2>5. moved[p] <= q.max * 10 + (q.max * 10) \div 2 + 1
    <3>1. moved[p] \in Nat /\ moved[p] <= from + from \div 2 + 1
      BY <1>4, <2>1
    <3> HIDE DEF from, q
    <3> QED
      BY <1>7, <1>11, <3>1
  <2> HIDE DEF candidate, free
  <2> QED
    BY <1>6, <2>3, <2>4, <2>5, RenormalizeAlone
<1>14. raw[p] \in Nat
  BY <1>7, <1>8, <1>12
<1>15. price \in q.min .. q.max
  <2> HIDE DEF raw, q
  <2>1. raw[p] \in Int /\ q.max \in Int
    BY <1>7, <1>14
  <2> QED
    BY <1>7, <2>1, RoundIntoRangeIs
<1>16. r \in ProductStates(Groups) /\ r.min = q.min /\ r.max = q.max /\ r.base = q.base
       /\ r.price = price /\ r.raw = raw[p] /\ r.demand = demand[p]
       /\ r.pin = IF p \in free THEN 0 ELSE q.pin
  <2> DEFINE pin == IF p \in free THEN 0 ELSE q.pin
  <2>1. demand[p] \in Nat /\ price \in Nat /\ raw[p] \in Int /\ pin \in Nat
    BY <1>2, <1>7, <1>14, <1>15
  <2>2. r = [q EXCEPT !.price = price, !.raw = raw[p], !.demand = demand[p], !.pin = pin]
    <3> HIDE DEF price, raw, demand, free, q, r
    <3> QED
      BY <1>1
  <2> HIDE DEF price, raw, demand, free, q, r, pin
  <2>3. /\ r \in ProductStates(Groups) /\ r.min = q.min /\ r.max = q.max /\ r.base = q.base
        /\ r.price = price /\ r.raw = raw[p] /\ r.demand = demand[p] /\ r.pin = pin
    <3>1. PICK x \in ProductStates(Groups), v \in Nat, w \in Int, d \in Nat, n \in Nat :
            x = q /\ v = price /\ w = raw[p] /\ d = demand[p] /\ n = pin
      BY <1>6, <2>1
    <3>2. r = [x EXCEPT !.price = v, !.raw = w, !.demand = d, !.pin = n]
      BY <2>2, <3>1
    <3>3. /\ r \in ProductStates(Groups) /\ r.min = x.min /\ r.max = x.max /\ r.base = x.base
          /\ r.price = v /\ r.raw = w /\ r.demand = d /\ r.pin = n
      BY <3>2 DEF ProductStates
    <3> QED
      BY <3>1, <3>3
  <2> QED
    BY <2>3 DEF pin
<1>17. r = [q EXCEPT !.price = r.price, !.raw = r.raw, !.demand = r.demand, !.pin = r.pin]
  <2> HIDE DEF price, raw, demand, free, q, r
  <2>1. r = [q EXCEPT !.price = price, !.raw = raw[p], !.demand = demand[p],
                      !.pin = IF p \in free THEN 0 ELSE q.pin]
    BY <1>1
  <2> QED
    BY <1>16, <2>1, Zenon
<1>18. Ticked(Groups, q, r, c)
  <2> HIDE DEF price, raw, demand, free, q, r
  <2> QED
    BY <1>6, <1>7, <1>15, <1>16, <1>17 DEF Ticked, InRange
<1>19. p \notin free => r.pin = q.pin /\ r.price = roundIntoRange(PinAt(q) * Fine, q.min, q.max,
                                                                c.roundingCents)
  <2> HIDE DEF raw, demand, free, q, r
  <2> QED
    BY <1>8, <1>16 DEF Fine
<1>20. p \in free =>
         /\ r.pin = 0
         /\ abs(r.raw - from) <= times(from, c.maxStepPct)
         /\ q.min = q.max => r.raw = q.base * 10
  <2> HIDE DEF price, candidate, raw, demand, free, q, r, from
  <2> QED
    BY <1>7, <1>11, <1>12, <1>16 DEF abs
<1>21. p \in free /\ c.renormalize /\ G = {p} =>
         abs(r.raw - q.base * 10) <= Max({(q.max * 10) \div 1000 + 1, abs(from - q.base * 10)})
  <2>1. SUFFICES ASSUME p \in free, c.renormalize, G = {p}
                 PROVE  abs(r.raw - q.base * 10) <= Max({(q.max * 10) \div 1000 + 1,
                                                         abs(from - q.base * 10)})
    OBVIOUS
  <2>2. candidate[p] \in Int
    BY <1>10, <2>1
  <2> HIDE DEF price, candidate, raw, demand, free, q, r, from
  <2>3. PICK a \in Int, b \in Int : a = (q.max * 10) \div 1000 + 1 /\ b = abs(from - q.base * 10)
    BY <1>7, <1>11 DEF abs
  <2>4. Max({a, b}) = IF a >= b THEN a ELSE b
    BY MaxOfTwo
  <2>5. abs(raw[p] - q.base * 10) <= a \/ abs(raw[p] - q.base * 10) <= b
    BY <1>7, <1>11, <1>12, <1>13, <1>14, <2>1, <2>2, <2>3 DEF abs
  <2>6. abs(raw[p] - q.base * 10) \in Int
    BY <1>7, <1>14 DEF abs
  <2> QED
    BY <1>16, <2>3, <2>4, <2>5, <2>6
<1>22. overrideAppliesAt(q, tick) <=> p \notin free
  OBVIOUS
<1> HIDE DEF price, candidate, raw, demand, free, q, r, from
<1>23. GroupTicked(Groups, p, G, q, r, tick, c)
  BY <1>18, <1>19, <1>20, <1>21, <1>22, Zenon DEF GroupTicked, from
<1> QED
  BY <1>23 DEF q, r

\* What it makes of p, one of the products.
ProductTicked(Groups, p, products, r, tick, c) ==
  LET q == products[p]
      from == previousRawPrice(q)
  IN  /\ Ticked(Groups, q, r, c)
      /\ q.stock = 0 => r = q
      /\ q.stock # 0 /\ overrideAppliesAt(q, tick) =>
           r.pin = q.pin
           /\ r.price = roundIntoRange(PinAt(q) * Fine, q.min, q.max, c.roundingCents)
      /\ q.stock # 0 /\ ~overrideAppliesAt(q, tick) =>
           /\ r.pin = 0
           /\ abs(r.raw - from) <= times(from, c.maxStepPct)
           /\ q.group \in engineWarnings(products, c) =>
                abs(r.raw - q.base * 10) <= Max({(q.max * 10) \div 1000 + 1,
                                                 abs(from - q.base * 10)})

\* What a tick of the engine does to each product, for any catalogue in range,
\* any sales and any parameters an organiser can set: it is total, no price
\* leaves its range, and the moves obey pin, step cap and base.
THEOREM TickIs ==
  ASSUME NEW Groups, NEW products, IsFiniteSet(DOMAIN products),
         \A o \in DOMAIN products : products[o] \in ProductStates(Groups) /\ InRange(products[o]),
         NEW units, \A o \in DOMAIN products : units[o] \in Nat, NEW tick,
         NEW c, engineParamsSchema(c), NEW p \in DOMAIN products
  PROVE  ProductTicked(Groups, p, products, runTick(products, tick, c, units)[p], tick, c)
<1> DEFINE q == products[p]
           from == previousRawPrice(q)
           G == GroupOf(products, p)
           r == runTick(products, tick, c, units)[p]
<1>1. q \in ProductStates(Groups) /\ InRange(q)
  OBVIOUS
<1>2. CASE q.stock = 0
  <2>1. r = q
    BY <1>2 DEF runTick
  <2>2. q = [q EXCEPT !.price = q.price, !.raw = q.raw, !.demand = q.demand, !.pin = q.pin]
    <3> HIDE DEF q
    <3> QED
      BY <1>1 DEF ProductStates
  <2>3. Ticked(Groups, q, r, c)
    <3> HIDE DEF q, r
    <3> QED
      BY <1>1, <2>1, <2>2 DEF Ticked
  <2>4. ProductTicked(Groups, p, products, r, tick, c)
    <3> HIDE DEF r
    <3> QED
      BY <1>2, <2>1, <2>3 DEF ProductTicked
  <2> QED
    BY <2>4
<1>3. CASE q.stock # 0
  <2>1. p \in G /\ G \subseteq DOMAIN products /\ IsFiniteSet(G)
    <3>1. q.stock \in Nat
      BY <1>1 DEF ProductStates
    <3>2. p \in G /\ G \subseteq DOMAIN products
      BY <1>3, <3>1 DEF GroupOf, Active
    <3> HIDE DEF G
    <3> QED
      BY <3>2, FS_Subset
  <2>2. r = runGroup(products, G, tick, c, units)[p]
    BY <1>3 DEF runTick
  <2> HIDE DEF G, r
  <2>3. /\ \A o \in G : products[o] \in ProductStates(Groups) /\ InRange(products[o])
        /\ \A o \in G : units[o] \in Nat
    BY <2>1
  <2>4. GroupTicked(Groups, p, G, q, r, tick, c)
    BY <2>1, <2>2, <2>3, RunGroupIs
  <2>5. ASSUME q.group \in engineWarnings(products, c)
        PROVE  (c.renormalize /\ G = {p}) \/ q.min = q.max
    <3>1. PICK o \in Active(products) :
            /\ products[o].group = q.group
            /\ \/ c.renormalize /\ Cardinality(GroupOf(products, o)) < 2
               \/ \A other \in GroupOf(products, o) : products[other].min = products[other].max
      BY <2>5 DEF engineWarnings
    <3>2. GroupOf(products, o) = G
      BY <3>1 DEF GroupOf, G
    <3>3. CASE c.renormalize /\ Cardinality(G) < 2
      <4>1. Cardinality(G) \in Nat /\ Cardinality(G \ {p}) \in Nat
            /\ Cardinality(G \ {p}) = Cardinality(G) - 1 /\ IsFiniteSet(G \ {p})
        BY <2>1, FS_RemoveElement, FS_CardinalityType
      <4>2. Cardinality(G \ {p}) = 0
        BY <3>3, <4>1
      <4>3. G \ {p} = {}
        BY <4>1, <4>2, FS_EmptySet
      <4> QED
        BY <2>1, <3>3, <4>3
    <3>4. CASE \A other \in G : products[other].min = products[other].max
      BY <2>1, <3>4
    <3> QED
      BY <3>1, <3>2, <3>3, <3>4
  <2>6. ASSUME q.min = q.max, r.raw = q.base * 10
        PROVE  abs(r.raw - q.base * 10) <= Max({(q.max * 10) \div 1000 + 1,
                                                abs(from - q.base * 10)})
    <3>1. from \in Nat /\ q.base \in Nat /\ q.max \in Nat
      BY <1>1, PreviousIs DEF ProductStates
    <3> HIDE DEF from, q
    <3>2. PICK a \in Int, b \in Int : /\ a = (q.max * 10) \div 1000 + 1
                                      /\ b = abs(from - q.base * 10) /\ b >= 0
      BY <3>1 DEF abs
    <3>3. Max({a, b}) = IF a >= b THEN a ELSE b
      BY MaxOfTwo
    <3>4. abs(r.raw - q.base * 10) = 0
      BY <2>6, <3>1 DEF abs
    <3> QED
      BY <3>2, <3>3, <3>4
  <2>7. /\ Ticked(Groups, q, r, c)
        /\ overrideAppliesAt(q, tick) =>
             r.pin = q.pin
             /\ r.price = roundIntoRange(PinAt(q) * Fine, q.min, q.max, c.roundingCents)
        /\ ~overrideAppliesAt(q, tick) => r.pin = 0
        /\ ~overrideAppliesAt(q, tick) => abs(r.raw - from) <= times(from, c.maxStepPct)
        /\ ~overrideAppliesAt(q, tick) /\ c.renormalize /\ G = {p} =>
             abs(r.raw - q.base * 10) <= Max({(q.max * 10) \div 1000 + 1,
                                              abs(from - q.base * 10)})
        /\ ~overrideAppliesAt(q, tick) /\ q.min = q.max => r.raw = q.base * 10
    BY <2>4, Zenon DEF GroupTicked
  <2>8. ~overrideAppliesAt(q, tick) /\ q.group \in engineWarnings(products, c) =>
          abs(r.raw - q.base * 10) <= Max({(q.max * 10) \div 1000 + 1,
                                           abs(from - q.base * 10)})
    BY <2>5, <2>6, <2>7, Zenon
  <2>9. ProductTicked(Groups, p, products, r, tick, c)
    BY <1>3, <2>7, <2>8, Zenon DEF ProductTicked
  <2> QED
    BY <2>9 DEF r
<1> QED
  BY <1>2, <1>3

=============================================================================
