------------------------------ MODULE SumTheorems ------------------------------
(***************************************************************************)
(* Sums over finite sets, as SumFunctionOnSet of the community modules     *)
(* defines them: what the models count budgets, visits, episodes and       *)
(* tensors with.  SumFunctionOnSet folds along a recursive function on the *)
(* subsets of the set, which a CHOOSE picks; that there is one, and that   *)
(* it does not matter which element is taken first, are inductions over    *)
(* cardinality, from the well-foundedness of < on the naturals.            *)
(***************************************************************************)
EXTENDS Integers, Functions, FiniteSetTheorems, TLAPS

(* A set of numbers with 0 and every successor is all of them.             *)
LEMMA NatSetInduction ==
  ASSUME NEW S, 0 \in S, \A n \in Nat : n \in S => n + 1 \in S
  PROVE  \A n \in Nat : n \in S
<1> DEFINE T == Nat \ S
<1> SUFFICES ASSUME T # {} PROVE FALSE
  OBVIOUS
<1>1. PICK m \in T : \A k \in T : ~(<<k, m>> \in OpToRel(<, Nat))
  <2> HIDE DEF T
  <2>1. T \subseteq Nat
    BY DEF T
  <2> QED BY <2>1, WFMin, NatLessThanWellFounded
<1>2. m # 0 /\ m - 1 \in Nat /\ (m - 1) + 1 = m
  OBVIOUS
<1>3. m - 1 \in T
  BY <1>2
<1>4. <<m - 1, m>> \in OpToRel(<, Nat)
  BY <1>2 DEF OpToRel
<1> QED BY <1>1, <1>3, <1>4

(* The element a fold takes out of a set. *)
Pick(s) == CHOOSE x \in s : TRUE

(* g sums f over each set of a class C of sets.  *)
Adds(g, f, C) ==
  g = [s \in C |-> IF s = {} THEN 0 ELSE f[Pick(s)] + g[s \ {Pick(s)}]]

Sums(g, f, D) == Adds(g, f, SUBSET D)

(* If there is such a g over the subsets of D, a sum is one's value at D.  *)
LEMMA SumIs ==
  ASSUME NEW f, NEW D, \E g : Sums(g, f, D)
  PROVE  \E g : Sums(g, f, D) /\ SumFunctionOnSet(f, D) = g[D]
BY DEF SumFunctionOnSet, FoldFunctionOnSet, MapThenFoldSet, Sums, Adds, Pick

(* The subsets of D of at most n elements. *)
Smaller(D, n) == {s \in SUBSET D : Cardinality(s) <= n}

(* There is one for every finite D: a g for the sets of at most n elements *)
(* makes one for those of at most n + 1.                                   *)
LEMMA AddsExists == ASSUME NEW f, NEW D, IsFiniteSet(D) PROVE \E g : Sums(g, f, D)
<1> DEFINE N == {n \in Nat : \E g : Adds(g, f, Smaller(D, n))}
<1>0. \A s \in SUBSET D : IsFiniteSet(s) /\ Cardinality(s) \in Nat /\ Cardinality(s) <= Cardinality(D)
  BY FS_Subset, FS_CardinalityType
<1>1. 0 \in N
  <2> DEFINE g == [s \in Smaller(D, 0) |-> 0]
  <2>1. \A s \in Smaller(D, 0) : s = {}
    BY <1>0, FS_EmptySet DEF Smaller
  <2>2. Adds(g, f, Smaller(D, 0))
    BY <2>1 DEF Adds
  <2> QED BY <2>2
<1>2. ASSUME NEW n \in Nat, n \in N PROVE n + 1 \in N
  <2>1. PICK g : Adds(g, f, Smaller(D, n))
    BY <1>2
  <2> DEFINE h == [s \in Smaller(D, n + 1) |-> IF s = {} THEN 0 ELSE f[Pick(s)] + g[s \ {Pick(s)}]]
  <2>2. ASSUME NEW s \in Smaller(D, n + 1), s # {} PROVE h[s \ {Pick(s)}] = g[s \ {Pick(s)}]
    <3> DEFINE r == s \ {Pick(s)}
    <3>1. Pick(s) \in s
      BY <2>2 DEF Pick
    <3>2. s \in SUBSET D /\ r \in SUBSET D /\ Cardinality(s) <= n + 1
      BY DEF Smaller
    <3>3. Cardinality(r) = Cardinality(s) - 1
      BY <1>0, <3>1, <3>2, FS_RemoveElement
    <3>4. r \in Smaller(D, n) /\ r \in Smaller(D, n + 1)
      BY <1>0, <3>2, <3>3 DEF Smaller
    <3>5. g[r] = IF r = {} THEN 0 ELSE f[Pick(r)] + g[r \ {Pick(r)}]
      BY <2>1, <3>4 DEF Adds
    <3> QED BY <3>4, <3>5
  <2>3. h = [s \in Smaller(D, n + 1) |-> IF s = {} THEN 0 ELSE f[Pick(s)] + h[s \ {Pick(s)}]]
    BY <2>2
  <2> HIDE DEF h
  <2>4. Adds(h, f, Smaller(D, n + 1))
    BY <2>3 DEF Adds
  <2> QED BY <2>4
<1> HIDE DEF N
<1>3. \A n \in Nat : n \in N
  BY <1>1, <1>2, NatSetInduction
<1>4. Cardinality(D) \in Nat /\ Smaller(D, Cardinality(D)) = SUBSET D
  BY <1>0, FS_CardinalityType DEF Smaller
<1>5. Cardinality(D) \in N
  BY <1>3, <1>4
<1> QED BY <1>4, <1>5 DEF N, Sums

Agree(f, k, T) == \A x \in T : f[x] = k[x]

(* Two recursive sums over sets with T in common, of functions that agree  *)
(* on T, agree on T.                                                       *)
LEMMA AddsAgree ==
  ASSUME NEW f, NEW g, NEW D, NEW k, NEW h, NEW E, NEW T,
         Sums(g, f, D), Sums(h, k, E), T \subseteq D, T \subseteq E, IsFiniteSet(T), Agree(f, k, T)
  PROVE  g[T] = h[T]
<1> DEFINE N == {n \in Nat : \A U \in SUBSET T : Cardinality(U) = n => g[U] = h[U]}
<1>0. \A s \in SUBSET T : IsFiniteSet(s) /\ Cardinality(s) \in Nat
  BY FS_Subset, FS_CardinalityType
<1>1. ASSUME NEW U \in SUBSET T
      PROVE  /\ g[U] = IF U = {} THEN 0 ELSE f[Pick(U)] + g[U \ {Pick(U)}]
             /\ h[U] = IF U = {} THEN 0 ELSE k[Pick(U)] + h[U \ {Pick(U)}]
  <2>1. U \in SUBSET D /\ U \in SUBSET E
    OBVIOUS
  <2> QED BY <2>1 DEF Sums, Adds
<1>2. 0 \in N
  BY <1>0, <1>1, FS_EmptySet
<1>3. ASSUME NEW n \in Nat, n \in N PROVE n + 1 \in N
  <2> SUFFICES ASSUME NEW U \in SUBSET T, Cardinality(U) = n + 1 PROVE g[U] = h[U]
    OBVIOUS
  <2>0. IsFiniteSet(U) /\ Cardinality(U) \in Nat
    BY <1>0
  <2>1. U # {}
    <3>1. Cardinality({}) = 0
      BY FS_EmptySet
    <3> QED BY <3>1
  <2>2. Pick(U) \in U
    BY <2>1 DEF Pick
  <2>3. Cardinality(U \ {Pick(U)}) = n
    <3>1. Cardinality(U \ {Pick(U)}) = Cardinality(U) - 1
      BY <2>0, <2>2, FS_RemoveElement
    <3> QED BY <3>1
  <2>4. g[U \ {Pick(U)}] = h[U \ {Pick(U)}]
    BY <1>3, <2>3
  <2>5. f[Pick(U)] = k[Pick(U)]
    BY <2>2 DEF Agree
  <2> QED BY <1>1, <2>1, <2>4, <2>5
<1> HIDE DEF N
<1>4. \A n \in Nat : n \in N
  BY <1>2, <1>3, NatSetInduction
<1> QED BY <1>0, <1>4 DEF N

(* Sums of functions that agree on a finite set are equal.                 *)
LEMMA SumsAgree ==
  ASSUME NEW f, NEW k, NEW D, IsFiniteSet(D), \A x \in D : f[x] = k[x]
  PROVE  SumFunctionOnSet(f, D) = SumFunctionOnSet(k, D)
<1>1. PICK g : Sums(g, f, D) /\ SumFunctionOnSet(f, D) = g[D]
  BY AddsExists, SumIs
<1>2. PICK h : Sums(h, k, D) /\ SumFunctionOnSet(k, D) = h[D]
  BY AddsExists, SumIs
<1>3. Agree(f, k, D)
  BY DEF Agree
<1> QED BY <1>1, <1>2, <1>3, AddsAgree

(* The sum over a set is its chosen element's value and the sum of the rest. *)
LEMMA SumUnfolds ==
  ASSUME NEW f, NEW D, IsFiniteSet(D)
  PROVE  /\ D = {} => SumFunctionOnSet(f, D) = 0
         /\ D # {} => SumFunctionOnSet(f, D) = f[Pick(D)] + SumFunctionOnSet(f, D \ {Pick(D)})
<1> DEFINE R == D \ {Pick(D)}
<1>1. IsFiniteSet(R) /\ R \in SUBSET D
  BY FS_Subset
<1>2. PICK g : Sums(g, f, D) /\ SumFunctionOnSet(f, D) = g[D]
  BY AddsExists, SumIs
<1>3. PICK h : Sums(h, f, R) /\ SumFunctionOnSet(f, R) = h[R]
  BY <1>1, AddsExists, SumIs
<1>4. g[R] = h[R]
  <2>1. Agree(f, f, R) /\ R \subseteq D
    BY DEF Agree
  <2> HIDE DEF R
  <2> QED BY <1>1, <1>2, <1>3, <2>1, AddsAgree
<1>5. g[D] = IF D = {} THEN 0 ELSE f[Pick(D)] + g[R]
  BY <1>2 DEF Sums, Adds
<1> QED BY <1>2, <1>3, <1>4, <1>5

(* A sum of numbers is one, and any element may be taken out of it.        *)
THEOREM SumTakesOut ==
  ASSUME NEW f, NEW D, IsFiniteSet(D), \A x \in D : f[x] \in Int
  PROVE  /\ SumFunctionOnSet(f, D) \in Int
         /\ \A x \in D : SumFunctionOnSet(f, D) = f[x] + SumFunctionOnSet(f, D \ {x})
<1> DEFINE S(U) == SumFunctionOnSet(f, U)
           Fine(U) == S(U) \in Int /\ \A x \in U : S(U) = f[x] + S(U \ {x})
           N == {n \in Nat : \A U \in SUBSET D : Cardinality(U) <= n => Fine(U)}
<1>0. \A s \in SUBSET D : IsFiniteSet(s) /\ Cardinality(s) \in Nat
  BY FS_Subset, FS_CardinalityType
<1> HIDE DEF S
<1>1. \A U \in SUBSET D : /\ U = {} => S(U) = 0
                          /\ U # {} => S(U) = f[Pick(U)] + S(U \ {Pick(U)})
  BY <1>0, SumUnfolds DEF S
<1>2. 0 \in N
  <2> SUFFICES ASSUME NEW U \in SUBSET D, Cardinality(U) <= 0 PROVE Fine(U)
    OBVIOUS
  <2>1. U = {}
    BY <1>0, FS_EmptySet
  <2>2. S({}) = 0
    BY <1>1
  <2> QED BY <2>1, <2>2
<1>3. ASSUME NEW n \in Nat, n \in N PROVE n + 1 \in N
  <2> SUFFICES ASSUME NEW U \in SUBSET D, Cardinality(U) <= n + 1, U # {} PROVE Fine(U)
    <3>1. S({}) = 0
      BY <1>1
    <3> QED BY <3>1
  <2> DEFINE p == Pick(U)
  <2>1. p \in U
    BY DEF Pick
  <2>2. /\ IsFiniteSet(U) /\ Cardinality(U) \in Nat
        /\ \A V \in SUBSET D : Cardinality(V) \in Nat /\ (Cardinality(V) <= n => Fine(V))
    BY <1>0, <1>3
  <2>3. \A x \in U : Fine(U \ {x}) /\ IsFiniteSet(U \ {x}) /\ Cardinality(U \ {x}) <= n
    <3> SUFFICES ASSUME NEW x \in U PROVE Fine(U \ {x}) /\ IsFiniteSet(U \ {x}) /\ Cardinality(U \ {x}) <= n
      OBVIOUS
    <3> HIDE DEF Fine
    <3>1. IsFiniteSet(U \ {x}) /\ Cardinality(U \ {x}) = Cardinality(U) - 1 /\ U \ {x} \in SUBSET D
      BY <2>2, FS_RemoveElement
    <3>2. Cardinality(U \ {x}) <= n
      BY <2>2, <3>1
    <3> QED BY <2>2, <3>1, <3>2
  <2> HIDE DEF p
  <2>4. S(U) = f[p] + S(U \ {p}) /\ f[p] \in Int /\ S(U \ {p}) \in Int
    BY <1>1, <2>1, <2>3 DEF p
  <2>5. ASSUME NEW x \in U, x # p PROVE S(U) = f[x] + S(U \ {x})
    <3> DEFINE V == (U \ {p}) \ {x}
    <3>1. S(U \ {p}) = f[x] + S(V)
      BY <2>1, <2>3, <2>5
    <3>2. V = (U \ {x}) \ {p} /\ V \in SUBSET D
      OBVIOUS
    <3> HIDE DEF V
    <3>3. S(U \ {x}) = f[p] + S(V)
      BY <2>1, <2>3, <2>5, <3>2
    <3>4. S(V) \in Int
      <4>1. p \in U \ {x} /\ IsFiniteSet(U \ {x})
        BY <2>1, <2>3, <2>5
      <4>2. Cardinality(V) <= Cardinality(U \ {x})
        BY <3>2, <4>1, FS_Subset
      <4>3. Cardinality(U \ {x}) \in Nat /\ Cardinality(V) \in Nat /\ Cardinality(U \ {x}) <= n
        BY <1>0, <2>3, <3>2
      <4>4. Cardinality(V) <= n
        BY <4>2, <4>3
      <4> QED BY <2>2, <3>2, <4>4
    <3>5. f[x] \in Int /\ f[p] \in Int
      BY <2>1
    <3>6. \A a, b, c \in Int : a + (b + c) = b + (a + c)
      OBVIOUS
    <3>7. S(U) = f[p] + (f[x] + S(V))
      BY <2>4, <3>1
    <3>8. f[p] + (f[x] + S(V)) = f[x] + (f[p] + S(V))
      BY <3>4, <3>5, <3>6
    <3> QED BY <3>3, <3>7, <3>8
  <2>6. S(U) \in Int
    BY <2>4
  <2> QED BY <2>4, <2>5, <2>6
<1> HIDE DEF N
<1>4. \A n \in Nat : n \in N
  BY <1>2, <1>3, NatSetInduction
<1>5. Fine(D)
  BY <1>0, <1>4 DEF N
<1> QED BY <1>5 DEF S

(* Two sums differ by what their functions differ at one place.            *)
THEOREM SumChanges ==
  ASSUME NEW f, NEW k, NEW D, NEW x \in D, IsFiniteSet(D),
         \A y \in D : f[y] \in Int /\ k[y] \in Int, \A y \in D \ {x} : k[y] = f[y]
  PROVE  SumFunctionOnSet(k, D) = SumFunctionOnSet(f, D) - f[x] + k[x]
<1> DEFINE R == D \ {x}
<1>1. IsFiniteSet(R) /\ R \subseteq D
  BY FS_Subset
<1>2. SumFunctionOnSet(f, R) = SumFunctionOnSet(k, R)
  <2>1. \A y \in R : f[y] = k[y]
    OBVIOUS
  <2> HIDE DEF R
  <2> QED BY <1>1, <2>1, SumsAgree
<1>3. /\ SumFunctionOnSet(f, D) = f[x] + SumFunctionOnSet(f, R)
      /\ SumFunctionOnSet(k, D) = k[x] + SumFunctionOnSet(k, R)
  BY SumTakesOut
<1>4. SumFunctionOnSet(f, R) \in Int
  <2>1. \A y \in R : f[y] \in Int
    OBVIOUS
  <2> HIDE DEF R
  <2> QED BY <1>1, <2>1, SumTakesOut
<1>5. f[x] \in Int /\ k[x] \in Int
  OBVIOUS
<1> HIDE DEF R
<1> QED BY <1>2, <1>3, <1>4, <1>5

(* One more element adds its value.                                        *)
THEOREM SumGrows ==
  ASSUME NEW f, NEW D, NEW x, x \notin D, IsFiniteSet(D), f[x] \in Int,
         \A y \in D : f[y] \in Int
  PROVE  SumFunctionOnSet(f, D \cup {x}) = f[x] + SumFunctionOnSet(f, D)
<1> DEFINE E == D \cup {x}
<1>1. IsFiniteSet(E) /\ x \in E /\ E \ {x} = D /\ \A y \in E : f[y] \in Int
  BY FS_AddElement
<1> HIDE DEF E
<1>2. SumFunctionOnSet(f, E) = f[x] + SumFunctionOnSet(f, E \ {x})
  BY <1>1, SumTakesOut
<1> QED BY <1>1, <1>2 DEF E

(* A sum over nothing is zero, and so is one of zeros.                     *)
THEOREM SumOfZeros ==
  ASSUME NEW f, NEW D, IsFiniteSet(D), \A x \in D : f[x] = 0
  PROVE  SumFunctionOnSet(f, D) = 0
<1> DEFINE S(U) == SumFunctionOnSet(f, U)
           N == {n \in Nat : \A U \in SUBSET D : Cardinality(U) = n => S(U) = 0}
<1>0. \A U \in SUBSET D : IsFiniteSet(U) /\ Cardinality(U) \in Nat
  BY FS_Subset, FS_CardinalityType
<1>1. \A U \in SUBSET D : /\ U = {} => S(U) = 0
                          /\ U # {} => S(U) = f[Pick(U)] + S(U \ {Pick(U)})
  BY <1>0, SumUnfolds
<1> HIDE DEF S
<1>2. 0 \in N
  BY <1>0, <1>1, FS_EmptySet
<1>3. ASSUME NEW n \in Nat, n \in N PROVE n + 1 \in N
  <2> SUFFICES ASSUME NEW U \in SUBSET D, Cardinality(U) = n + 1 PROVE S(U) = 0
    OBVIOUS
  <2>1. U # {}
    <3>1. Cardinality({}) = 0
      BY FS_EmptySet
    <3> QED BY <3>1
  <2>2. Pick(U) \in U
    BY <2>1 DEF Pick
  <2>3. Cardinality(U \ {Pick(U)}) = n /\ U \ {Pick(U)} \in SUBSET D
    <3>1. Cardinality(U \ {Pick(U)}) = Cardinality(U) - 1
      BY <1>0, <2>2, FS_RemoveElement
    <3> QED BY <3>1
  <2>4. S(U \ {Pick(U)}) = 0
    BY <1>3, <2>3
  <2>5. f[Pick(U)] = 0
    BY <2>2
  <2> QED BY <1>1, <2>1, <2>4, <2>5
<1> HIDE DEF N
<1>4. \A n \in Nat : n \in N
  BY <1>2, <1>3, NatSetInduction
<1> QED BY <1>0, <1>4 DEF N, S
================================================================================
