-------------------------------- MODULE Sums --------------------------------
(***************************************************************************)
(* What SumFunctionOnSet of the community modules returns, for every       *)
(* function of integers and every finite set: the lemmas about sums that   *)
(* the proofs of the ledger, of the orchestrator and of the detectors      *)
(* need.  The provers have no induction over sets, so each of them looks   *)
(* at a smallest set for which it fails.                                   *)
(***************************************************************************)
EXTENDS Integers, FiniteSets, Functions, FiniteSetTheorems, TLAPS

(* The recursion by which a sum is defined. *)
Chosen(s)        == CHOOSE x \in s : TRUE
SumStep(f, g, s) == IF s = {} THEN 0 ELSE f[Chosen(s)] + g[s \ {Chosen(s)}]
IsSumOf(f, S, g)    == g = [s \in SUBSET S |-> SumStep(f, g, s)]

(* A set of naturals that is not empty has a least element. *)
LEMMA LeastNatural ==
  ASSUME NEW T \in SUBSET Nat, T # {}
  PROVE  \E n \in T : \A m \in T : n <= m
<1>1. IsWellFoundedOn(OpToRel(<, Nat), Nat)  BY NatLessThanWellFounded
<1>2. \E n \in T : \A m \in T : <<m, n>> \notin OpToRel(<, Nat)  BY <1>1, WFMin
<1>3. \E n \in T : \A m \in T : ~(m < n)  BY <1>2 DEF OpToRel
<1>. QED BY <1>3

(* Of the subsets of a finite set that are in T, one has no other below    *)
(* it.                                                                     *)
LEMMA SmallestSubset ==
  ASSUME NEW S, IsFiniteSet(S), NEW T \in SUBSET SUBSET S, T # {}
  PROVE  \E s \in T : \A t \in T : t \subseteq s => t = s
<1>. DEFINE C == {Cardinality(t) : t \in T}
<1>1. \A t \in T : IsFiniteSet(t) /\ Cardinality(t) \in Nat
  BY FS_Subset, FS_CardinalityType
<1>2. C \in SUBSET Nat /\ C # {}  BY <1>1
<1>3. PICK n \in C : \A m \in C : n <= m  BY <1>2, LeastNatural
<1>4. PICK s \in T : Cardinality(s) = n  OBVIOUS
<1>5. ASSUME NEW t \in T, t \subseteq s  PROVE t = s
  <2>1. Cardinality(s) <= Cardinality(t)  BY <1>3, <1>4
  <2>2. Cardinality(t) <= Cardinality(s)  BY <1>1, <1>5, FS_Subset
  <2>3. Cardinality(s) = Cardinality(t)  BY <2>1, <2>2, <1>1
  <2>. QED BY <2>3, <1>1, <1>5, FS_Subset
<1>. QED BY <1>5

(* The recursion has a solution. *)
LEMMA SumExists ==
  ASSUME NEW f, NEW S, IsFiniteSet(S)
  PROVE  \E g : IsSumOf(f, S, g)
<1>. DEFINE D(n)  == {s \in SUBSET S : Cardinality(s) <= n}
            Ok(n) == \E g : g = [s \in D(n) |-> SumStep(f, g, s)]
            T     == {n \in Nat : ~Ok(n)}
<1>1. \A s \in SUBSET S : IsFiniteSet(s) /\ Cardinality(s) \in Nat /\ Cardinality(s) <= Cardinality(S)
  BY FS_Subset, FS_CardinalityType
<1>2. ASSUME T # {} PROVE FALSE
  <2>1. PICK n \in T : \A m \in T : n <= m  BY <1>2, LeastNatural
  <2>2. n # 0
    <3>1. ASSUME n = 0 PROVE FALSE
      <4>1. D(0) = {{}}  BY <1>1, FS_EmptySet
      <4>. DEFINE g == [s \in D(0) |-> 0]
      <4>2. \A s \in D(0) : SumStep(f, g, s) = 0  BY <4>1 DEF SumStep
      <4>3. g = [s \in D(0) |-> SumStep(f, g, s)]  BY <4>2
      <4>4. Ok(0)  BY <4>3
      <4>. QED BY <4>4, <3>1
    <3>. QED BY <3>1
  <2>3. n - 1 \in Nat /\ Ok(n - 1)
    <3>. HIDE DEF Ok
    <3>1. n \in Nat /\ n - 1 \in Nat /\ ~(n <= n - 1)  BY <2>2
    <3>. QED BY <3>1, <2>1
  <2>4. PICK h : h = [s \in D(n - 1) |-> SumStep(f, h, s)]  BY <2>3
  <2>. DEFINE g == [s \in D(n) |-> SumStep(f, h, s)]
  <2>5. \A s \in D(n) : s # {} => s \ {Chosen(s)} \in D(n - 1) /\ s \ {Chosen(s)} \in D(n)
    <3>1. ASSUME NEW s \in D(n), s # {}
          PROVE  s \ {Chosen(s)} \in D(n - 1) /\ s \ {Chosen(s)} \in D(n)
      <4>1. Chosen(s) \in s  BY <3>1 DEF Chosen
      <4>2. Cardinality(s \ {Chosen(s)}) = Cardinality(s) - 1
        BY <4>1, <1>1, FS_RemoveElement
      <4>. QED BY <4>2, <1>1, <2>3
    <3>. QED BY <3>1
  <2>6. \A s \in D(n) : SumStep(f, g, s) = SumStep(f, h, s)
    <3>1. \A s \in D(n - 1) : s \in D(n) /\ g[s] = SumStep(f, h, s) /\ h[s] = SumStep(f, h, s)
      <4>1. \A s \in D(n - 1) : s \in D(n)  BY <1>1, <2>3
      <4>2. \A s \in D(n - 1) : h[s] = SumStep(f, h, s)  BY <2>4
      <4>. QED BY <4>1, <4>2
    <3>. HIDE DEF D, g
    <3>. QED BY <3>1, <2>5 DEF SumStep
  <2>7. g = [s \in D(n) |-> SumStep(f, g, s)]
    <3>. HIDE DEF D
    <3>. QED BY <2>6
  <2>. QED BY <2>7, <2>1
<1>3. Ok(Cardinality(S))  BY <1>1, <1>2
<1>4. D(Cardinality(S)) = SUBSET S  BY <1>1
<1>. QED BY <1>3, <1>4 DEF IsSumOf

(* Two solutions agree where both are defined. *)
LEMMA SumUnique ==
  ASSUME NEW f, NEW S, NEW R, NEW g, NEW h, IsSumOf(f, S, g), IsSumOf(f, R, h),
         NEW s0 \in (SUBSET S) \cap (SUBSET R), IsFiniteSet(s0)
  PROVE  g[s0] = h[s0]
<1>. DEFINE T == {s \in SUBSET s0 : g[s] # h[s]}
<1>0. T \in SUBSET SUBSET s0  OBVIOUS
<1>1. ASSUME T # {} PROVE FALSE
  <2>1. PICK s \in T : \A t \in T : t \subseteq s => t = s
    <3>. HIDE DEF T
    <3>. QED BY <1>0, <1>1, SmallestSubset
  <2>2. g[s] = SumStep(f, g, s) /\ h[s] = SumStep(f, h, s)
    <3>1. s \in SUBSET S /\ s \in SUBSET R  OBVIOUS
    <3>2. g[s] = SumStep(f, g, s)  BY <3>1 DEF IsSumOf
    <3>3. h[s] = SumStep(f, h, s)  BY <3>1 DEF IsSumOf
    <3>. QED BY <3>2, <3>3
  <2>3. s # {}  BY <2>1, <2>2 DEF SumStep
  <2>4. Chosen(s) \in s  BY <2>3 DEF Chosen
  <2>5. g[s \ {Chosen(s)}] = h[s \ {Chosen(s)}]  BY <2>1, <2>4
  <2>. QED BY <2>1, <2>2, <2>5 DEF SumStep
<1>. QED BY <1>1

LEMMA SumUnfold ==
  ASSUME NEW f, NEW S, IsFiniteSet(S)
  PROVE  SumFunctionOnSet(f, S) =
           IF S = {} THEN 0
           ELSE f[Chosen(S)] + SumFunctionOnSet(f, S \ {Chosen(S)})
<1>. DEFINE G(R) == CHOOSE g : IsSumOf(f, R, g)
<1>1. \A R : SumFunctionOnSet(f, R) = G(R)[R]
  BY DEF SumFunctionOnSet, FoldFunctionOnSet, MapThenFoldSet, IsSumOf, SumStep, Chosen
<1>2. IsSumOf(f, S, G(S))  BY SumExists
<1>3. CASE S = {}
  <2>1. G(S)[S] = SumStep(f, G(S), S)
    <3>. HIDE DEF G
    <3>. QED BY <1>2 DEF IsSumOf
  <2>2. G(S)[S] = 0  BY <2>1, <1>3 DEF SumStep
  <2>. HIDE DEF G
  <2>. QED BY <1>1, <1>3, <2>2
<1>4. CASE S # {}
  <2>. DEFINE R == S \ {Chosen(S)}
  <2>1. IsFiniteSet(R)  BY FS_RemoveElement
  <2>2. IsSumOf(f, R, G(R))  BY <2>1, SumExists
  <2>3. G(S)[S] = f[Chosen(S)] + G(S)[R]
    <3>. HIDE DEF G
    <3>1. G(S)[S] = SumStep(f, G(S), S)  BY <1>2 DEF IsSumOf
    <3>. QED BY <3>1, <1>4 DEF SumStep
  <2>4. G(S)[R] = G(R)[R]  
    <3>1. R \in (SUBSET S) \cap (SUBSET R)  OBVIOUS
    <3>. HIDE DEF G, R
    <3>. QED BY <3>1, <1>2, <2>1, <2>2, SumUnique
  <2>. HIDE DEF G
  <2>. QED BY <1>1, <2>3, <2>4, <1>4
<1>. QED BY <1>3, <1>4

(* The sum over no elements is 0. *)
LEMMA SumOfNone ==
  ASSUME NEW f
  PROVE  SumFunctionOnSet(f, {}) = 0
BY SumUnfold, FS_EmptySet

(* A sum of integers is an integer. *)
LEMMA SumIsInt ==
  ASSUME NEW f, NEW S, IsFiniteSet(S), \A x \in S : f[x] \in Int
  PROVE  SumFunctionOnSet(f, S) \in Int
<1>. DEFINE T == {s \in SUBSET S : SumFunctionOnSet(f, s) \notin Int}
<1>0. T \in SUBSET SUBSET S  OBVIOUS
<1>1. ASSUME T # {} PROVE FALSE
  <2>1. PICK s \in T : \A t \in T : t \subseteq s => t = s
    <3>. HIDE DEF T
    <3>. QED BY <1>0, <1>1, SmallestSubset
  <2>2. IsFiniteSet(s)  BY FS_Subset
  <2>3. s # {}
    <3>1. SumFunctionOnSet(f, {}) \in Int  BY SumOfNone
    <3>. QED BY <3>1
  <2>4. Chosen(s) \in s  BY <2>3 DEF Chosen
  <2>5. SumFunctionOnSet(f, s \ {Chosen(s)}) \in Int  BY <2>1, <2>4
  <2>6. f[Chosen(s)] \in Int  BY <2>4
  <2>. QED BY <2>1, <2>2, <2>3, <2>5, <2>6, SumUnfold
<1>. QED BY <1>1

(* Any element can be taken out first. *)
LEMMA SumTakesOut ==
  ASSUME NEW f, NEW S, IsFiniteSet(S), \A x \in S : f[x] \in Int, NEW x0 \in S
  PROVE  SumFunctionOnSet(f, S) = f[x0] + SumFunctionOnSet(f, S \ {x0})
<1>. DEFINE Total(s) == SumFunctionOnSet(f, s)
            T == {s \in SUBSET S : \E x \in s : Total(s) # f[x] + Total(s \ {x})}
<1>0. T \in SUBSET SUBSET S  OBVIOUS
<1>1. ASSUME T # {} PROVE FALSE
  <2>1. PICK s \in T : \A t \in T : t \subseteq s => t = s
    <3>. HIDE DEF T
    <3>. QED BY <1>0, <1>1, SmallestSubset
  <2>2. PICK x \in s : Total(s) # f[x] + Total(s \ {x})  BY <2>1
  <2>. DEFINE c == Chosen(s)
  <2>3. c \in s  BY <2>2 DEF Chosen
  <2>4. IsFiniteSet(s)  BY FS_Subset
  <2>5. Total(s) = f[c] + Total(s \ {c})  BY <2>2, <2>4, SumUnfold
  <2>6. x # c  BY <2>2, <2>5
  <2>. HIDE DEF c, Total
  <2>7. Total(s \ {c}) = f[x] + Total((s \ {c}) \ {x})
    <3>1. s \ {c} \in SUBSET S /\ s \ {c} \notin T /\ x \in s \ {c}  BY <2>1, <2>3, <2>6
    <3>. QED BY <3>1
  <2>8. Total(s \ {x}) = f[c] + Total((s \ {x}) \ {c})
    <3>1. s \ {x} \in SUBSET S /\ s \ {x} \notin T /\ c \in s \ {x}  BY <2>1, <2>3, <2>6
    <3>. QED BY <3>1
  <2>9. (s \ {x}) \ {c} = (s \ {c}) \ {x}  OBVIOUS
  <2>10. Total((s \ {c}) \ {x}) \in Int
    <3>1. IsFiniteSet((s \ {c}) \ {x})  BY <2>4, FS_RemoveElement
    <3>. QED BY <3>1, SumIsInt DEF Total
  <2>11. f[x] \in Int /\ f[c] \in Int  BY <2>3
  <2>12. Total(s) = f[c] + (f[x] + Total((s \ {c}) \ {x}))  BY <2>5, <2>7
  <2>13. f[x] + Total(s \ {x}) = f[x] + (f[c] + Total((s \ {c}) \ {x}))  BY <2>8, <2>9
  <2>14. Total(s) = f[x] + Total(s \ {x})  BY <2>10, <2>11, <2>12, <2>13
  <2>. QED BY <2>2, <2>14
<1>2. \A x \in S : Total(S) = f[x] + Total(S \ {x})  BY <1>1
<1>. QED BY <1>2

(* A new element adds its value. *)
LEMMA SumAdds ==
  ASSUME NEW f, NEW S, IsFiniteSet(S), NEW x0, x0 \notin S,
         \A x \in S \cup {x0} : f[x] \in Int
  PROVE  SumFunctionOnSet(f, S \cup {x0}) = f[x0] + SumFunctionOnSet(f, S)
<1>1. IsFiniteSet(S \cup {x0})  BY FS_AddElement
<1>2. (S \cup {x0}) \ {x0} = S  OBVIOUS
<1>3. SumFunctionOnSet(f, S \cup {x0}) = f[x0] + SumFunctionOnSet(f, (S \cup {x0}) \ {x0})
  BY <1>1, SumTakesOut
<1>. QED BY <1>2, <1>3

(* A sum depends on the values of the elements only. *)
LEMMA SumSame ==
  ASSUME NEW f, NEW g, NEW S, IsFiniteSet(S), \A x \in S : f[x] = g[x]
  PROVE  SumFunctionOnSet(f, S) = SumFunctionOnSet(g, S)
<1>. DEFINE T == {s \in SUBSET S : SumFunctionOnSet(f, s) # SumFunctionOnSet(g, s)}
<1>0. T \in SUBSET SUBSET S  OBVIOUS
<1>1. ASSUME T # {} PROVE FALSE
  <2>1. PICK s \in T : \A t \in T : t \subseteq s => t = s
    <3>. HIDE DEF T
    <3>. QED BY <1>0, <1>1, SmallestSubset
  <2>2. IsFiniteSet(s)  BY FS_Subset
  <2>3. s # {}
    <3>1. SumFunctionOnSet(f, {}) = 0 /\ SumFunctionOnSet(g, {}) = 0  BY SumOfNone
    <3>. QED BY <3>1
  <2>4. Chosen(s) \in s  BY <2>3 DEF Chosen
  <2>5. SumFunctionOnSet(f, s \ {Chosen(s)}) = SumFunctionOnSet(g, s \ {Chosen(s)})
    BY <2>1, <2>4
  <2>6. f[Chosen(s)] = g[Chosen(s)]  BY <2>4
  <2>. QED BY <2>1, <2>2, <2>3, <2>5, <2>6, SumUnfold
<1>. QED BY <1>1

(* A bound of every value by a multiple of another bounds the sum by the   *)
(* same multiple of the other sum.                                         *)
LEMMA SumIsBounded ==
  ASSUME NEW f, NEW g, NEW k \in Int, NEW S, IsFiniteSet(S),
         \A x \in S : f[x] \in Int /\ g[x] \in Int /\ g[x] <= k * f[x]
  PROVE  SumFunctionOnSet(g, S) <= k * SumFunctionOnSet(f, S)
<1>. DEFINE A(s) == SumFunctionOnSet(f, s)
            B(s) == SumFunctionOnSet(g, s)
            T == {s \in SUBSET S : ~(B(s) <= k * A(s))}
<1>0. T \in SUBSET SUBSET S  OBVIOUS
<1>1. ASSUME T # {} PROVE FALSE
  <2>1. PICK s \in T : \A t \in T : t \subseteq s => t = s
    <3>. HIDE DEF T
    <3>. QED BY <1>0, <1>1, SmallestSubset
  <2>2. IsFiniteSet(s)  BY FS_Subset
  <2>3. s # {}
    <3>1. A({}) = 0 /\ B({}) = 0  BY SumOfNone
    <3>2. B({}) <= k * A({})  BY <3>1
    <3>. QED BY <3>2
  <2>4. PICK c : c \in s  BY <2>3
  <2>. DEFINE r == s \ {c}
  <2>5. IsFiniteSet(r)  BY <2>2, FS_RemoveElement
  <2>6. A(r) \in Int /\ B(r) \in Int  BY <2>5, SumIsInt
  <2>7. A(s) = f[c] + A(r) /\ B(s) = g[c] + B(r)  BY <2>2, <2>4, SumTakesOut
  <2>8. B(r) <= k * A(r)
    <3>1. r \in SUBSET S /\ r \notin T  BY <2>1, <2>4
    <3>. QED BY <3>1
  <2>9. f[c] \in Int /\ g[c] \in Int /\ g[c] <= k * f[c]  BY <2>4
  <2>10. ~(B(s) <= k * A(s))  BY <2>1
  <2>. HIDE DEF A, B, r
  <2>11. k * (f[c] + A(r)) = k * f[c] + k * A(r)  BY <2>6, <2>9
  <2>12. k * f[c] \in Int /\ k * A(r) \in Int  BY <2>6, <2>9
  <2>. QED BY <2>6, <2>7, <2>8, <2>9, <2>10, <2>11, <2>12
<1>. QED BY <1>1

(* Values that are not negative make a sum that is not negative and that   *)
(* no one of them exceeds.                                                 *)
LEMMA SumOfNaturals ==
  ASSUME NEW f, NEW S, IsFiniteSet(S), \A x \in S : f[x] \in Nat
  PROVE  /\ SumFunctionOnSet(f, S) \in Nat
         /\ \A x \in S : f[x] <= SumFunctionOnSet(f, S)
<1>1. ASSUME NEW R \in SUBSET S  PROVE SumFunctionOnSet(f, R) \in Nat
  <2>. DEFINE zero == [x \in S |-> 0]
  <2>1. IsFiniteSet(R)  BY FS_Subset
  <2>2. \A x \in R : zero[x] = 0 /\ f[x] \in Nat  OBVIOUS
  <2>. HIDE DEF zero
  <2>3. SumFunctionOnSet(f, R) \in Int /\ SumFunctionOnSet(zero, R) \in Int
    BY <2>1, <2>2, SumIsInt
  <2>4. SumFunctionOnSet(zero, R) <= 2 * SumFunctionOnSet(zero, R)
    BY <2>1, <2>2, SumIsBounded
  <2>5. SumFunctionOnSet(zero, R) <= 1 * SumFunctionOnSet(f, R)
    BY <2>1, <2>2, SumIsBounded
  <2>. QED BY <2>3, <2>4, <2>5
<1>2. ASSUME NEW x \in S  PROVE f[x] <= SumFunctionOnSet(f, S)
  <2>1. SumFunctionOnSet(f, S) = f[x] + SumFunctionOnSet(f, S \ {x})  BY SumTakesOut
  <2>2. SumFunctionOnSet(f, S \ {x}) \in Nat /\ f[x] \in Nat  BY <1>1
  <2>. QED BY <2>1, <2>2
<1>. QED BY <1>1, <1>2

(* The sum of a function that is changed at one element.                   *)
LEMMA SumUpdates ==
  ASSUME NEW f, NEW g, NEW S, IsFiniteSet(S), NEW x0 \in S,
         \A x \in S : f[x] \in Int /\ g[x] \in Int,
         \A x \in S : x # x0 => g[x] = f[x]
  PROVE  SumFunctionOnSet(g, S) = SumFunctionOnSet(f, S) + g[x0] - f[x0]
<1>. DEFINE R == S \ {x0}
<1>1. IsFiniteSet(R)  BY FS_RemoveElement
<1>2. SumFunctionOnSet(g, R) = SumFunctionOnSet(f, R)  BY <1>1, SumSame
<1>3. SumFunctionOnSet(f, R) \in Int  BY <1>1, SumIsInt
<1>4. SumFunctionOnSet(f, S) = f[x0] + SumFunctionOnSet(f, R)  BY SumTakesOut
<1>5. SumFunctionOnSet(g, S) = g[x0] + SumFunctionOnSet(g, R)  BY SumTakesOut
<1>6. f[x0] \in Int /\ g[x0] \in Int  OBVIOUS
<1>. HIDE DEF R
<1>. QED BY <1>2, <1>3, <1>4, <1>5, <1>6
=============================================================================
