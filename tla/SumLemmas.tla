----------------------------- MODULE SumLemmas -----------------------------
(***************************************************************************)
(* Sums, counts and ranks over finite sets: what the proofs about bills    *)
(* and screens need of the folds those models are written with.            *)
(*                                                                         *)
(* The library's induction theorems take a predicate.  Here a set stands   *)
(* in its place (Induction, SetInduction): both follow from the least      *)
(* member of a set of naturals, which the library states for sets.         *)
(***************************************************************************)
EXTENDS Integers, SequencesExt, FiniteSetTheorems, WellFoundedInduction, TLAPS

-----------------------------------------------------------------------------
(* Induction *)

\* A set of naturals that is not empty has a least member.
LEMMA LeastNatural ==
    ASSUME NEW T \in SUBSET Nat, T # {}
    PROVE  \E n \in T : \A m \in T : n <= m
<1>1. PICK R : R = OpToRel(<, Nat)
  OBVIOUS
<1>2. IsWellFoundedOn(R, Nat)
  BY <1>1, NatLessThanWellFounded, Zenon
<1>3. PICK n \in T : \A m \in T : <<m, n>> \notin R
  BY <1>2, WFMin
<1>4. \A m \in T : <<m, n>> \in R <=> m < n
  BY <1>1 DEF OpToRel
<1>5. ASSUME NEW m \in T PROVE n <= m
  <2>1. ~(m < n)
    BY <1>3, <1>4
  <2> QED BY <2>1
<1> QED BY <1>5

\* A set of naturals with zero and with the successor of each member is Nat.
LEMMA Induction ==
    ASSUME NEW P \in SUBSET Nat, 0 \in P, \A n \in P : n + 1 \in P
    PROVE  P = Nat
<1> SUFFICES ASSUME Nat \ P # {} PROVE FALSE
  OBVIOUS
<1>1. PICK n \in Nat \ P : \A m \in Nat \ P : n <= m
  BY LeastNatural
<1>2. n # 0 /\ n - 1 \in Nat /\ n - 1 \in P
  BY <1>1
<1> QED BY <1>1, <1>2

\* The subsets of D with at most n members.
Small(D, n) == {s \in SUBSET D : Cardinality(s) <= n}

\* What holds of the empty set, and of a set whenever it holds of the set
\* less one member, holds of every part of a finite set.
LEMMA SetInduction ==
    ASSUME NEW D, IsFiniteSet(D), NEW Q, {} \in Q,
           \A S \in SUBSET D : \A x \in S : S \ {x} \in Q => S \in Q
    PROVE  SUBSET D \subseteq Q
<1> DEFINE P == {n \in Nat : Small(D, n) \subseteq Q}
<1>0. \A s \in SUBSET D : IsFiniteSet(s) /\ Cardinality(s) \in Nat
  BY FS_Subset, FS_CardinalityType
<1>1. 0 \in P
  <2>1. \A s \in Small(D, 0) : s = {}
    BY <1>0, FS_EmptySet DEF Small
  <2> QED BY <2>1
<1>2. ASSUME NEW n \in P PROVE n + 1 \in P
  <2>0. SUFFICES \A s \in Small(D, n + 1) : s \in Q
    OBVIOUS
  <2> SUFFICES ASSUME NEW s \in Small(D, n + 1), s # {} PROVE s \in Q
    OBVIOUS
  <2>1. PICK x \in s : TRUE
    OBVIOUS
  <2>2. Cardinality(s \ {x}) = Cardinality(s) - 1
    BY <1>0, FS_RemoveElement DEF Small
  <2>3. s \ {x} \in Small(D, n)
    BY <1>0, <2>2 DEF Small
  <2> QED BY <2>3 DEF Small
<1>3. P = Nat
  <2> HIDE DEF P
  <2>1. P \in SUBSET Nat
    BY DEF P
  <2> QED BY <1>1, <1>2, <2>1, Induction
<1>4. Cardinality(D) \in P
  BY <1>0, <1>3
<1>5. Small(D, Cardinality(D)) = SUBSET D
  BY <1>0, FS_Subset DEF Small
<1> QED BY <1>4, <1>5

-----------------------------------------------------------------------------
(* Sums *)

\* g[s] is the sum of v over s, for each s of the family S.
Sums(g, S, v) ==
    /\ g \in [S -> Int] /\ g[{}] = 0
    /\ \A s \in S : \A x \in s : g[s] = v[x] + g[s \ {x}]

\* h takes a member out of every set and adds its value to the rest's.
TakesOut(h, S, v) ==
    /\ h[{}] = 0
    /\ \A s \in S : s # {} =>
         \E x \in s : h[s] \in {v[x] + h[s \ {x}], h[s \ {x}] + v[x]}

\* The recursive definition of a sum, any member first, defines a function.
LEMMA SumsExist ==
    ASSUME NEW D, IsFiniteSet(D), NEW v, \A x \in D : v[x] \in Int
    PROVE  \E g : Sums(g, SUBSET D, v)
<1> DEFINE P == {n \in Nat : \E g : Sums(g, Small(D, n), v)}
<1>0. \A s \in SUBSET D : IsFiniteSet(s) /\ Cardinality(s) \in Nat
  BY FS_Subset, FS_CardinalityType
<1>1. 0 \in P
  <2>1. \A s \in Small(D, 0) : s = {}
    BY <1>0, FS_EmptySet DEF Small
  <2>2. {} \in Small(D, 0)
    BY FS_EmptySet DEF Small
  <2>3. Sums([s \in Small(D, 0) |-> 0], Small(D, 0), v)
    BY <2>1, <2>2 DEF Sums
  <2> QED BY <2>3
<1>2. ASSUME NEW n \in P PROVE n + 1 \in P
  <2>1. PICK g : Sums(g, Small(D, n), v)
    OBVIOUS
  <2> DEFINE c(s) == CHOOSE x \in s : TRUE
             h == [s \in Small(D, n + 1) |->
                     IF s \in Small(D, n) THEN g[s] ELSE v[c(s)] + g[s \ {c(s)}]]
  <2>2. \A s \in Small(D, n + 1) : \A x \in s : s \ {x} \in Small(D, n)
    <3> SUFFICES ASSUME NEW s \in Small(D, n + 1), NEW x \in s
                 PROVE  s \ {x} \in Small(D, n)
      OBVIOUS
    <3>1. Cardinality(s \ {x}) = Cardinality(s) - 1
      BY <1>0, FS_RemoveElement DEF Small
    <3> QED BY <1>0, <3>1 DEF Small
  <2>3. {} \in Small(D, n) /\ Small(D, n) \subseteq Small(D, n + 1)
    BY <1>0, FS_EmptySet DEF Small
  <2>4. \A s \in Small(D, n + 1) : s # {} => c(s) \in s
    OBVIOUS
  <2>5. \A s \in Small(D, n + 1) \ Small(D, n) : s # {}
    BY <2>3
  <2>6. h \in [Small(D, n + 1) -> Int]
    <3> SUFFICES ASSUME NEW s \in Small(D, n + 1) PROVE h[s] \in Int
      OBVIOUS
    <3>1. CASE s \in Small(D, n)
      BY <2>1, <3>1 DEF Sums
    <3>2. CASE s \notin Small(D, n)
      <4>1. PICK x \in s : x = c(s)
        BY <2>4, <2>5, <3>2
      <4>2. x \in D /\ g[s \ {x}] \in Int
        BY <2>1, <2>2, <4>1 DEF Sums, Small
      <4> QED BY <3>2, <4>1, <4>2
    <3> QED BY <3>1, <3>2
  <2>7. ASSUME NEW s \in Small(D, n + 1), NEW x \in s
        PROVE  h[s] = v[x] + h[s \ {x}]
    <3>1. s \ {x} \in Small(D, n) /\ h[s \ {x}] = g[s \ {x}]
      BY <2>2, <2>3
    <3>2. CASE s \in Small(D, n)
      BY <2>1, <3>1, <3>2 DEF Sums
    <3>3. CASE s \notin Small(D, n)
      <4>1. PICK y \in s : y = c(s)
        BY <2>4, <2>5, <3>3
      <4>2. h[s] = v[y] + g[s \ {y}]
        BY <3>3, <4>1
      <4>3. CASE y = x
        BY <3>1, <4>2, <4>3
      <4>4. CASE y # x
        <5>1. PICK r : r = (s \ {x}) \ {y}
          OBVIOUS
        <5>2. /\ s \ {x} \in Small(D, n) /\ s \ {y} \in Small(D, n)
              /\ y \in s \ {x} /\ x \in s \ {y} /\ r = (s \ {y}) \ {x}
          BY <2>2, <4>1, <4>4, <5>1
        <5>3. g[s \ {x}] = v[y] + g[r] /\ g[s \ {y}] = v[x] + g[r]
          <6>1. \A t \in Small(D, n) : \A z \in t : g[t] = v[z] + g[t \ {z}]
            BY <2>1 DEF Sums
          <6>2. g[s \ {x}] = v[y] + g[(s \ {x}) \ {y}]
            BY ONLY <5>2, <6>1
          <6>3. g[s \ {y}] = v[x] + g[(s \ {y}) \ {x}]
            BY ONLY <5>2, <6>1
          <6> QED BY ONLY <5>1, <5>2, <6>2, <6>3
        <5>4. r \in Small(D, n)
          BY <2>2, <2>3, <5>1, <5>2
        <5>5. v[x] \in Int /\ v[y] \in Int /\ g[r] \in Int
          BY <2>1, <5>4, <4>1 DEF Sums, Small
        <5> QED BY <3>1, <4>2, <5>3, <5>5
      <4> QED BY <4>3, <4>4
    <3> QED BY <3>2, <3>3
  <2>8. Sums(h, Small(D, n + 1), v)
    <3>1. h[{}] = 0
      BY <2>1, <2>3 DEF Sums
    <3> HIDE DEF h
    <3> QED BY <2>6, <2>7, <3>1 DEF Sums
  <2> QED BY <2>8
<1>3. P = Nat
  <2> HIDE DEF P
  <2>1. P \in SUBSET Nat
    BY DEF P
  <2> QED BY <1>1, <1>2, <2>1, Induction
<1>4. Cardinality(D) \in P
  BY <1>0, <1>3
<1>5. Small(D, Cardinality(D)) = SUBSET D
  BY <1>0, FS_Subset DEF Small
<1> QED BY <1>4, <1>5

\* A recursive sum that takes the members in any order is the sum.
LEMMA SumsUnique ==
    ASSUME NEW D, IsFiniteSet(D), NEW v, \A x \in D : v[x] \in Int,
           NEW g, Sums(g, SUBSET D, v), NEW h, TakesOut(h, SUBSET D, v)
    PROVE  \A s \in SUBSET D : h[s] = g[s]
<1> DEFINE P == {n \in Nat : \A s \in Small(D, n) : h[s] = g[s]}
<1>0. \A s \in SUBSET D : IsFiniteSet(s) /\ Cardinality(s) \in Nat
  BY FS_Subset, FS_CardinalityType
<1>1. 0 \in P
  <2>1. \A s \in Small(D, 0) : s = {}
    BY <1>0, FS_EmptySet DEF Small
  <2> QED BY <2>1 DEF Sums, TakesOut
<1>2. ASSUME NEW n \in P PROVE n + 1 \in P
  <2>0. SUFFICES \A s \in Small(D, n + 1) : h[s] = g[s]
    OBVIOUS
  <2> SUFFICES ASSUME NEW s \in Small(D, n + 1), s # {} PROVE h[s] = g[s]
    BY DEF Sums, TakesOut
  <2>1. s \in SUBSET D
    BY DEF Small
  <2>2. PICK x \in s : h[s] \in {v[x] + h[s \ {x}], h[s \ {x}] + v[x]}
    BY <2>1 DEF TakesOut
  <2>3. Cardinality(s \ {x}) = Cardinality(s) - 1
    BY <1>0, FS_RemoveElement DEF Small
  <2>4. s \ {x} \in Small(D, n)
    BY <1>0, <2>3 DEF Small
  <2>5. h[s \ {x}] = g[s \ {x}]
    BY <2>4
  <2>6. g[s] = v[x] + g[s \ {x}] /\ v[x] \in Int /\ g[s \ {x}] \in Int
    BY <2>1 DEF Sums
  <2> QED BY ONLY <2>2, <2>5, <2>6
<1>3. P = Nat
  <2> HIDE DEF P
  <2>1. P \in SUBSET Nat
    BY DEF P
  <2> QED BY <1>1, <1>2, <2>1, Induction
<1>4. Cardinality(D) \in P
  BY <1>0, <1>3
<1>5. Small(D, Cardinality(D)) = SUBSET D
  BY <1>0, FS_Subset DEF Small
<1> QED BY <1>4, <1>5

\* The sum of v over the finite set D.
SumTable(v, D) == CHOOSE g : Sums(g, SUBSET D, v)
Total(v, D) == SumTable(v, D)[D]

\* The table is such a function.
LEMMA TableSums ==
    ASSUME NEW D, IsFiniteSet(D), NEW v, \A x \in D : v[x] \in Int
    PROVE  Sums(SumTable(v, D), SUBSET D, v)
  BY SumsExist DEF SumTable

\* The table of D has the sums of its parts.
LEMMA TableOfParts ==
    ASSUME NEW D, IsFiniteSet(D), NEW v, \A x \in D : v[x] \in Int, NEW S \in SUBSET D
    PROVE  SumTable(v, D)[S] = Total(v, S)
<1>1. PICK g : g = SumTable(v, D)
  OBVIOUS
<1>2. PICK h : h = SumTable(v, S)
  OBVIOUS
<1>3. Sums(g, SUBSET D, v)
  BY <1>1, TableSums
<1>4. IsFiniteSet(S)
  BY FS_Subset
<1>4a. \A x \in S : v[x] \in Int
  OBVIOUS
<1>5. Sums(h, SUBSET S, v)
  BY <1>2, <1>4, <1>4a, TableSums
<1>6. TakesOut(g, SUBSET S, v)
  BY <1>3 DEF Sums, TakesOut
<1>7. \A s \in SUBSET S : g[s] = h[s]
  BY ONLY <1>4, <1>4a, <1>5, <1>6, SumsUnique
<1> QED BY <1>1, <1>2, <1>7 DEF Total

\* Nothing adds up to nothing.
LEMMA TotalOfNone == \A v : Total(v, {}) = 0
<1> SUFFICES ASSUME NEW v PROVE Total(v, {}) = 0
  OBVIOUS
<1>1. Sums(SumTable(v, {}), SUBSET {}, v)
  BY TableSums, FS_EmptySet
<1> QED BY <1>1 DEF Total, Sums

\* A sum is any one value and the sum of the others.
LEMMA TotalTakes ==
    ASSUME NEW D, IsFiniteSet(D), NEW v, \A x \in D : v[x] \in Int
    PROVE  /\ Total(v, D) \in Int
           /\ \A x \in D : Total(v, D) = v[x] + Total(v, D \ {x})
<1>1. PICK g : g = SumTable(v, D)
  OBVIOUS
<1>2. Sums(g, SUBSET D, v)
  BY <1>1, TableSums
<1>3. Total(v, D) = g[D] /\ g[D] \in Int
  BY <1>1, <1>2 DEF Total, Sums
<1>4. ASSUME NEW x \in D PROVE g[D] = v[x] + Total(v, D \ {x})
  <2>1. g[D \ {x}] = Total(v, D \ {x})
    BY <1>1, TableOfParts
  <2>2. g[D] = v[x] + g[D \ {x}]
    BY <1>2 DEF Sums
  <2> QED BY <2>1, <2>2
<1> QED BY <1>3, <1>4

\* One more member adds its value.
LEMMA TotalAdds ==
    ASSUME NEW D, IsFiniteSet(D), NEW x, x \notin D, NEW v,
           \A y \in D \cup {x} : v[y] \in Int
    PROVE  Total(v, D \cup {x}) = v[x] + Total(v, D)
<1>1. IsFiniteSet(D \cup {x}) /\ (D \cup {x}) \ {x} = D /\ x \in D \cup {x}
  BY FS_AddElement
<1>2. \A y \in D \cup {x} : Total(v, D \cup {x}) = v[y] + Total(v, (D \cup {x}) \ {y})
  BY ONLY <1>1, TotalTakes, \A y \in D \cup {x} : v[y] \in Int
<1> QED BY <1>1, <1>2

\* u is k times v, and w.
Combines(u, k, v, w, D) ==
    \A x \in D : v[x] \in Int /\ w[x] \in Int /\ u[x] = k * v[x] + w[x]

\* A sum is linear in what is summed.
LEMMA TotalLinear ==
    ASSUME NEW D, IsFiniteSet(D), NEW k \in Int, NEW u, NEW v, NEW w, Combines(u, k, v, w, D)
    PROVE  Total(u, D) = k * Total(v, D) + Total(w, D)
<1> DEFINE Q == {S \in SUBSET D : Total(u, S) = k * Total(v, S) + Total(w, S)}
<1>1. {} \in Q
  BY TotalOfNone
<1>2. ASSUME NEW S \in SUBSET D, NEW x \in S, S \ {x} \in Q
      PROVE  S \in Q
  <2>1. IsFiniteSet(S) /\ IsFiniteSet(S \ {x})
    BY FS_Subset
  <2>2. \A y \in S : u[y] \in Int /\ v[y] \in Int /\ w[y] \in Int
    BY DEF Combines
  <2>3. PICK a, b, c : a = Total(u, S \ {x}) /\ b = Total(v, S \ {x}) /\ c = Total(w, S \ {x})
    OBVIOUS
  <2>4. a \in Int /\ b \in Int /\ c \in Int /\ a = k * b + c
    <3>1. a = k * b + c
      BY <1>2, <2>3
    <3>2. Total(u, S \ {x}) \in Int
      BY <2>1, <2>2, TotalTakes
    <3>3. Total(v, S \ {x}) \in Int
      BY <2>1, <2>2, TotalTakes
    <3>4. Total(w, S \ {x}) \in Int
      BY <2>1, <2>2, TotalTakes
    <3> QED BY ONLY <2>3, <3>1, <3>2, <3>3, <3>4
  <2>5. Total(u, S) = u[x] + a
    BY <2>1, <2>2, <2>3, TotalTakes
  <2>6. Total(v, S) = v[x] + b
    BY <2>1, <2>2, <2>3, TotalTakes
  <2>7. Total(w, S) = w[x] + c
    BY <2>1, <2>2, <2>3, TotalTakes
  <2>8. \A vx \in Int, wx \in Int : (k * vx + wx) + (k * b + c) = k * (vx + b) + (wx + c)
    BY <2>4
  <2>9. u[x] + a = k * (v[x] + b) + (w[x] + c)
    BY <2>4, <2>8 DEF Combines
  <2> QED BY <2>5, <2>6, <2>7, <2>9
<1>3. SUBSET D \subseteq Q
  <2> HIDE DEF Q
  <2> QED BY <1>1, <1>2, SetInduction
<1> QED BY <1>3

\* And monotone.
LEMMA TotalMonotone ==
    ASSUME NEW D, IsFiniteSet(D), NEW v, NEW w,
           \A x \in D : v[x] \in Int /\ w[x] \in Int /\ v[x] <= w[x]
    PROVE  Total(v, D) <= Total(w, D)
<1> DEFINE Q == {S \in SUBSET D : Total(v, S) <= Total(w, S)}
<1>1. {} \in Q
  BY TotalOfNone
<1>2. ASSUME NEW S \in SUBSET D, NEW x \in S, S \ {x} \in Q
      PROVE  S \in Q
  <2>1. IsFiniteSet(S) /\ IsFiniteSet(S \ {x})
    BY FS_Subset
  <2>2. \A y \in S : v[y] \in Int /\ w[y] \in Int
    OBVIOUS
  <2>3. Total(v, S \ {x}) \in Int /\ Total(w, S \ {x}) \in Int
    BY <2>1, <2>2, TotalTakes
  <2>4. Total(v, S) = v[x] + Total(v, S \ {x}) /\ Total(w, S) = w[x] + Total(w, S \ {x})
    BY <2>1, <2>2, TotalTakes
  <2>5. Total(v, S \ {x}) <= Total(w, S \ {x})
    BY <1>2
  <2>6. v[x] \in Int /\ w[x] \in Int /\ v[x] <= w[x]
    OBVIOUS
  <2>7. Total(v, S) <= Total(w, S)
    BY ONLY <2>3, <2>4, <2>5, <2>6
  <2> QED BY <2>7
<1>3. SUBSET D \subseteq Q
  <2> HIDE DEF Q
  <2> QED BY <1>1, <1>2, SetInduction
<1> QED BY <1>3

\* It depends on the values over the set alone.
LEMMA TotalSame ==
    ASSUME NEW D, IsFiniteSet(D), NEW v, NEW w,
           \A x \in D : v[x] \in Int /\ v[x] = w[x]
    PROVE  Total(v, D) = Total(w, D)
<1>1. Total(v, D) <= Total(w, D) /\ Total(w, D) <= Total(v, D)
  BY TotalMonotone
<1>2. Total(v, D) \in Int /\ Total(w, D) \in Int
  BY TotalTakes
<1> QED BY <1>1, <1>2

\* Equal values are multiplied by their number.
LEMMA TotalOfEqual ==
    ASSUME NEW D, IsFiniteSet(D), NEW k \in Int, NEW v, \A x \in D : v[x] = k
    PROVE  Total(v, D) = k * Cardinality(D)
<1> DEFINE Q == {S \in SUBSET D : Total(v, S) = k * Cardinality(S)}
<1>1. {} \in Q
  BY TotalOfNone, FS_EmptySet
<1>2. ASSUME NEW S \in SUBSET D, NEW x \in S, S \ {x} \in Q
      PROVE  S \in Q
  <2>1. IsFiniteSet(S) /\ IsFiniteSet(S \ {x})
    BY FS_Subset
  <2>2. \A y \in S : v[y] \in Int
    OBVIOUS
  <2>3. Total(v, S) = k + Total(v, S \ {x})
    BY <2>1, <2>2, TotalTakes
  <2>4. PICK n : n = Cardinality(S \ {x})
    OBVIOUS
  <2>5. n \in Nat /\ Cardinality(S) = n + 1
    BY <2>1, <2>4, FS_RemoveElement, FS_CardinalityType
  <2>6. k * (n + 1) = k + k * n
    BY <2>5
  <2>7. Total(v, S \ {x}) = k * n
    BY <1>2, <2>4
  <2>8. Total(v, S) = k * Cardinality(S)
    BY ONLY <2>3, <2>5, <2>6, <2>7
  <2> QED BY <2>8
<1>3. SUBSET D \subseteq Q
  <2> HIDE DEF Q
  <2> QED BY <1>1, <1>2, SetInduction
<1> QED BY <1>3

\* The sum over two sets without a common member is the sum of the two.
LEMMA TotalUnion ==
    ASSUME NEW D, IsFiniteSet(D), NEW E, IsFiniteSet(E), D \cap E = {}, NEW v,
           \A x \in D \cup E : v[x] \in Int
    PROVE  Total(v, D \cup E) = Total(v, D) + Total(v, E)
<1> DEFINE Q == {S \in SUBSET D : Total(v, S \cup E) = Total(v, S) + Total(v, E)}
<1>0. Total(v, E) \in Int
  BY TotalTakes
<1>1. {} \in Q
  <2>1. {} \cup E = E
    OBVIOUS
  <2> QED BY <1>0, <2>1, TotalOfNone
<1>2. ASSUME NEW S \in SUBSET D, NEW x \in S, S \ {x} \in Q
      PROVE  S \in Q
  <2>1. IsFiniteSet(S) /\ IsFiniteSet(S \cup E) /\ IsFiniteSet(S \ {x})
    BY FS_Subset, FS_Union
  <2>2. \A y \in S \cup E : v[y] \in Int
    OBVIOUS
  <2>3. Total(v, S) = v[x] + Total(v, S \ {x}) /\ Total(v, S \ {x}) \in Int
    BY <2>1, <2>2, TotalTakes
  <2>4. (S \cup E) \ {x} = (S \ {x}) \cup E
    OBVIOUS
  <2>5. Total(v, S \cup E) = v[x] + Total(v, (S \cup E) \ {x})
    BY <2>1, <2>2, TotalTakes
  <2>6. Total(v, (S \ {x}) \cup E) = Total(v, S \ {x}) + Total(v, E)
    BY <1>2
  <2>7. v[x] \in Int
    OBVIOUS
  <2>8. PICK a, b, c : /\ a = Total(v, S \ {x}) /\ b = Total(v, E)
                       /\ c = Total(v, (S \ {x}) \cup E)
    OBVIOUS
  <2>9. Total(v, S \cup E) = v[x] + c /\ Total(v, S) = v[x] + a
    BY ONLY <2>3, <2>4, <2>5, <2>8
  <2>10. a \in Int /\ b \in Int /\ c = a + b
    BY ONLY <1>0, <2>3, <2>6, <2>8
  <2>11. Total(v, S \cup E) = Total(v, S) + Total(v, E)
    BY ONLY <2>7, <2>8, <2>9, <2>10
  <2> QED BY <2>11
<1>3. SUBSET D \subseteq Q
  <2> HIDE DEF Q
  <2> QED BY <1>1, <1>2, SetInduction
<1> QED BY <1>3

-----------------------------------------------------------------------------
(* The folds of the community modules *)

\* FoldLeft walks by the highest index, which is one of them.
LEMMA HighestIsIn ==
    ASSUME NEW n \in Nat, NEW S \in SUBSET (1 .. n), S # {}
    PROVE  Max(S) \in S
<1> DEFINE T == {m \in Nat : \E x \in S : m = n - x}
<1>1. T \in SUBSET Nat /\ T # {}
  <2>1. PICK x \in S : TRUE
    OBVIOUS
  <2>2. n - x \in T
    OBVIOUS
  <2> QED BY <2>2
<1>2. PICK m \in T : \A k \in T : m <= k
  <2> HIDE DEF T
  <2> QED BY <1>1, LeastNatural
<1>3. PICK x \in S : m = n - x
  OBVIOUS
<1>4. \A y \in S : x >= y
  <2> SUFFICES ASSUME NEW y \in S PROVE x >= y
    OBVIOUS
  <2>1. n - y \in T
    OBVIOUS
  <2> QED BY <1>2, <1>3, <2>1
<1> QED BY <1>4 DEF Max

\* The highest index of a prefix is its last.
LEMMA PrefixEnds ==
    ASSUME NEW n \in Nat, NEW k \in 1 .. n
    PROVE  /\ 1 .. k \in SUBSET (1 .. n) /\ 1 .. k # {}
           /\ Max(1 .. k) = k /\ (1 .. k) \ {Max(1 .. k)} = 1 .. (k - 1)
<1>1. PICK S : S = 1 .. k
  OBVIOUS
<1>2. k \in S /\ \A y \in S : k >= y
  BY <1>1
<1>3. \A x \in S : (\A y \in S : x >= y) => x = k
  BY <1>1, <1>2
<1>4. Max(S) = k
  BY <1>2, <1>3, Zenon DEF Max
<1> QED BY <1>1, <1>4

\* h is the fold from base over the parts of D, T[i] being the step at i.
FoldsBy(h, S, base, T) ==
    \A s \in S : h[s] = IF s = {} THEN base ELSE T[Max(s)][h[s \ {Max(s)}]]

\* The recursive definition of a fold over indices defines a function.
LEMMA FoldExists ==
    ASSUME NEW n \in Nat, NEW X, NEW base \in X, NEW T \in [1 .. n -> [X -> X]]
    PROVE  \E h \in [SUBSET (1 .. n) -> X] : FoldsBy(h, SUBSET (1 .. n), base, T)
<1>0. PICK D : D = 1 .. n
  OBVIOUS
<1> DEFINE P == {k \in Nat : \E h \in [Small(D, k) -> X] : FoldsBy(h, Small(D, k), base, T)}
<1>1. IsFiniteSet(D) /\ Cardinality(D) = n
  BY <1>0, FS_Interval
<1>2. \A s \in SUBSET D : IsFiniteSet(s) /\ Cardinality(s) \in Nat
  BY <1>1, FS_Subset, FS_CardinalityType
<1>3. \A s \in SUBSET D : s # {} => Max(s) \in s /\ Max(s) \in D
  BY <1>0, HighestIsIn
<1>4. 0 \in P
  <2>1. \A s \in Small(D, 0) : s = {}
    BY <1>2, FS_EmptySet DEF Small
  <2>2. PICK h : h = [s \in Small(D, 0) |-> base]
    OBVIOUS
  <2>3. h \in [Small(D, 0) -> X] /\ FoldsBy(h, Small(D, 0), base, T)
    BY <2>1, <2>2 DEF FoldsBy
  <2> QED BY <2>3
<1>5. ASSUME NEW k \in P PROVE k + 1 \in P
  <2>1. PICK h \in [Small(D, k) -> X] : FoldsBy(h, Small(D, k), base, T)
    OBVIOUS
  <2>2. PICK f : f = [s \in Small(D, k + 1) |->
                        IF s = {} THEN base ELSE T[Max(s)][h[s \ {Max(s)}]]]
    OBVIOUS
  <2>3. \A s \in Small(D, k) : s \in Small(D, k + 1) /\ f[s] = h[s]
    <3>1. \A s \in Small(D, k) : s \in Small(D, k + 1)
      BY <1>2 DEF Small
    <3> QED BY <2>1, <2>2, <3>1 DEF FoldsBy
  <2>4. ASSUME NEW s \in Small(D, k + 1), s # {}
        PROVE  Max(s) \in D /\ s \ {Max(s)} \in Small(D, k)
    <3>1. s \in SUBSET D /\ Max(s) \in s /\ Max(s) \in D
      BY <1>3, <2>4 DEF Small
    <3>2. Cardinality(s \ {Max(s)}) = Cardinality(s) - 1
      BY <1>2, <3>1, FS_RemoveElement
    <3> QED BY <1>2, <3>1, <3>2 DEF Small
  <2>5. f \in [Small(D, k + 1) -> X]
    <3>1. ASSUME NEW s \in Small(D, k + 1), s # {} PROVE T[Max(s)][h[s \ {Max(s)}]] \in X
      BY <1>0, <2>1, <2>4, <3>1
    <3> QED BY <2>2, <3>1
  <2>6. FoldsBy(f, Small(D, k + 1), base, T)
    BY <2>2, <2>3, <2>4 DEF FoldsBy
  <2>7. k + 1 \in Nat
    OBVIOUS
  <2> QED BY <2>5, <2>6, <2>7
<1>6. P = Nat
  <2> HIDE DEF P
  <2>1. P \in SUBSET Nat
    BY DEF P
  <2> QED BY <1>4, <1>5, <2>1, Induction
<1>7. n \in P
  BY <1>6
<1>8. Small(D, n) = SUBSET D
  BY <1>1, <1>2, FS_Subset DEF Small
<1> QED BY <1>0, <1>7, <1>8

\* Adding up a sequence by FoldLeft is its sum over the indices.
LEMMA SequenceSum ==
    ASSUME NEW n \in Nat, NEW q, DOMAIN q = 1 .. n, \A i \in 1 .. n : q[i] \in Int
    PROVE  FoldLeft(LAMBDA x, y : x + y, 0, q) = Total(q, 1 .. n)
<1> DEFINE step(h) == [s \in SUBSET (DOMAIN q) |->
                         IF s = {} THEN 0 ELSE h[s \ {Max(s)}] + q[Max(s)]]
<1>1. FoldLeft(LAMBDA x, y : x + y, 0, q) = (CHOOSE h : h = step(h))[DOMAIN q]
  BY Zenon DEF FoldLeft, MapThenFoldSet
<1>2. PICK D : D = 1 .. n /\ DOMAIN q = D
  OBVIOUS
<1>3. IsFiniteSet(D) /\ \A x \in D : q[x] \in Int
  BY <1>2, FS_Interval
<1>4. PICK g : g = SumTable(q, D) /\ Sums(g, SUBSET D, q)
  BY <1>3, TableSums
<1>5. \A s \in SUBSET D : s # {} => Max(s) \in s
  BY <1>2, HighestIsIn
<1>6. g = step(g)
  <2>1. ASSUME NEW s \in SUBSET D PROVE g[s] = step(g)[s]
    <3>1. CASE s = {}
      BY <1>2, <1>4, <3>1 DEF Sums
    <3>2. CASE s # {}
      <4>1. PICK x \in s : x = Max(s)
        BY <1>5, <3>2
      <4>2. g[s] = q[x] + g[s \ {x}] /\ q[x] \in Int /\ g[s \ {x}] \in Int
        BY <1>3, <1>4 DEF Sums
      <4>3. step(g)[s] = g[s \ {x}] + q[x]
        BY <1>2, <3>2, <4>1
      <4> QED BY ONLY <4>2, <4>3
    <3> QED BY <3>1, <3>2
  <2>2. g \in [SUBSET D -> Int]
    BY <1>4 DEF Sums
  <2> QED BY <1>2, <2>1, <2>2
<1>7. PICK h : h = (CHOOSE f : f = step(f)) /\ h = step(h)
  <2> HIDE DEF step
  <2> QED BY <1>6
<1>8. TakesOut(h, SUBSET D, q)
  <2>1. h[{}] = 0
    BY <1>2, <1>7
  <2>2. ASSUME NEW s \in SUBSET D, s # {}
        PROVE  \E x \in s : h[s] \in {q[x] + h[s \ {x}], h[s \ {x}] + q[x]}
    <3>1. PICK x \in s : x = Max(s)
      BY <1>5, <2>2
    <3>2. h[s] = h[s \ {x}] + q[x]
      BY <1>2, <1>7, <2>2, <3>1
    <3> QED BY <3>2
  <2> QED BY <2>1, <2>2 DEF TakesOut
<1>9. IsFiniteSet(D)
  BY <1>3
<1>10. \A x \in D : q[x] \in Int
  BY <1>3
<1>11. Sums(g, SUBSET D, q)
  BY <1>4
<1>12. \A s \in SUBSET D : h[s] = g[s]
  BY ONLY <1>8, <1>9, <1>10, <1>11, SumsUnique
<1> QED BY <1>1, <1>2, <1>4, <1>7, <1>12 DEF Total

\* The step of a fold that takes any member out first.
AnyFirst(h, v, D) ==
    [s \in SUBSET D |-> IF s = {} THEN 0
                        ELSE v[CHOOSE x \in s : TRUE] + h[s \ {CHOOSE x \in s : TRUE}]]

\* The fold of a finite set adds its values up.
LEMMA FoldedSum ==
    ASSUME NEW D, IsFiniteSet(D), NEW v, \A x \in D : v[x] \in Int
    PROVE  (CHOOSE h : h = AnyFirst(h, v, D))[D] = Total(v, D)
<1>1. PICK g : g = SumTable(v, D) /\ Sums(g, SUBSET D, v)
  BY TableSums
<1>2. g = AnyFirst(g, v, D)
  <2>1. g \in [SUBSET D -> Int] /\ g[{}] = 0
    BY <1>1 DEF Sums
  <2>2. ASSUME NEW s \in SUBSET D, s # {} PROVE g[s] = AnyFirst(g, v, D)[s]
    <3>1. PICK x \in s : x = CHOOSE y \in s : TRUE
      BY <2>2
    <3>2. g[s] = v[x] + g[s \ {x}]
      BY <1>1 DEF Sums
    <3> QED BY <2>2, <3>1, <3>2 DEF AnyFirst
  <2>3. AnyFirst(g, v, D)[{}] = 0
    BY DEF AnyFirst
  <2>4. \A s \in SUBSET D : g[s] = AnyFirst(g, v, D)[s]
    BY <2>1, <2>2, <2>3
  <2>5. AnyFirst(g, v, D) = [s \in SUBSET D |-> AnyFirst(g, v, D)[s]]
    BY DEF AnyFirst
  <2> QED BY <2>1, <2>4, <2>5
<1>3. PICK h : h = (CHOOSE f : f = AnyFirst(f, v, D)) /\ h = AnyFirst(h, v, D)
  BY <1>2
<1>4. TakesOut(h, SUBSET D, v)
  <2>1. h[{}] = 0
    BY <1>3 DEF AnyFirst
  <2>2. ASSUME NEW s \in SUBSET D, s # {}
        PROVE  \E x \in s : h[s] \in {v[x] + h[s \ {x}], h[s \ {x}] + v[x]}
    <3>1. PICK x \in s : x = CHOOSE y \in s : TRUE
      BY <2>2
    <3>2. h[s] = v[x] + h[s \ {x}]
      BY <1>3, <2>2, <3>1 DEF AnyFirst
    <3> QED BY <3>2
  <2> QED BY <2>1, <2>2 DEF TakesOut
<1>5. Sums(g, SUBSET D, v)
  BY <1>1
<1>6. \A s \in SUBSET D : h[s] = g[s]
  BY ONLY <1>4, <1>5, IsFiniteSet(D), \A x \in D : v[x] \in Int, SumsUnique
<1> QED BY <1>1, <1>3, <1>6 DEF Total

\* w[r] is the sum of v over the group of r: the members f puts there.
SumsOfGroups(w, R, f, D, v) == \A r \in R : w[r] = Total(v, {x \in D : f[x] = r})

\* What is added up group by group is added up once.
LEMMA GroupsAddUp ==
    ASSUME NEW D, IsFiniteSet(D), NEW v, \A x \in D : v[x] \in Int,
           NEW R, IsFiniteSet(R), NEW f \in [D -> R], NEW w, SumsOfGroups(w, R, f, D, v)
    PROVE  Total(w, R) = Total(v, D)
<1> DEFINE part(S) == {x \in D : f[x] \in S}
           Q == {S \in SUBSET R : Total(w, S) = Total(v, part(S))}
<1>0. ASSUME NEW S \in SUBSET D PROVE IsFiniteSet(S) /\ Total(v, S) \in Int
  <2>1. IsFiniteSet(S) /\ \A x \in S : v[x] \in Int
    BY FS_Subset
  <2> QED BY <2>1, TotalTakes
<1>1. {} \in Q
  <2>1. part({}) = {}
    OBVIOUS
  <2> QED BY <2>1, TotalOfNone
<1>2. ASSUME NEW S \in SUBSET R, NEW r \in S, S \ {r} \in Q
      PROVE  S \in Q
  <2>1. PICK one, rest : one = {x \in D : f[x] = r} /\ rest = part(S \ {r})
    OBVIOUS
  <2>2. one \cap rest = {} /\ one \cup rest = part(S) /\ one \in SUBSET D /\ rest \in SUBSET D
    BY <2>1
  <2>3. Total(v, part(S)) = Total(v, one) + Total(v, rest)
    <3>1. IsFiniteSet(one) /\ IsFiniteSet(rest) /\ \A x \in one \cup rest : v[x] \in Int
      BY <1>0, <2>2
    <3>2. Total(v, one \cup rest) = Total(v, one) + Total(v, rest)
      BY ONLY <2>2, <3>1, TotalUnion
    <3> QED BY <2>2, <3>2
  <2>4. w[r] = Total(v, one) /\ Total(w, S \ {r}) = Total(v, rest)
    BY <1>2, <2>1 DEF SumsOfGroups
  <2>5. IsFiniteSet(S) /\ \A q \in S : w[q] \in Int
    <3>1. \A q \in S : {x \in D : f[x] = q} \in SUBSET D
      OBVIOUS
    <3> QED BY <1>0, <3>1, FS_Subset DEF SumsOfGroups
  <2>6. Total(w, S) = w[r] + Total(w, S \ {r})
    BY <2>5, TotalTakes
  <2>7. Total(w, S) = Total(v, part(S))
    BY ONLY <2>3, <2>4, <2>6
  <2> QED BY <2>7
<1>3. SUBSET R \subseteq Q
  <2> HIDE DEF Q
  <2> QED BY ONLY <1>1, <1>2, IsFiniteSet(R), SetInduction
<1>4. Total(w, R) = Total(v, part(R))
  BY <1>3
<1>5. part(R) = D
  OBVIOUS
<1> QED BY <1>4, <1>5

\* Counting group by group counts once.
LEMMA GroupsCount ==
    ASSUME NEW D, IsFiniteSet(D), NEW R, IsFiniteSet(R), NEW f \in [D -> R],
           NEW w, \A r \in R : w[r] = Cardinality({x \in D : f[x] = r})
    PROVE  Total(w, R) = Cardinality(D)
<1>1. PICK v : v = [x \in D |-> 1]
  OBVIOUS
<1>2. ASSUME NEW S \in SUBSET D PROVE Total(v, S) = Cardinality(S)
  <2>1. IsFiniteSet(S) /\ Cardinality(S) \in Nat
    BY FS_Subset, FS_CardinalityType
  <2>2. \A x \in S : v[x] = 1
    BY <1>1
  <2>3. Total(v, S) = 1 * Cardinality(S)
    BY <2>1, <2>2, TotalOfEqual
  <2> QED BY <2>1, <2>3
<1>3. \A x \in D : v[x] \in Int
  BY <1>1
<1>4. SumsOfGroups(w, R, f, D, v)
  BY <1>2 DEF SumsOfGroups
<1>5. Total(w, R) = Total(v, D)
  BY ONLY <1>3, <1>4, IsFiniteSet(D), IsFiniteSet(R), f \in [D -> R], GroupsAddUp
<1> QED BY <1>2, <1>5

-----------------------------------------------------------------------------
(* Ranks *)

\* Before[i] is what comes before i in an order of the finite set D: the
\* number of those is a rank that no two members share.
IsOrder(Before, D) ==
    /\ \A i \in D : Before[i] \subseteq D /\ i \notin Before[i]
    /\ \A i \in D : \A j \in Before[i] : Before[j] \subseteq Before[i]
    /\ \A i, j \in D : i # j => i \in Before[j] \/ j \in Before[i]

\* Ranks are below the number of members, and differ.
LEMMA RanksDiffer ==
    ASSUME NEW D, IsFiniteSet(D), NEW Before, IsOrder(Before, D)
    PROVE  /\ \A i \in D : Cardinality(Before[i]) \in 0 .. Cardinality(D) - 1
           /\ \A i, j \in D : i # j => Cardinality(Before[i]) # Cardinality(Before[j])
<1>1. ASSUME NEW i \in D PROVE /\ IsFiniteSet(Before[i])
                               /\ Cardinality(Before[i]) \in 0 .. Cardinality(D) - 1
  <2>1. Before[i] \in SUBSET D /\ Before[i] # D
    BY DEF IsOrder
  <2>2. /\ IsFiniteSet(Before[i]) /\ Cardinality(Before[i]) <= Cardinality(D)
        /\ Cardinality(Before[i]) # Cardinality(D)
    BY <2>1, FS_Subset
  <2>3. Cardinality(D) \in Nat /\ Cardinality(Before[i]) \in Nat
    BY <2>2, FS_CardinalityType
  <2> QED BY <2>2, <2>3
<1>2. ASSUME NEW i \in D, NEW j \in Before[i]
      PROVE  Cardinality(Before[j]) # Cardinality(Before[i])
  <2>1. j \in D /\ Before[j] \in SUBSET Before[i] /\ Before[j] # Before[i]
    BY DEF IsOrder
  <2> QED BY <1>1, <2>1, FS_Subset
<1>3. ASSUME NEW i \in D, NEW j \in D, i # j
      PROVE  Cardinality(Before[i]) # Cardinality(Before[j])
  <2>1. i \in Before[j] \/ j \in Before[i]
    BY <1>3 DEF IsOrder
  <2> QED BY <1>2, <2>1
<1> QED BY <1>1, <1>3

\* As many members as one asks for have a rank below that number.
LEMMA FirstRanks ==
    ASSUME NEW D, IsFiniteSet(D), NEW Before, IsOrder(Before, D),
           NEW k \in 0 .. Cardinality(D)
    PROVE  Cardinality({i \in D : Cardinality(Before[i]) < k}) = k
<1>1. PICK n : n = Cardinality(D) /\ n \in Nat
  BY FS_CardinalityType
<1>2. PICK rank : rank = [i \in D |-> Cardinality(Before[i])]
  OBVIOUS
<1>3. /\ \A i \in D : rank[i] \in 0 .. n - 1 /\ rank[i] = Cardinality(Before[i])
      /\ \A i, j \in D : i # j => rank[i] # rank[j]
  BY <1>1, <1>2, RanksDiffer
<1>4. rank \in Injection(D, 0 .. n - 1)
  BY <1>2, <1>3 DEF Injection, IsInjective
<1>5. IsFiniteSet(0 .. n - 1) /\ Cardinality(0 .. n - 1) = n
  <2>1. n \in Nat /\ n - 1 \in Int
    BY <1>1
  <2> QED BY ONLY <2>1, FS_Interval
<1>6. rank \in Surjection(D, 0 .. n - 1)
  BY <1>1, <1>4, <1>5, FS_Injection
<1>7. PICK S : S = {i \in D : Cardinality(Before[i]) < k}
  OBVIOUS
<1>8. PICK low : low = [i \in S |-> rank[i]]
  OBVIOUS
<1>9. k \in Nat /\ k <= n
  BY <1>1
<1>10. low \in [S -> 0 .. k - 1]
  BY <1>3, <1>7, <1>8, <1>9
<1>11. low \in Injection(S, 0 .. k - 1)
  BY <1>3, <1>7, <1>8, <1>10 DEF Injection, IsInjective
<1>12. \A r \in 0 .. k - 1 : \E i \in S : low[i] = r
  <2> SUFFICES ASSUME NEW r \in 0 .. k - 1 PROVE \E i \in S : low[i] = r
    OBVIOUS
  <2>1. \A t \in 0 .. n - 1 : \E i \in D : rank[i] = t
    BY <1>6 DEF Surjection
  <2>2. r \in 0 .. n - 1
    BY <1>1, <1>9
  <2>3. PICK i \in D : rank[i] = r
    BY ONLY <2>1, <2>2
  <2> QED BY <1>3, <1>7, <1>8, <1>9, <2>3
<1>13. low \in Surjection(S, 0 .. k - 1)
  BY <1>10, <1>12 DEF Surjection
<1>14. IsFiniteSet(0 .. k - 1) /\ Cardinality(0 .. k - 1) = k
  BY <1>9, FS_Interval
<1>15. Cardinality(S) = Cardinality(0 .. k - 1)
  BY <1>11, <1>13, <1>14, FS_Injection
<1> QED BY <1>7, <1>14, <1>15

-----------------------------------------------------------------------------
(* Division, and the pages of a list *)

\* A whole is its quotient times the divisor, and a remainder below it.
LEMMA DivMod ==
    ASSUME NEW a \in Nat, NEW b \in Nat, b > 0
    PROVE  /\ a \div b \in Nat /\ a % b \in 0 .. b - 1
           /\ a = b * (a \div b) + (a % b)
<1>1. a \div b \in Int /\ a % b \in 0 .. b - 1 /\ a = b * (a \div b) + (a % b)
  OBVIOUS
<1>2. PICK q \in Int : q = a \div b
  BY <1>1
<1>3. q >= 0
  <2> SUFFICES ASSUME q <= -1 PROVE FALSE
    OBVIOUS
  <2>1. PICK d \in Nat : q = -1 - d
    <3>1. -1 - q \in Nat /\ q = -1 - (-1 - q)
      OBVIOUS
    <3> QED BY <3>1
  <2>2. b * q = -b - b * d /\ b * d \in Nat
    BY <2>1
  <2> QED BY <1>1, <1>2, <2>2
<1> QED BY <1>1, <1>2, <1>3

\* A larger factor makes a larger product.
LEMMA TimesGrows ==
    ASSUME NEW a \in Int, NEW b \in Int, NEW k \in Nat, a < b
    PROVE  k * a \in Int /\ k * b \in Int /\ k * a + k <= k * b
<1>1. PICK d \in Nat : b = a + 1 + d
  <2>1. b - a - 1 \in Nat /\ b = a + 1 + (b - a - 1)
    OBVIOUS
  <2> QED BY <2>1
<1>2. PICK x \in Int, y \in Nat : x = k * a /\ y = k * d
  <2>1. k * a \in Int /\ k * d \in Nat
    BY <1>1
  <2> QED BY <2>1
<1>3. k * b = x + k + y
  BY <1>1, <1>2
<1> QED BY <1>2, <1>3

\* A row's place in the order falls on one page.
LEMMA OnePage ==
    ASSUME NEW size \in Nat, size > 0, NEW last \in Nat, NEW r \in Nat, r < last
    PROVE  Cardinality({p \in 1 .. last \div size + 1 :
                          r \in (p - 1) * size .. p * size - 1}) = 1
<1>1. PICK q \in Nat, f \in 0 .. size - 1 : q = r \div size /\ r = size * q + f
  BY DivMod
<1>2. PICK l \in Nat, g \in 0 .. size - 1 : l = last \div size /\ last = size * l + g
  BY DivMod
<1>3. q <= l
  <2> SUFFICES ASSUME l < q PROVE FALSE
    OBVIOUS
  <2>1. size * l + size <= size * q /\ size * l \in Int /\ size * q \in Int
    BY TimesGrows
  <2> QED BY <1>1, <1>2, <2>1
<1>4. PICK P : P = {p \in 1 .. last \div size + 1 : r \in (p - 1) * size .. p * size - 1}
  OBVIOUS
<1>5. \A p \in Int : (p - 1) * size = size * (p - 1) /\ p * size = size * p
  OBVIOUS
<1>6. q + 1 \in P
  <2>1. q + 1 \in 1 .. l + 1
    BY <1>3
  <2>2. PICK x \in Nat : x = size * q
    OBVIOUS
  <2>3. ((q + 1) - 1) * size = x /\ (q + 1) * size = x + size
    BY <2>2
  <2>4. r \in ((q + 1) - 1) * size .. (q + 1) * size - 1
    BY <1>1, <2>2, <2>3
  <2> QED BY <1>2, <1>4, <2>1, <2>4
<1>7. ASSUME NEW p \in P PROVE p = q + 1
  <2>1. p \in Int /\ r >= size * (p - 1) /\ r <= size * p - 1
    BY <1>2, <1>4, <1>5
  <2>2. ASSUME p < q + 1 PROVE FALSE
    <3>1. p - 1 \in Int /\ p - 1 < q
      BY <2>1, <2>2
    <3>2. size * p - size <= size * q - size
      <4>1. CASE p = q
        BY <4>1
      <4>2. CASE p < q
        <5>1. size * p + size <= size * q /\ size * p \in Int /\ size * q \in Int
          BY <2>1, <4>2, TimesGrows
        <5> QED BY <5>1
      <4> QED BY <2>1, <2>2, <4>1, <4>2
    <3>3. PICK x \in Int, y \in Int : x = size * p /\ y = size * q
      <4>1. size * p \in Int /\ size * q \in Int
        BY <2>1
      <4> QED BY <4>1
    <3> QED BY <1>1, <2>1, <3>2, <3>3
  <2>3. ASSUME q + 1 < p PROVE FALSE
    <3>1. q < p - 1 /\ p - 1 \in Int
      BY <2>1, <2>3
    <3>2. size * q + size <= size * (p - 1) /\ size * q \in Int /\ size * (p - 1) \in Int
      BY <3>1, TimesGrows
    <3> QED BY <1>1, <2>1, <3>2
  <2> QED BY <2>1, <2>2, <2>3
<1>8. P = {q + 1}
  BY <1>6, <1>7
<1>9. Cardinality(P) = 1
  BY <1>8, FS_Singleton
<1> QED BY <1>4, <1>9

=============================================================================
