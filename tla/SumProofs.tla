------------------------------ MODULE SumProofs ------------------------------
(***************************************************************************)
(* What the proofs need of sums, folds and lists.                          *)
(*                                                                         *)
(* Sums over finite sets, as the book takes them of resting quantities and *)
(* the account of exposures: whatever order the elements are taken in, a   *)
(* sum is any of its terms and the sum of the others.                      *)
(***************************************************************************)
EXTENDS Integers, Sequences, FiniteSets, FiniteSetsExt, Functions, SequencesExt,
        FiniteSetTheorems, SequenceTheorems, WellFoundedInduction, TLAPS

Picked(s) == CHOOSE x \in s : TRUE

(* g gives every subset of S the sum of its terms f, as MapThenSumSet does. *)
Summing(g, f, S) ==
    g = [s \in SUBSET S |-> IF s = {} THEN 0 ELSE f[Picked(s)] + g[s \ {Picked(s)}]]

(* Division with remainder.                                                *)
LEMMA Division ==
    ASSUME NEW a \in Nat, NEW b \in Nat \ {0}
    PROVE  a = b * (a \div b) + (a % b) /\ a \div b \in Nat /\ a % b \in Nat /\ a % b < b
OBVIOUS

(* A nonempty set of naturals has a least element.                         *)
LEMMA LeastElement ==
    ASSUME NEW T \in SUBSET Nat, T # {}
    PROVE  \E m \in T : \A n \in T : m <= n
<1>1. PICK m \in T : \A n \in T : ~ (<<n, m>> \in OpToRel(<, Nat))
  BY NatLessThanWellFounded, WFMin
<1>2. \A n \in T : ~ (n < m)
  BY <1>1 DEF OpToRel
<1>3. m \in Nat /\ \A n \in T : n \in Nat
  OBVIOUS
<1>4. \A n \in T : m <= n
  BY <1>2, <1>3
<1>5. QED
  BY <1>4

LEMMA SubsetsOfFinite ==
    ASSUME NEW S, IsFiniteSet(S), NEW s \in SUBSET S
    PROVE  /\ IsFiniteSet(s) /\ Cardinality(s) \in Nat /\ Cardinality(s) <= Cardinality(S)
           /\ s # {} => Picked(s) \in s
           /\ \A x \in s : /\ s \ {x} \in SUBSET S
                           /\ Cardinality(s \ {x}) = Cardinality(s) - 1
           /\ Cardinality(s) = 0 <=> s = {}
<1>1. IsFiniteSet(s) /\ Cardinality(s) \in Nat /\ Cardinality(s) <= Cardinality(S)
  BY FS_Subset, FS_CardinalityType
<1>2. \A x \in s : Cardinality(s \ {x}) = Cardinality(s) - 1
  BY <1>1, FS_RemoveElement
<1>3. Cardinality(s) = 0 <=> s = {}
  BY <1>1, FS_EmptySet
<1>4. QED
  BY <1>1, <1>2, <1>3 DEF Picked

(* The recursion of MapThenSumSet has a solution on every finite set.      *)
LEMMA SumExists ==
    ASSUME NEW S, IsFiniteSet(S), NEW f \in [S -> Int]
    PROVE  \E g : Summing(g, f, S)
<1> DEFINE Next(g, s) == IF s = {} THEN 0 ELSE f[Picked(s)] + g[s \ {Picked(s)}]
           UpTo(g, n) == \A s \in SUBSET S : Cardinality(s) <= n => g[s] = Next(g, s)
           Bad == {n \in Nat : ~ \E g \in [SUBSET S -> Int] : UpTo(g, n)}
<1>1. ASSUME NEW g \in [SUBSET S -> Int], NEW s \in SUBSET S
      PROVE  Next(g, s) \in Int
  BY <1>1, SubsetsOfFinite
<1>2. 0 \notin Bad
  <2> DEFINE zero == [s \in SUBSET S |-> 0]
  <2>1. zero \in [SUBSET S -> Int]
    OBVIOUS
  <2>2. \A s \in SUBSET S : Cardinality(s) <= 0 => s = {}
    BY SubsetsOfFinite
  <2>3. UpTo(zero, 0)
    BY <2>2
  <2> QED BY <2>1, <2>3
<1>3. ASSUME NEW n \in Nat, n \notin Bad PROVE n + 1 \notin Bad
  <2>1. PICK g \in [SUBSET S -> Int] : UpTo(g, n)
    BY <1>3
  <2> DEFINE h == [s \in SUBSET S |-> Next(g, s)]
  <2>2. h \in [SUBSET S -> Int]
    BY <1>1
  <2>3. ASSUME NEW s \in SUBSET S, Cardinality(s) <= n + 1 PROVE h[s] = Next(h, s)
    <3>1. CASE s = {}
      BY <3>1
    <3>2. CASE s # {}
      <4> DEFINE rest == s \ {Picked(s)}
      <4>1. rest \in SUBSET S /\ Cardinality(rest) <= n
        BY <2>3, <3>2, SubsetsOfFinite
      <4>2. g[rest] = h[rest]
        BY <2>1, <4>1
      <4> QED BY <3>2, <4>2
    <3> QED BY <3>1, <3>2
  <2> QED BY <2>2, <2>3
<1> HIDE DEF Bad
<1>4. Bad = {}
  <2> SUFFICES ASSUME Bad # {} PROVE FALSE
    OBVIOUS
  <2>1. Bad \in SUBSET Nat
    BY DEF Bad
  <2>2. PICK m \in Bad : \A n \in Bad : m <= n
    BY <2>1, LeastElement
  <2>3. m \in Nat /\ m # 0
    BY <1>2, <2>1
  <2>4. m - 1 \in Nat /\ m - 1 \notin Bad /\ (m - 1) + 1 = m
    BY <2>2, <2>3
  <2> QED BY <1>3, <2>2, <2>4
<1>5. PICK g \in [SUBSET S -> Int] : UpTo(g, Cardinality(S))
  <2>1. Cardinality(S) \in Nat
    BY FS_CardinalityType
  <2> QED BY <1>4, <2>1 DEF Bad
<1>6. \A s \in SUBSET S : g[s] = Next(g, s)
  BY <1>5, SubsetsOfFinite
<1>7. g = [s \in SUBSET S |-> Next(g, s)]
  BY <1>6
<1>8. QED
  BY <1>7 DEF Summing

(* A sum is any of its terms and the sum of the others.                    *)
LEMMA SumUnfolds ==
    ASSUME NEW S, IsFiniteSet(S), NEW f \in [S -> Int], NEW g, Summing(g, f, S)
    PROVE  /\ g[{}] = 0
           /\ \A s \in SUBSET S : /\ g[s] \in Int
                                  /\ \A x \in s : g[s] = f[x] + g[s \ {x}]
<1> DEFINE Good(s) == g[s] \in Int /\ \A x \in s : g[s] = f[x] + g[s \ {x}]
           Bad == {n \in Nat : \E s \in SUBSET S : Cardinality(s) = n /\ ~ Good(s)}
<1>1. /\ g[{}] = 0
      /\ \A s \in SUBSET S : s # {} => g[s] = f[Picked(s)] + g[s \ {Picked(s)}]
  <2>1. \A s \in SUBSET S : g[s] = IF s = {} THEN 0 ELSE f[Picked(s)] + g[s \ {Picked(s)}]
    BY Zenon DEF Summing
  <2> QED BY <2>1
<1>2. ASSUME NEW n \in Nat, \A k \in Nat : k < n => k \notin Bad PROVE n \notin Bad
  <2> SUFFICES ASSUME NEW s \in SUBSET S, Cardinality(s) = n PROVE Good(s)
    OBVIOUS
  <2>0. \A u \in SUBSET S : Cardinality(u) \in Nat /\ Cardinality(u) < n => Good(u)
    BY <1>2
  <2>1. CASE s = {}
    BY <1>1, <2>1
  <2>2. CASE s # {}
    <3> DEFINE c == Picked(s)
    <3>1. c \in s /\ \A x \in s : /\ s \ {x} \in SUBSET S /\ Cardinality(s \ {x}) \in Nat
                                  /\ Cardinality(s \ {x}) < n
      BY <2>2, SubsetsOfFinite
    <3>2. \A x \in s : Good(s \ {x})
      BY <2>0, <3>1
    <3>3. g[s] = f[c] + g[s \ {c}]
      BY <1>1, <2>2
    <3> HIDE DEF c
    <3>4. ASSUME NEW x \in s, x # c PROVE g[s] = f[x] + g[s \ {x}]
      <4>1. g[s \ {c}] = f[x] + g[(s \ {c}) \ {x}]
        BY <3>1, <3>2, <3>4
      <4>2. g[s \ {x}] = f[c] + g[(s \ {x}) \ {c}]
        BY <3>1, <3>2, <3>4
      <4>3. g[s \ {x}] = f[c] + g[(s \ {c}) \ {x}]
        <5>1. (s \ {c}) \ {x} = (s \ {x}) \ {c}
          OBVIOUS
        <5> QED BY <4>2, <5>1, Zenon
      <4>4. f[x] \in Int /\ f[c] \in Int /\ g[(s \ {c}) \ {x}] \in Int
        <5>1. g[s \ {x}] \in Int /\ g[s \ {c}] \in Int
          BY <3>1, <3>2
        <5>2. (s \ {c}) \ {x} \in SUBSET S /\ Cardinality((s \ {c}) \ {x}) \in Nat
              /\ Cardinality((s \ {c}) \ {x}) < n
          <6> DEFINE u == s \ {c}
          <6>1. x \in u /\ u \in SUBSET S /\ u \ {x} \in SUBSET S
            BY <3>4
          <6>2. Cardinality(u) < n /\ Cardinality(u) \in Nat
            BY <3>1
          <6> HIDE DEF u
          <6>3. Cardinality(u \ {x}) = Cardinality(u) - 1 /\ Cardinality(u \ {x}) \in Nat
            BY <6>1, SubsetsOfFinite
          <6>4. Cardinality(u \ {x}) < n
            BY <6>2, <6>3
          <6> QED BY <6>1, <6>3, <6>4 DEF u
        <5>3. g[(s \ {c}) \ {x}] \in Int
          <6> DEFINE u == (s \ {c}) \ {x}
          <6>1. u \in SUBSET S /\ Cardinality(u) \in Nat /\ Cardinality(u) < n
            BY <5>2
          <6> HIDE DEF u
          <6>2. g[u] \in Int
            BY <2>0, <6>1
          <6> QED BY <6>2 DEF u
        <5> QED BY <3>1, <5>3
      <4> DEFINE a == f[x]  b == f[c]  r == g[(s \ {c}) \ {x}]
                 all == g[s]  others == g[s \ {x}]
      <4>5. all = b + (a + r)
        BY <3>3, <4>1, Zenon
      <4>6. others = b + r /\ a \in Int /\ b \in Int /\ r \in Int
        BY <4>3, <4>4, Zenon
      <4>7. all = a + others
        <5> HIDE DEF a, b, r, all, others
        <5> QED BY <4>5, <4>6
      <4> QED BY <4>7
    <3>5. g[s] \in Int
      <4>1. g[s \ {c}] \in Int /\ f[c] \in Int
        BY <3>1, <3>2
      <4> QED BY <3>3, <4>1
    <3> QED BY <3>3, <3>4, <3>5
  <2> QED BY <2>1, <2>2
<1>3. \A n \in Nat : n \notin Bad
  <2> HIDE DEF Bad
  <2> SUFFICES ASSUME NEW m \in Nat, m \in Bad PROVE FALSE
    OBVIOUS
  <2>1. Bad \cap Nat \in SUBSET Nat /\ Bad \cap Nat # {}
    OBVIOUS
  <2>2. PICK k \in Bad \cap Nat : \A n \in Bad \cap Nat : k <= n
    BY <2>1, LeastElement
  <2>3. \A n \in Nat : n < k => n \notin Bad
    BY <2>2
  <2> QED BY <1>2, <2>2, <2>3
<1>4. \A s \in SUBSET S : Good(s)
  BY <1>3, SubsetsOfFinite
<1>5. QED
  BY <1>1, <1>4

(* Sums of the same terms agree, whatever larger sets they are taken in.   *)
LEMMA SumAgrees ==
    ASSUME NEW S, IsFiniteSet(S), NEW f \in [S -> Int], NEW g, Summing(g, f, S),
           NEW R, IsFiniteSet(R), NEW k \in [R -> Int], NEW h, Summing(h, k, R),
           NEW T \in SUBSET (S \cap R), \A x \in T : f[x] = k[x]
    PROVE  g[T] = h[T]
<1> DEFINE Bad == {n \in Nat : \E s \in SUBSET T : Cardinality(s) = n /\ g[s] # h[s]}
<1>1. ASSUME NEW n \in Nat, \A j \in Nat : j < n => j \notin Bad PROVE n \notin Bad
  <2> SUFFICES ASSUME NEW s \in SUBSET T, Cardinality(s) = n PROVE g[s] = h[s]
    OBVIOUS
  <2>1. s \in SUBSET S /\ s \in SUBSET R
    OBVIOUS
  <2>2. CASE s = {}
    BY <2>2, SumUnfolds
  <2>3. CASE s # {}
    <3>1. PICK x \in s : TRUE
      BY <2>3
    <3>2. g[s] = f[x] + g[s \ {x}] /\ h[s] = k[x] + h[s \ {x}]
      BY <2>1, <3>1, SumUnfolds
    <3>3. Cardinality(s \ {x}) \in Nat /\ Cardinality(s \ {x}) < n
      <4>1. s \ {x} \in SUBSET S
        BY <2>1
      <4>2. Cardinality(s \ {x}) \in Nat /\ Cardinality(s \ {x}) = Cardinality(s) - 1
        BY <2>1, <3>1, <4>1, SubsetsOfFinite
      <4> QED BY <4>2
    <3>4. g[s \ {x}] = h[s \ {x}]
      BY <1>1, <3>3
    <3> QED BY <3>1, <3>2, <3>4
  <2> QED BY <2>2, <2>3
<1>2. \A n \in Nat : n \notin Bad
  <2> HIDE DEF Bad
  <2> SUFFICES ASSUME NEW m \in Nat, m \in Bad PROVE FALSE
    OBVIOUS
  <2>1. Bad \cap Nat \in SUBSET Nat /\ Bad \cap Nat # {}
    OBVIOUS
  <2>2. PICK j \in Bad \cap Nat : \A n \in Bad \cap Nat : j <= n
    BY <2>1, LeastElement
  <2>3. \A n \in Nat : n < j => n \notin Bad
    BY <2>2
  <2> QED BY <1>1, <2>2, <2>3
<1>3. T \in SUBSET T /\ Cardinality(T) \in Nat
  <2>1. T \in SUBSET S
    OBVIOUS
  <2> QED BY <2>1, SubsetsOfFinite
<1>4. QED
  BY <1>2, <1>3

(* A sum of terms that are not negative is not negative.                   *)
LEMMA SumNotNegative ==
    ASSUME NEW S, IsFiniteSet(S), NEW f \in [S -> Nat], NEW g, Summing(g, f, S)
    PROVE  \A s \in SUBSET S : g[s] \in Nat
<1> DEFINE Bad == {n \in Nat : \E s \in SUBSET S : Cardinality(s) = n /\ g[s] \notin Nat}
<1>0. f \in [S -> Int]
  OBVIOUS
<1>1. ASSUME NEW n \in Nat, \A k \in Nat : k < n => k \notin Bad PROVE n \notin Bad
  <2> SUFFICES ASSUME NEW s \in SUBSET S, Cardinality(s) = n PROVE g[s] \in Nat
    OBVIOUS
  <2>1. CASE s = {}
    BY <1>0, <2>1, SumUnfolds
  <2>2. CASE s # {}
    <3>1. PICK x \in s : TRUE
      BY <2>2
    <3>2. g[s] = f[x] + g[s \ {x}]
      BY <1>0, <3>1, SumUnfolds
    <3>3. Cardinality(s \ {x}) \in Nat /\ Cardinality(s \ {x}) < n
      BY <3>1, SubsetsOfFinite
    <3>4. g[s \ {x}] \in Nat
      BY <1>1, <3>3
    <3> QED BY <3>1, <3>2, <3>4
  <2> QED BY <2>1, <2>2
<1>2. \A n \in Nat : n \notin Bad
  <2> HIDE DEF Bad
  <2> SUFFICES ASSUME NEW m \in Nat, m \in Bad PROVE FALSE
    OBVIOUS
  <2>1. Bad \cap Nat \in SUBSET Nat /\ Bad \cap Nat # {}
    OBVIOUS
  <2>2. PICK j \in Bad \cap Nat : \A n \in Bad \cap Nat : j <= n
    BY <2>1, LeastElement
  <2>3. \A n \in Nat : n < j => n \notin Bad
    BY <2>2
  <2> QED BY <1>1, <2>2, <2>3
<1>3. QED
  BY <1>2, SubsetsOfFinite

(* A finite set of integers has a greatest element, if it has any.         *)
LEMMA GreatestElement ==
    ASSUME NEW S \in SUBSET Int, IsFiniteSet(S), S # {}
    PROVE  \E m \in S : \A n \in S : m >= n
<1> DEFINE Bad == {k \in Nat : \E s \in SUBSET S : /\ Cardinality(s) = k /\ s # {}
                                                  /\ ~ \E m \in s : \A n \in s : m >= n}
<1>1. ASSUME NEW k \in Nat, \A j \in Nat : j < k => j \notin Bad PROVE k \notin Bad
  <2> SUFFICES ASSUME NEW s \in SUBSET S, Cardinality(s) = k, s # {}
               PROVE  \E m \in s : \A n \in s : m >= n
    OBVIOUS
  <2>1. PICK x \in s : TRUE
    OBVIOUS
  <2>2. Cardinality(s \ {x}) \in Nat /\ Cardinality(s \ {x}) < k /\ s \ {x} \in SUBSET S
    <3>1. s \in SUBSET S
      OBVIOUS
    <3>2. \A y \in s : s \ {y} \in SUBSET S /\ Cardinality(s \ {y}) = Cardinality(s) - 1
      BY <3>1, SubsetsOfFinite
    <3>3. \A u \in SUBSET S : Cardinality(u) \in Nat
      BY SubsetsOfFinite
    <3> QED BY <2>1, <3>2, <3>3
  <2>3. CASE s \ {x} = {}
    BY <2>1, <2>3
  <2>4. CASE s \ {x} # {}
    <3> DEFINE u == s \ {x}
    <3>0. /\ Cardinality(u) \in Nat /\ Cardinality(u) < k /\ u \in SUBSET S /\ u # {}
          /\ \A n \in s : n \in u \/ n = x
          /\ u \in SUBSET Int /\ x \in Int /\ u \in SUBSET s
      BY <2>1, <2>2, <2>4
    <3> HIDE DEF u
    <3>1. \E m \in u : \A n \in u : m >= n
      <4>1. Cardinality(u) \notin Bad
        BY ONLY <1>1, <3>0
      <4> QED BY ONLY <4>1, <3>0
    <3>2. PICK m \in u : \A n \in u : m >= n
      BY <3>1
    <3>3. CASE m >= x
      <4>1. m \in s /\ \A n \in s : m >= n
        BY <3>0, <3>2, <3>3
      <4> QED BY <4>1
    <3>4. CASE ~(m >= x)
      <4>1. x \in s /\ \A n \in s : x >= n
        BY <2>1, <3>0, <3>2, <3>4
      <4> QED BY <4>1
    <3> QED BY <3>3, <3>4
  <2> QED BY <2>3, <2>4
<1>2. \A k \in Nat : k \notin Bad
  <2> HIDE DEF Bad
  <2> SUFFICES ASSUME NEW m \in Nat, m \in Bad PROVE FALSE
    OBVIOUS
  <2>1. Bad \cap Nat \in SUBSET Nat /\ Bad \cap Nat # {}
    OBVIOUS
  <2>2. PICK j \in Bad \cap Nat : \A n \in Bad \cap Nat : j <= n
    BY <2>1, LeastElement
  <2>3. \A n \in Nat : n < j => n \notin Bad
    BY <2>2
  <2> QED BY <1>1, <2>2, <2>3
<1>3. QED
  BY <1>2, SubsetsOfFinite

(* The image of a finite set is finite.                                    *)
LEMMA FiniteImage ==
    ASSUME NEW S, IsFiniteSet(S), NEW f, f = [x \in S |-> f[x]]
    PROVE  IsFiniteSet({f[x] : x \in S})
<1> DEFINE T == {f[x] : x \in S}
<1>1. f \in Surjection(S, T)
  BY DEF Surjection
<1>2. QED
  BY <1>1, FS_Surjection

(* One term taken out of a sum.                                            *)
LEMMA SumSteps ==
    ASSUME NEW S, IsFiniteSet(S), NEW f \in [S -> Int], NEW g, Summing(g, f, S)
    PROVE  \A x \in S : g[S] \in Int /\ g[S] = f[x] + g[S \ {x}] /\ g[S \ {x}] \in Int
<1>1. \A s \in SUBSET S : g[s] \in Int /\ (\A y \in s : g[s] = f[y] + g[s \ {y}])
  BY SumUnfolds
<1>2. S \in SUBSET S /\ \A x \in S : S \ {x} \in SUBSET S
  OBVIOUS
<1> QED
  BY <1>1, <1>2

(* Changing one term changes the sum by as much.                           *)
LEMMA SumChanges ==
    ASSUME NEW S, IsFiniteSet(S), NEW f \in [S -> Int], NEW g, Summing(g, f, S),
           NEW k \in [S -> Int], NEW h, Summing(h, k, S)
    PROVE  \A z \in S : (\A y \in S \ {z} : f[y] = k[y]) => h[S] = g[S] - f[z] + k[z]
<1>1. \A z \in S : g[S] \in Int /\ g[S] = f[z] + g[S \ {z}] /\ g[S \ {z}] \in Int
  BY SumSteps
<1>2. \A z \in S : h[S] \in Int /\ h[S] = k[z] + h[S \ {z}] /\ h[S \ {z}] \in Int
  BY SumSteps
<1>3. ASSUME NEW z \in S, \A y \in S \ {z} : f[y] = k[y]
      PROVE  h[S] = g[S] - f[z] + k[z]
  <2> DEFINE rest == S \ {z}
  <2>1. rest \in SUBSET (S \cap S) /\ \A y \in rest : f[y] = k[y]
    BY <1>3
  <2>2. /\ g[S] = f[z] + g[rest] /\ g[rest] \in Int /\ f[z] \in Int
        /\ h[S] = k[z] + h[rest] /\ h[rest] \in Int /\ k[z] \in Int
    BY <1>1, <1>2
  <2> HIDE DEF rest
  <2>3. g[rest] = h[rest]
    BY <2>1, SumAgrees
  <2> QED
    BY <2>2, <2>3
<1> QED
  BY <1>3

(* The sum of the sums is the sum of the terms added one by one.           *)
LEMMA SumAdds ==
    ASSUME NEW S, IsFiniteSet(S), NEW f \in [S -> Int], NEW g, Summing(g, f, S),
           NEW k \in [S -> Int], NEW h, Summing(h, k, S),
           NEW j, Summing(j, [x \in S |-> f[x] + k[x]], S)
    PROVE  j[S] = g[S] + h[S]
<1> DEFINE both == [x \in S |-> f[x] + k[x]]
           sums == [s \in SUBSET S |-> g[s] + h[s]]
<1>0. \A s \in SUBSET S : /\ g[s] \in Int /\ (\A y \in s : g[s] = f[y] + g[s \ {y}])
                           /\ h[s] \in Int /\ (\A y \in s : h[s] = k[y] + h[s \ {y}])
  <2>1. \A s \in SUBSET S : g[s] \in Int /\ (\A y \in s : g[s] = f[y] + g[s \ {y}])
    <3>1. IsFiniteSet(S) /\ f \in [S -> Int] /\ Summing(g, f, S)
      OBVIOUS
    <3> QED BY ONLY <3>1, SumUnfolds
  <2>2. \A s \in SUBSET S : h[s] \in Int /\ \A y \in s : h[s] = k[y] + h[s \ {y}]
    BY SumUnfolds
  <2> QED BY <2>1, <2>2
<1>1. \A x \in S : f[x] \in Int /\ k[x] \in Int /\ both[x] = f[x] + k[x]
  OBVIOUS
<1>2. both \in [S -> Int]
  BY <1>1
<1>3. ASSUME NEW s \in SUBSET S
      PROVE sums[s] = IF s = {} THEN 0 ELSE both[Picked(s)] + sums[s \ {Picked(s)}]
  <2>1. CASE s = {}
    <3>1. g[{}] = 0 /\ h[{}] = 0
      BY SumUnfolds
    <3> QED BY <2>1, <3>1
  <2>2. CASE s # {}
    <3> DEFINE x == Picked(s)
               rest == s \ {x}
    <3>1. x \in s /\ x \in S /\ rest \in SUBSET S
      BY <2>2, SubsetsOfFinite
    <3> HIDE DEF x
    <3>2. g[s] = f[x] + g[rest] /\ h[s] = k[x] + h[rest]
      BY <1>0, <3>1
    <3>3. g[rest] \in Int /\ h[rest] \in Int
      <4> HIDE DEF rest
      <4> QED BY <1>0, <3>1
    <3>4. sums[s] = both[x] + sums[rest]
      BY <1>1, <3>1, <3>2, <3>3
    <3> QED BY <2>2, <3>4 DEF x
  <2> QED BY <2>1, <2>2
<1> HIDE DEF both
<1>4. Summing(sums, both, S)
  BY <1>3 DEF Summing
<1>5. S \in SUBSET (S \cap S) /\ S \in SUBSET S
  OBVIOUS
<1>6. j[S] = sums[S]
  <2> HIDE DEF sums
  <2>1. Summing(j, both, S)
    BY DEF both
  <2> QED BY <1>2, <1>4, <1>5, <2>1, SumAgrees
<1> QED
  BY <1>5, <1>6

-----------------------------------------------------------------------------
(***************************************************************************)
(* Sums of functions: they add, scale and leave out what is zero.          *)
(***************************************************************************)

\* SumFunction is the recursive sum of SumProofs.
LEMMA SumFunctionIs ==
    ASSUME NEW S, IsFiniteSet(S), NEW f \in [S -> Int], NEW g, Summing(g, f, S)
    PROVE  SumFunction(f) = g[S] /\ SumFunction(f) \in Int
  <1> DEFINE raw(h) == [s \in SUBSET S |-> IF s = {} THEN 0 ELSE f[Picked(s)] + h[s \ {Picked(s)}]]
             sums == CHOOSE h : h = raw(h)
  <1>1. DOMAIN f = S
    OBVIOUS
  <1>2. SumFunction(f) = sums[S]
    BY <1>1 DEF SumFunction, SumFunctionOnSet, FoldFunctionOnSet, MapThenFoldSet, Picked
  <1>3. \A h : Summing(h, f, S) <=> h = raw(h)
    BY DEF Summing
  <1>4. \E h : h = raw(h)
    BY ONLY <1>3, Summing(g, f, S)
  <1>5. sums = raw(sums)
    <2> HIDE DEF raw
    <2> QED BY ONLY <1>4, Zenon DEF sums
  <1>6. Summing(sums, f, S)
    BY ONLY <1>3, <1>5
  <1> HIDE DEF sums, raw
  <1>7. S \in SUBSET (S \cap S) /\ S \in SUBSET S
    OBVIOUS
  <1>8. sums[S] = g[S]
    BY <1>6, <1>7, SumAgrees
  <1>9. g[S] \in Int
    BY <1>7, SumUnfolds
  <1> QED BY <1>2, <1>8, <1>9

\* A sum of integers is an integer.
LEMMA TotalType ==
    ASSUME NEW S, IsFiniteSet(S), NEW f \in [S -> Int]
    PROVE  SumFunction(f) \in Int
  <1>1. PICK g : Summing(g, f, S)
    BY SumExists
  <1> QED BY <1>1, SumFunctionIs

\* Sums add.
LEMMA TotalAdds ==
    ASSUME NEW S, IsFiniteSet(S), NEW f \in [S -> Int], NEW k \in [S -> Int],
           NEW both, both = [x \in S |-> f[x] + k[x]]
    PROVE  SumFunction(both) = SumFunction(f) + SumFunction(k)
  <1>1. both \in [S -> Int]
    OBVIOUS
  <1>2. PICK g : Summing(g, f, S)
    BY SumExists
  <1>3. PICK h : Summing(h, k, S)
    BY SumExists
  <1>4. PICK j : Summing(j, both, S)
    BY <1>1, SumExists
  <1>5. j[S] = g[S] + h[S]
    <2>1. Summing(j, [x \in S |-> f[x] + k[x]], S)
      BY <1>4
    <2> QED BY <1>2, <1>3, <2>1, SumAdds
  <1>6. SumFunction(f) = g[S] /\ SumFunction(k) = h[S]
    BY <1>2, <1>3, SumFunctionIs
  <1>7. SumFunction(both) = j[S]
    BY <1>1, <1>4, SumFunctionIs
  <1> QED BY <1>5, <1>6, <1>7

\* A common factor comes out of a sum.
LEMMA TotalScales ==
    ASSUME NEW S, IsFiniteSet(S), NEW f \in [S -> Int], NEW c \in Int,
           NEW more, more = [x \in S |-> c * f[x]]
    PROVE  SumFunction(more) = c * SumFunction(f)
  <1>1. more \in [S -> Int] /\ \A x \in S : more[x] = c * f[x]
    OBVIOUS
  <1>2. PICK g : Summing(g, f, S)
    BY SumExists
  <1> DEFINE sums == [s \in SUBSET S |-> c * g[s]]
  <1>3. g[{}] = 0 /\ \A s \in SUBSET S : g[s] \in Int /\ (\A y \in s : g[s] = f[y] + g[s \ {y}])
    BY <1>2, SumUnfolds
  <1>4. ASSUME NEW s \in SUBSET S
        PROVE  sums[s] = IF s = {} THEN 0 ELSE more[Picked(s)] + sums[s \ {Picked(s)}]
    <2>1. CASE s = {}
      BY <1>3, <2>1
    <2>2. CASE s # {}
      <3> DEFINE x == Picked(s)
                 rest == s \ {x}
      <3>1. x \in s /\ x \in S /\ rest \in SUBSET S
        BY <2>2, SubsetsOfFinite
      <3> HIDE DEF x
      <3>2. g[s] = f[x] + g[rest] /\ f[x] \in Int /\ more[x] = c * f[x]
        BY <1>1, <1>3, <3>1
      <3> HIDE DEF rest
      <3>3. g[rest] \in Int /\ sums[s] = c * g[s] /\ sums[rest] = c * g[rest]
        BY <1>3, <3>1
      <3>4. \A a, b \in Int : c * (a + b) = c * a + c * b
        OBVIOUS
      <3>5. sums[s] = more[x] + sums[rest]
        BY <3>2, <3>3, <3>4
      <3> QED BY <2>2, <3>5 DEF x, rest
    <2> QED BY <2>1, <2>2
  <1>5. Summing(sums, more, S)
    BY <1>4 DEF Summing
  <1>6. sums[S] = c * g[S]
    OBVIOUS
  <1> HIDE DEF sums
  <1>7. SumFunction(more) = sums[S]
    BY <1>1, <1>5, SumFunctionIs
  <1>8. SumFunction(f) = g[S]
    BY <1>2, SumFunctionIs
  <1> QED BY <1>6, <1>7, <1>8

\* What is zero may be left out of a sum.
LEMMA TotalWithoutZeros ==
    ASSUME NEW S, IsFiniteSet(S), NEW f \in [S -> Int], NEW T \in SUBSET S,
           NEW part, part = [x \in T |-> f[x]], \A x \in S \ T : f[x] = 0
    PROVE  SumFunction(f) = SumFunction(part)
  <1>1. IsFiniteSet(T) /\ part \in [T -> Int] /\ \A x \in T : part[x] = f[x]
    BY FS_Subset
  <1>2. PICK h : Summing(h, part, T)
    BY <1>1, SumExists
  <1>3. h[{}] = 0 /\ \A s \in SUBSET T : h[s] \in Int /\ (\A y \in s : h[s] = part[y] + h[s \ {y}])
    <2>1. IsFiniteSet(T) /\ part \in [T -> Int] /\ Summing(h, part, T)
      BY <1>1, <1>2
    <2> QED BY ONLY <2>1, SumUnfolds
  <1> DEFINE sums == [s \in SUBSET S |-> h[s \cap T]]
  <1>4. ASSUME NEW s \in SUBSET S
        PROVE  sums[s] = IF s = {} THEN 0 ELSE f[Picked(s)] + sums[s \ {Picked(s)}]
    <2>1. CASE s = {}
      <3>1. s \cap T = {}
        BY <2>1
      <3> QED BY <1>3, <2>1, <3>1
    <2>2. CASE s # {}
      <3> DEFINE x == Picked(s)
                 rest == s \ {x}
      <3>1. x \in s /\ x \in S /\ rest \in SUBSET S /\ sums[s] = h[s \cap T] /\ sums[rest] = h[rest \cap T]
        BY <2>2, SubsetsOfFinite
      <3> HIDE DEF x, sums
      <3>2. CASE x \in T
        <4>1. rest \cap T = (s \cap T) \ {x} /\ s \cap T \in SUBSET T /\ x \in s \cap T
          BY <3>1, <3>2
        <4>2. h[s \cap T] = part[x] + h[(s \cap T) \ {x}]
          BY <1>3, <4>1
        <4>3. sums[s] = f[x] + sums[rest]
          BY <1>1, <3>1, <3>2, <4>1, <4>2
        <4> QED BY <2>2, <4>3 DEF x
      <3>3. CASE x \notin T
        <4>1. rest \cap T = s \cap T /\ s \cap T \in SUBSET T
          BY <3>1, <3>3
        <4>2. f[x] = 0 /\ h[s \cap T] \in Int
          BY <1>3, <3>1, <3>3, <4>1
        <4>3. sums[s] = f[x] + sums[rest]
          BY <3>1, <4>1, <4>2
        <4> QED BY <2>2, <4>3 DEF x
      <3> QED BY <3>2, <3>3
    <2> QED BY <2>1, <2>2
  <1>5. Summing(sums, f, S)
    BY <1>4 DEF Summing
  <1>6. sums[S] = h[T]
    <2>1. S \cap T = T
      OBVIOUS
    <2> QED BY <2>1
  <1> HIDE DEF sums
  <1>7. SumFunction(f) = sums[S]
    BY <1>5, SumFunctionIs
  <1>8. SumFunction(part) = h[T]
    BY <1>1, <1>2, SumFunctionIs
  <1> QED BY <1>6, <1>7, <1>8

-----------------------------------------------------------------------------
(***************************************************************************)
(* Folds over lists and lists of lists.  FoldLeft and FlattenSeq are       *)
(* defined by a CHOOSE of a recursive function; these lemmas show that the *)
(* function exists and what it is.                                         *)
(***************************************************************************)

\* A property of 0 that each number hands on to the next holds of all up to n.
LEMMA CountsUp ==
    ASSUME NEW n \in Nat, NEW T, 0 \in T, \A k \in 1 .. n : k - 1 \in T => k \in T
    PROVE  \A k \in 0 .. n : k \in T
  <1> DEFINE Bad == {k \in 0 .. n : k \notin T}
  <1> SUFFICES ASSUME Bad # {} PROVE FALSE
    OBVIOUS
  <1>1. Bad \in SUBSET Nat
    OBVIOUS
  <1>2. PICK m \in Bad : \A k \in Bad : m <= k
    <2> HIDE DEF Bad
    <2> QED BY <1>1, LeastElement
  <1>3. m \in 1 .. n /\ m \notin T
    BY <1>2
  <1>4. m - 1 \in 0 .. n /\ m - 1 \notin Bad
    BY <1>2, <1>3
  <1> QED BY <1>3, <1>4

\* The greatest of the first numbers is the last of them.
LEMMA LastOfFirst ==
    ASSUME NEW k \in Nat \ {0}
    PROVE  Max(1 .. k) = k /\ (1 .. k) \ {k} = 1 .. (k - 1)
  <1>1. \A m \in 1 .. k : (\A y \in 1 .. k : m >= y) <=> m = k
    OBVIOUS
  <1>2. (1 .. k) \ {k} = 1 .. (k - 1)
    OBVIOUS
  <1> QED BY <1>1, <1>2 DEF Max

\* What FoldLeft builds: from the left, so that the greatest index is dealt with last.
FoldStep(g, o, base, s, t) == IF t = {} THEN base ELSE o[<<g[t \ {Max(t)}], s[Max(t)]>>]

FoldsBy(g, o, base, s, n) == \A t \in SUBSET (1 .. n) : g[t] = FoldStep(g, o, base, s, t)

\* A fold by a function exists on every finite sequence, and stays among its values.
LEMMA FoldExists ==
    ASSUME NEW A, NEW B, NEW o \in [A \X B -> A], NEW base \in A,
           NEW n \in Nat, NEW s \in [1 .. n -> B]
    PROVE  \E g \in [SUBSET (1 .. n) -> A] : FoldsBy(g, o, base, s, n)
  <1> DEFINE D == 1 .. n
             Good(g, k) == \A t \in SUBSET D : Cardinality(t) <= k => g[t] = FoldStep(g, o, base, s, t)
             T == {k \in Nat : \E g \in [SUBSET D -> A] : Good(g, k)}
  <1>0. IsFiniteSet(D) /\ Cardinality(D) = n /\ D \in SUBSET Int
    BY FS_Interval
  <1>a. \A t \in SUBSET D :
            /\ IsFiniteSet(t) /\ t \in SUBSET Int
            /\ Cardinality(t) \in Nat /\ Cardinality(t) <= n
            /\ Cardinality(t) = 0 <=> t = {}
            /\ \A x \in t : t \ {x} \in SUBSET D /\ Cardinality(t \ {x}) = Cardinality(t) - 1
    <2> HIDE DEF D
    <2> QED BY <1>0, SubsetsOfFinite
  <1>1. ASSUME NEW t \in SUBSET D, t # {}
        PROVE  Max(t) \in t /\ t \ {Max(t)} \in SUBSET D
               /\ Cardinality(t \ {Max(t)}) = Cardinality(t) - 1
    <2> HIDE DEF D
    <2>1. t \in SUBSET Int /\ IsFiniteSet(t)
      BY <1>a, <1>1
    <2>2. \E m \in t : \A y \in t : m >= y
      BY <1>1, <2>1, GreatestElement
    <2>3. Max(t) \in t
      BY <2>2 DEF Max
    <2> QED BY <1>a, <2>3
  <1>2. ASSUME NEW g \in [SUBSET D -> A], NEW t \in SUBSET D
        PROVE  FoldStep(g, o, base, s, t) \in A
    <2>1. CASE t = {}
      BY <2>1 DEF FoldStep
    <2>2. CASE t # {}
      <3>1. Max(t) \in D /\ t \ {Max(t)} \in SUBSET D
        BY <1>1, <2>2
      <3>2. g[t \ {Max(t)}] \in A /\ s[Max(t)] \in B
        BY <3>1
      <3> QED BY <2>2, <3>2 DEF FoldStep
    <2> QED BY <2>1, <2>2
  <1>3. 0 \in T
    <2> DEFINE g == [t \in SUBSET D |-> base]
    <2>1. g \in [SUBSET D -> A]
      OBVIOUS
    <2>2. ASSUME NEW t \in SUBSET D, Cardinality(t) <= 0 PROVE g[t] = FoldStep(g, o, base, s, t)
      <3>1. t = {}
        BY <1>a, <2>2
      <3> QED BY <3>1 DEF FoldStep
    <2> QED BY <2>1, <2>2
  <1>4. ASSUME NEW k \in 1 .. n, k - 1 \in T PROVE k \in T
    <2>1. PICK g \in [SUBSET D -> A] : Good(g, k - 1)
      BY <1>4
    <2> DEFINE h == [t \in SUBSET D |-> FoldStep(g, o, base, s, t)]
    <2>2. h \in [SUBSET D -> A]
      BY <1>2
    <2>3. ASSUME NEW t \in SUBSET D, Cardinality(t) <= k PROVE h[t] = FoldStep(h, o, base, s, t)
      <3>1. CASE t = {}
        BY <3>1 DEF FoldStep
      <3>2. CASE t # {}
        <4> DEFINE rest == t \ {Max(t)}
        <4>1. rest \in SUBSET D /\ Cardinality(rest) = Cardinality(t) - 1
          BY <1>1, <3>2
        <4>3. Cardinality(rest) <= k - 1
          BY <1>a, <2>3, <4>1
        <4>2. g[rest] = h[rest]
          BY <2>1, <4>1, <4>3
        <4> QED BY <3>2, <4>2 DEF FoldStep
      <3> QED BY <3>1, <3>2
    <2>4. Good(h, k)
      BY <2>3
    <2> HIDE DEF h, Good
    <2>5. k \in Nat
      OBVIOUS
    <2> QED BY <2>2, <2>4, <2>5
  <1>5. n \in T
    <2> HIDE DEF T
    <2>1. \A k \in 0 .. n : k \in T
      BY <1>3, <1>4, CountsUp
    <2> QED BY <2>1
  <1>6. PICK g \in [SUBSET D -> A] : Good(g, n)
    BY <1>5
  <1> QED BY <1>6, <1>a DEF FoldsBy

\* A fold is where h leads: h tells it for every prefix.
LEMMA FoldFollows ==
    ASSUME NEW n \in Nat, NEW g, NEW h, g[{}] = h[0],
           \A k \in 1 .. n : g[(1 .. k) \ {Max(1 .. k)}] = h[k - 1] => g[1 .. k] = h[k]
    PROVE  g[1 .. n] = h[n]
  <1> DEFINE T == {k \in 0 .. n : g[1 .. k] = h[k]}
  <1>1. 0 \in T
    <2>1. 1 .. 0 = {}
      OBVIOUS
    <2> QED BY <2>1
  <1>2. ASSUME NEW k \in 1 .. n, k - 1 \in T PROVE k \in T
    <2>1. (1 .. k) \ {Max(1 .. k)} = 1 .. (k - 1)
      <3>1. k \in Nat \ {0}
        OBVIOUS
      <3>2. Max(1 .. k) = k /\ (1 .. k) \ {k} = 1 .. (k - 1)
        BY <3>1, LastOfFirst
      <3> QED BY <3>2
    <2>2. g[1 .. (k - 1)] = h[k - 1]
      BY <1>2
    <2>3. g[(1 .. k) \ {Max(1 .. k)}] = h[k - 1]
      BY <2>1, <2>2, Zenon
    <2>4. g[1 .. k] = h[k]
      BY <2>3
    <2> QED BY <2>4
  <1>3. \A k \in 0 .. n : k \in T
    <2> HIDE DEF T
    <2> QED BY <1>1, <1>2, CountsUp
  <1> QED BY <1>3

\* z is the list x with the list y behind it.
Joins(z, x, y) ==
    /\ Len(z) = Len(x) + Len(y)
    /\ \A n \in 1 .. Len(x) : z[n] = x[n]
    /\ \A n \in 1 .. Len(y) : z[Len(x) + n] = y[n]

LEMMA Joined ==
    ASSUME NEW E, NEW x \in Seq(E), NEW y \in Seq(E)
    PROVE  x \o y \in Seq(E) /\ Joins(x \o y, x, y)
  <1>1. /\ x \o y \in Seq(E) /\ Len(x \o y) = Len(x) + Len(y) /\ Len(x) \in Nat /\ Len(y) \in Nat
        /\ \A n \in 1 .. Len(x) + Len(y) : (x \o y)[n] = IF n <= Len(x) THEN x[n] ELSE y[n - Len(x)]
    BY ConcatProperties
  <1> DEFINE z == x \o y
  <1>2. ASSUME NEW n \in 1 .. Len(y) PROVE z[Len(x) + n] = y[n]
    <2>1. Len(x) + n \in 1 .. Len(x) + Len(y) /\ ~ (Len(x) + n <= Len(x)) /\ Len(x) + n - Len(x) = n
      BY <1>1
    <2> QED BY <1>1, <2>1
  <1> QED BY <1>1, <1>2 DEF Joins

\* flat makes one list of the first lists, and of one more and one more.
Flattening(flat, lists, m) ==
    \A i \in 1 .. m : flat[i] = IF i = 1 THEN lists[i] ELSE flat[i - 1] \o lists[i]

\* The recursion of FlattenSeq has a solution.
LEMMA FlattenUnfolds ==
    ASSUME NEW E, NEW m \in Nat \ {0}, NEW lists \in [1 .. m -> Seq(E)]
    PROVE  \E flat : FlattenSeq(lists) = flat[m] /\ Flattening(flat, lists, m)
  <1> DEFINE raw(f) == [i \in 1 .. m |-> IF i = 1 THEN lists[i] ELSE f[i - 1] \o lists[i]]
             flat == CHOOSE f : f = raw(f)
             Step(f, i) == IF i = 1 THEN lists[i] ELSE f[i - 1] \o lists[i]
             Good(f, k) == \A i \in 1 .. k : f[i] = Step(f, i)
             T == {k \in 0 .. m : \E f \in [1 .. m -> Seq(E)] : Good(f, k)}
  <1>0. Len(lists) = m /\ \A k \in 1 .. m : lists[k] \in Seq(E)
    OBVIOUS
  <1>1. FlattenSeq(lists) = flat[m]
    BY <1>0 DEF FlattenSeq
  <1> HIDE DEF flat
  <1>2. 0 \in T
    <2>1. lists \in [1 .. m -> Seq(E)] /\ Good(lists, 0)
      OBVIOUS
    <2> QED BY <2>1
  <1>3. ASSUME NEW k \in 1 .. m, k - 1 \in T PROVE k \in T
    <2>1. PICK f \in [1 .. m -> Seq(E)] : Good(f, k - 1)
      BY <1>3
    <2> DEFINE next == Step(f, k)
               g == [f EXCEPT ![k] = next]
    <2>2. next \in Seq(E)
      <3>1. CASE k = 1
        BY <1>0, <3>1
      <3>2. CASE k # 1
        <4>1. f[k - 1] \in Seq(E) /\ lists[k] \in Seq(E)
          BY <1>0, <3>2
        <4>2. f[k - 1] \o lists[k] \in Seq(E)
          BY <4>1, Joined
        <4> QED BY <3>2, <4>2
      <3> QED BY <3>1, <3>2
    <2> HIDE DEF next
    <2>3. g \in [1 .. m -> Seq(E)] /\ g[k] = next /\ \A i \in 1 .. (k - 1) : g[i] = f[i]
      BY <2>2
    <2> HIDE DEF g
    <2>4. ASSUME NEW i \in 1 .. k PROVE g[i] = Step(g, i)
      <3>1. i = 1 \/ (i # 1 /\ i - 1 \in 1 .. (k - 1))
        OBVIOUS
      <3>2. Step(g, i) = Step(f, i)
        BY <2>3, <3>1
      <3>3. CASE i = k
        BY <2>3, <3>2, <3>3 DEF next
      <3>4. CASE i # k
        <4>1. i \in 1 .. (k - 1)
          BY <3>4
        <4> HIDE DEF Step
        <4> QED BY <2>1, <2>3, <3>2, <4>1
      <3> QED BY <3>3, <3>4
    <2>5. Good(g, k)
      BY <2>4
    <2> HIDE DEF Good
    <2> QED BY <2>3, <2>5
  <1>4. m \in T
    <2>1. \A k \in 0 .. m : k \in T
      <3> HIDE DEF T
      <3> QED BY <1>2, <1>3, CountsUp
    <2> HIDE DEF T
    <2> QED BY <2>1
  <1>5. \E f : f = raw(f)
    <2>1. PICK f \in [1 .. m -> Seq(E)] : Good(f, m)
      BY <1>4
    <2>2. f = raw(f)
      BY <2>1
    <2> QED BY <2>2
  <1>6. flat = raw(flat)
    <2> HIDE DEF raw
    <2> QED BY ONLY <1>5, Zenon DEF flat
  <1>7. \A i \in 1 .. m : flat[i] = Step(flat, i)
    BY <1>6
  <1>8. Flattening(flat, lists, m)
    BY <1>7 DEF Flattening
  <1> QED BY <1>1, <1>8

\* all holds the m lists end to end: the k-th begins behind off[k - 1] elements.
LaidOut(all, lists, off, m) ==
    /\ Len(all) = off[m]
    /\ \A k \in 1 .. m : \A i \in 1 .. Len(lists[k]) :
          off[k - 1] + i \in 1 .. off[m] /\ all[off[k - 1] + i] = lists[k][i]

\* Lists of lengths off end to end: each element is where the lists before its own end.
LEMMA Flattened ==
    ASSUME NEW E, NEW m \in Nat, NEW lists \in [1 .. m -> Seq(E)],
           NEW off \in [0 .. m -> Nat], off[0] = 0,
           \A k \in 1 .. m : off[k] = off[k - 1] + Len(lists[k])
    PROVE  FlattenSeq(lists) \in Seq(E) /\ LaidOut(FlattenSeq(lists), lists, off, m)
  <1>1. CASE m = 0
    <2>1. FlattenSeq(lists) = lists /\ lists = <<>>
      BY <1>1 DEF FlattenSeq
    <2> QED BY <1>1, <2>1 DEF LaidOut
  <1>2. CASE m # 0
    <2>a. PICK flat : FlattenSeq(lists) = flat[m] /\ Flattening(flat, lists, m)
      <3>1. m \in Nat \ {0}
        BY <1>2
      <3> QED BY <3>1, FlattenUnfolds
    <2>0. \A i \in 1 .. m : flat[i] = IF i = 1 THEN lists[i] ELSE flat[i - 1] \o lists[i]
      BY <2>a DEF Flattening
    <2> DEFINE Placed(k, j, i) == off[j - 1] + i \in 1 .. off[k] /\ flat[k][off[j - 1] + i] = lists[j][i]
               Told(k) == /\ flat[k] \in Seq(E) /\ Len(flat[k]) = off[k]
                          /\ \A j \in 1 .. k : \A i \in 1 .. Len(lists[j]) : Placed(k, j, i)
               S == {k \in 0 .. m : k = 0 \/ Told(k)}
    <2>1. ASSUME NEW k \in 1 .. m, k - 1 \in S PROVE k \in S
      <3>0. /\ lists[k] \in Seq(E) /\ off[k] \in Nat /\ off[k - 1] \in Nat
            /\ off[k] = off[k - 1] + Len(lists[k]) /\ Len(lists[k]) \in Nat
        OBVIOUS
      <3>1. CASE k = 1
        <4>1. flat[k] = lists[k] /\ off[k - 1] = 0 /\ off[k] = Len(lists[k])
          BY <2>0, <3>0, <3>1
        <4>2. ASSUME NEW j \in 1 .. k, NEW i \in 1 .. Len(lists[j]) PROVE Placed(k, j, i)
          <5>1. j = k /\ off[j - 1] = 0
            BY <3>1, <4>1
          <5>2. off[j - 1] + i = i /\ i \in 1 .. off[k]
            <6>1. i \in 1 .. off[k]
              BY <4>1, <5>1
            <6> QED BY <5>1, <6>1
          <5>3. flat[k][i] = lists[j][i]
            BY <4>1, <5>1
          <5> QED BY <5>2, <5>3
        <4>3. Told(k)
          BY <3>0, <4>1, <4>2
        <4> HIDE DEF Told
        <4> QED BY <4>3
      <3>2. CASE k # 1
        <4>1. Told(k - 1) /\ k - 1 \in 1 .. m
          BY <2>1, <3>2
        <4> DEFINE x == flat[k - 1]  y == lists[k]  a == off[k - 1]  all == flat[k]
        <4>2. all = x \o y
          BY <2>0, <3>2
        <4>3. x \in Seq(E) /\ Len(x) = a /\ y \in Seq(E) /\ a \in Nat /\ off[k] = a + Len(y) /\ Len(y) \in Nat
          BY <3>0, <4>1
        <4>4. /\ all \in Seq(E) /\ Len(all) = off[k]
              /\ \A n \in 1 .. a : all[n] = x[n]
              /\ \A n \in 1 .. Len(y) : all[a + n] = y[n]
          <5> HIDE DEF x, y, a, all, Told
          <5>1. x \o y \in Seq(E) /\ Joins(x \o y, x, y)
            BY <4>3, Joined
          <5> QED BY ONLY <4>2, <4>3, <5>1 DEF Joins
        <4>5. ASSUME NEW j \in 1 .. k, NEW i \in 1 .. Len(lists[j]) PROVE Placed(k, j, i)
          <5>1. CASE j = k
            <6>1. i \in 1 .. Len(y) /\ a = off[j - 1] /\ lists[j] = y
              BY <5>1
            <6>2. all[a + i] = y[i] /\ a + i \in 1 .. off[k]
              <7> DEFINE length == Len(y)
              <7> HIDE DEF x, y, a, all, Told, length
              <7>1. length = Len(y) /\ length \in Nat /\ off[k] = a + length /\ a \in Nat /\ i \in 1 .. length
                BY <4>3, <6>1 DEF length
              <7>2. a + i \in 1 .. off[k]
                BY ONLY <7>1
              <7>3. all[a + i] = y[i]
                BY ONLY <4>4, <6>1
              <7> QED BY <7>2, <7>3
            <6> QED BY <6>1, <6>2
          <5>2. CASE j # k
            <6> DEFINE n == off[j - 1] + i
            <6>1. n \in 1 .. a /\ x[n] = lists[j][i]
              <7>1. j \in 1 .. (k - 1)
                BY <5>2
              <7>2. Placed(k - 1, j, i)
                BY <4>1, <7>1
              <7> QED BY <7>2
            <6>2. n \in 1 .. off[k] /\ all[n] = x[n]
              <7> DEFINE length == Len(y)
              <7> HIDE DEF x, y, a, all, Told, n, length
              <7>1. length = Len(y) /\ length \in Nat /\ off[k] = a + length /\ a \in Nat
                BY <4>3 DEF length
              <7>2. n \in 1 .. off[k]
                BY ONLY <6>1, <7>1
              <7>3. all[n] = x[n]
                BY ONLY <4>4, <6>1
              <7> QED BY <7>2, <7>3
            <6> QED BY <6>1, <6>2
          <5> QED BY <5>1, <5>2
        <4>6. Told(k)
          BY <4>4, <4>5
        <4> HIDE DEF Told
        <4> QED BY <4>6
      <3> QED BY <3>1, <3>2
    <2>2. m \in S
      <3>1. 0 \in S
        OBVIOUS
      <3>2. \A k \in 0 .. m : k \in S
        <4> HIDE DEF S
        <4> QED BY <3>1, <2>1, CountsUp
      <3> HIDE DEF S
      <3> QED BY <3>2
    <2>3. Told(m)
      BY <1>2, <2>2
    <2>4. LaidOut(flat[m], lists, off, m)
      BY <2>3 DEF LaidOut
    <2> QED BY <2>a, <2>3, <2>4
  <1> QED BY <1>1, <1>2

-----------------------------------------------------------------------------
(***************************************************************************)
(* Sums along a list, and sets as lists in order.                          *)
(***************************************************************************)

Without(f, x) == [y \in DOMAIN f \ {x} |-> f[y]]

\* A sum is any of its terms and the sum of the others.
LEMMA TotalWithout ==
    ASSUME NEW S, IsFiniteSet(S), NEW f \in [S -> Int], NEW x \in S
    PROVE  SumFunction(f) = f[x] + SumFunction(Without(f, x))
  <1> DEFINE R == S \ {x}
             rest == Without(f, x)
  <1>1. IsFiniteSet(R) /\ rest \in [R -> Int] /\ \A y \in R : f[y] = rest[y]
    <2>1. DOMAIN f = S
      OBVIOUS
    <2>2. rest = [y \in R |-> f[y]]
      BY <2>1 DEF Without
    <2> HIDE DEF rest
    <2> QED BY <2>2, FS_Subset
  <1> HIDE DEF rest
  <1>2. PICK g : Summing(g, f, S)
    BY SumExists
  <1>3. PICK h : Summing(h, rest, R)
    BY <1>1, SumExists
  <1>4. g[S] = f[x] + g[R]
    <2>1. \A y \in S : g[S] \in Int /\ g[S] = f[y] + g[S \ {y}] /\ g[S \ {y}] \in Int
      BY <1>2, SumSteps
    <2> QED BY <2>1
  <1>5. g[R] = h[R]
    <2>1. R \in SUBSET (S \cap R)
      OBVIOUS
    <2> HIDE DEF R
    <2> QED BY <1>1, <1>2, <1>3, <2>1, SumAgrees
  <1>6. SumFunction(f) = g[S]
    BY <1>2, SumFunctionIs
  <1>7. SumFunction(rest) = h[R]
    <2> HIDE DEF R
    <2> QED BY <1>1, <1>3, SumFunctionIs
  <1> QED BY <1>4, <1>5, <1>6, <1>7 DEF rest

\* The sums of the first terms.
PrefixSums(f, n) == [k \in 0 .. n |-> SumFunction([i \in 1 .. k |-> f[i]])]

\* The sums of the first terms of a list of naturals.
LEMMA RunningSums ==
    ASSUME NEW n \in Nat, NEW f \in [1 .. n -> Nat]
    PROVE  /\ PrefixSums(f, n) \in [0 .. n -> Nat] /\ PrefixSums(f, n)[0] = 0
           /\ \A k \in 1 .. n : PrefixSums(f, n)[k] = PrefixSums(f, n)[k - 1] + f[k]
           /\ SumFunction(f) = PrefixSums(f, n)[n]
  <1> DEFINE first(k) == [i \in 1 .. k |-> f[i]]
             off == PrefixSums(f, n)
  <1>0. off = [k \in 0 .. n |-> SumFunction(first(k))]
    BY DEF PrefixSums
  <1> HIDE DEF off
  <1>1. off[0] = 0
    <2>1. first(0) = [i \in {} |-> f[i]] /\ first(0) \in [{} -> Int] /\ IsFiniteSet({})
      <3>1. 1 .. 0 = {}
        OBVIOUS
      <3> QED BY <3>1, FS_EmptySet
    <2> DEFINE none == first(0)
    <2>2. off[0] = SumFunction(none)
      BY <1>0
    <2> HIDE DEF none
    <2>3. none \in [{} -> Int]
      BY <2>1 DEF none
    <2>4. PICK g : Summing(g, none, {})
      BY <2>1, <2>3, SumExists
    <2>5. g[{}] = 0
      BY <2>1, <2>3, <2>4, SumUnfolds
    <2> QED BY <2>1, <2>2, <2>3, <2>4, <2>5, SumFunctionIs
  <1>2. ASSUME NEW k \in 1 .. n PROVE off[k] = off[k - 1] + f[k] /\ off[k] \in Int
    <2>0. k \in 0 .. n /\ k - 1 \in 0 .. n /\ f[k] \in Nat
      OBVIOUS
    <2>1. off[k] = SumFunction(first(k)) /\ off[k - 1] = SumFunction(first(k - 1))
      BY <1>0, <2>0
    <2>2. IsFiniteSet(1 .. k) /\ first(k) \in [1 .. k -> Int] /\ k \in 1 .. k /\ (first(k))[k] = f[k]
      BY FS_Interval
    <2>3. first(k - 1) = [y \in (1 .. k) \ {k} |-> (first(k))[y]]
      <3>1. (1 .. k) \ {k} = 1 .. (k - 1)
        OBVIOUS
      <3>2. \A y \in 1 .. (k - 1) : (first(k))[y] = f[y]
        OBVIOUS
      <3> QED BY <3>1, <3>2
    <2> DEFINE now == first(k)  before == first(k - 1)
    <2>4. now \in [1 .. k -> Int] /\ before = Without(now, k) /\ now[k] = f[k]
      <3>1. DOMAIN now = 1 .. k
        OBVIOUS
      <3> QED BY <2>2, <2>3, <3>1 DEF Without
    <2>a. k - 1 \in Int /\ IsFiniteSet(1 .. (k - 1)) /\ before \in [1 .. (k - 1) -> Int]
      BY FS_Interval
    <2> HIDE DEF now, before
    <2>5. SumFunction(now) = now[k] + SumFunction(before)
      <3> DEFINE S == 1 .. k
      <3>1. IsFiniteSet(S) /\ now \in [S -> Int] /\ k \in S
        BY <2>2, <2>4
      <3> HIDE DEF S
      <3> QED BY <2>4, <3>1, TotalWithout
    <2>6. SumFunction(before) \in Int
      BY <2>a, TotalType
    <2> QED BY <2>0, <2>1, <2>4, <2>5, <2>6 DEF now, before
  <1>3. \A k \in 0 .. n : off[k] \in Nat
    <2> DEFINE T == {k \in 0 .. n : off[k] \in Nat}
    <2>1. 0 \in T
      BY <1>1
    <2>2. ASSUME NEW k \in 1 .. n, k - 1 \in T PROVE k \in T
      <3>1. off[k - 1] \in Nat /\ f[k] \in Nat
        BY <2>2
      <3> QED BY <1>2, <3>1
    <2> HIDE DEF T
    <2>3. \A k \in 0 .. n : k \in T
      BY <2>1, <2>2, CountsUp
    <2> QED BY <2>3 DEF T
  <1>4. SumFunction(f) = off[n]
    <2>1. first(n) = f
      OBVIOUS
    <2>2. off[n] = SumFunction(first(n))
      BY <1>0
    <2> QED BY <2>1, <2>2
  <1>5. off \in [0 .. n -> Nat]
    BY <1>0, <1>3
  <1> QED BY <1>1, <1>2, <1>4, <1>5 DEF off

\* The terms up to the k-th, and those behind it.
FrontPart(f, k) == [i \in 1 .. k |-> f[i]]
BackPart(f, n, k) == [i \in 1 .. (n - k) |-> f[k + i]]

\* What comes before a term of a list, the term and what comes after it make the sum.
LEMMA SplitSums ==
    ASSUME NEW n \in Nat, NEW f \in [1 .. n -> Nat], NEW r \in 1 .. n
    PROVE  SumFunction(FrontPart(f, r - 1)) + f[r] + SumFunction(BackPart(f, n, r)) = SumFunction(f)
  <1> DEFINE before == FrontPart(f, r - 1)
             after == BackPart(f, n, r)
             off == PrefixSums(f, n)
             rest == PrefixSums(after, n - r)
  <1>1. /\ off \in [0 .. n -> Nat] /\ off[0] = 0
        /\ \A k \in 1 .. n : off[k] = off[k - 1] + f[k]
        /\ SumFunction(f) = off[n]
    BY RunningSums
  <1>2. n - r \in Nat /\ after \in [1 .. (n - r) -> Nat] /\ \A i \in 1 .. (n - r) : after[i] = f[r + i]
    BY DEF BackPart
  <1> HIDE DEF after
  <1>3. /\ rest \in [0 .. (n - r) -> Nat] /\ rest[0] = 0
        /\ \A k \in 1 .. (n - r) : rest[k] = rest[k - 1] + after[k]
        /\ SumFunction(after) = rest[n - r]
    BY <1>2, RunningSums
  <1>4. SumFunction(before) = off[r - 1]
    BY DEF PrefixSums, FrontPart
  <1> HIDE DEF off, rest, before
  <1> DEFINE T == {k \in 0 .. (n - r) : off[r + k] = off[r] + rest[k]}
  <1>5. 0 \in T
    BY <1>1, <1>3
  <1>6. ASSUME NEW k \in 1 .. (n - r), k - 1 \in T PROVE k \in T
    <2>1. off[r + k] = off[r + (k - 1)] + f[r + k]
      <3>1. r + k \in 1 .. n /\ r + k - 1 = r + (k - 1)
        OBVIOUS
      <3> QED BY <1>1, <3>1
    <2>2. rest[k] = rest[k - 1] + f[r + k]
      BY <1>2, <1>3
    <2>3. off[r + (k - 1)] = off[r] + rest[k - 1]
      BY <1>6
    <2>4. off[r] \in Nat /\ rest[k - 1] \in Nat /\ f[r + k] \in Nat
      <3>1. r + k \in 1 .. n /\ r \in 0 .. n /\ k - 1 \in 0 .. (n - r)
        OBVIOUS
      <3> QED BY <1>1, <1>3, <3>1
    <2> QED BY <2>1, <2>2, <2>3, <2>4
  <1>7. n - r \in T
    <2> HIDE DEF T
    <2>1. \A k \in 0 .. (n - r) : k \in T
      BY <1>2, <1>5, <1>6, CountsUp
    <2> QED BY <1>2, <2>1
  <1>8. off[n] = off[r] + rest[n - r] /\ off[r] = off[r - 1] + f[r]
    <2>1. r + (n - r) = n
      OBVIOUS
    <2> QED BY <1>1, <1>7, <2>1
  <1>9. off[r - 1] \in Nat /\ f[r] \in Nat /\ rest[n - r] \in Nat
    <2>1. r - 1 \in 0 .. n /\ n - r \in 0 .. (n - r)
      OBVIOUS
    <2> QED BY <1>1, <1>3, <2>1
  <1> QED BY <1>1, <1>3, <1>4, <1>8, <1>9 DEF before, after

\* Finitely many integers can be listed in order.
LEMMA AscendingList ==
    ASSUME NEW S \in SUBSET Int, IsFiniteSet(S)
    PROVE  \E s \in [1 .. Cardinality(S) -> S] : \A i, j \in 1 .. Cardinality(S) : i < j => s[i] < s[j]
  <1> DEFINE Listed(U, k) == \E s \in [1 .. k -> U] : \A i, j \in 1 .. k : i < j => s[i] < s[j]
             n == Cardinality(S)
             T == {k \in 0 .. n : \A U \in SUBSET S : Cardinality(U) = k => Listed(U, k)}
  <1>0. n \in Nat /\ \A U \in SUBSET S : U \in SUBSET Int /\ IsFiniteSet(U)
    BY SubsetsOfFinite
  <1>1. 0 \in T
    <2>1. ASSUME NEW U \in SUBSET S PROVE Listed(U, 0)
      <3>1. 1 .. 0 = {}
        OBVIOUS
      <3>2. [i \in 1 .. 0 |-> 0] \in [1 .. 0 -> U]
        BY <3>1
      <3> QED BY <3>1, <3>2
    <2> QED BY <1>0, <2>1
  <1>2. ASSUME NEW k \in 1 .. n, k - 1 \in T PROVE k \in T
    <2> SUFFICES ASSUME NEW U \in SUBSET S, Cardinality(U) = k PROVE Listed(U, k)
      OBVIOUS
    <2>1. U # {}
      BY SubsetsOfFinite
    <2>2. PICK m \in U : \A x \in U : m >= x
      BY <1>0, <2>1, GreatestElement
    <2>3. U \ {m} \in SUBSET S /\ Cardinality(U \ {m}) = k - 1
      BY SubsetsOfFinite
    <2>4. PICK s \in [1 .. (k - 1) -> U \ {m}] : \A i, j \in 1 .. (k - 1) : i < j => s[i] < s[j]
      BY <1>2, <2>3
    <2> DEFINE t == [i \in 1 .. k |-> IF i = k THEN m ELSE s[i]]
    <2>5. ASSUME NEW i \in 1 .. k PROVE t[i] \in U /\ t[i] \in Int
      <3>1. U \in SUBSET Int /\ (i = k \/ i \in 1 .. (k - 1))
        BY <1>0
      <3>2. t[i] \in U
        BY <3>1
      <3> QED BY <3>1, <3>2
    <2>6. ASSUME NEW i \in 1 .. k, NEW j \in 1 .. k, i < j PROVE t[i] < t[j]
      <3>0. U \in SUBSET Int /\ i \in 1 .. (k - 1)
        BY <1>0, <2>6
      <3>1. i \in 1 .. (k - 1) /\ s[i] \in U \ {m} /\ t[i] = s[i] /\ s[i] \in Int /\ m \in Int
        <4>1. s[i] \in U \ {m} /\ i # k
          BY <3>0
        <4>2. t[i] = s[i]
          BY <4>1
        <4> QED BY <3>0, <4>1, <4>2
      <3>2. CASE j = k
        BY <2>2, <3>1, <3>2
      <3>3. CASE j # k
        BY <2>4, <2>6, <3>1, <3>3
      <3> QED BY <3>2, <3>3
    <2>7. t \in [1 .. k -> U]
      BY <2>5
    <2> HIDE DEF t
    <2> QED BY <2>6, <2>7
  <1>3. n \in T
    <2>1. \A k \in 0 .. n : k \in T
      <3> HIDE DEF T, n
      <3> QED BY <1>0, <1>1, <1>2, CountsUp
    <2> QED BY <1>0, <2>1
  <1>4. S \in SUBSET S
    OBVIOUS
  <1> QED BY <1>3, <1>4

\* And in the opposite order.
LEMMA DescendingList ==
    ASSUME NEW S \in SUBSET Int, IsFiniteSet(S)
    PROVE  \E s \in [1 .. Cardinality(S) -> S] : \A i, j \in 1 .. Cardinality(S) : i < j => s[i] > s[j]
  <1> DEFINE n == Cardinality(S)
  <1>0. n \in Nat
    BY FS_CardinalityType
  <1>1. PICK s \in [1 .. n -> S] : \A i, j \in 1 .. n : i < j => s[i] < s[j]
    BY AscendingList
  <1> HIDE DEF n
  <1> DEFINE t == [i \in 1 .. n |-> s[n + 1 - i]]
  <1>2. \A i \in 1 .. n : n + 1 - i \in 1 .. n /\ t[i] = s[n + 1 - i]
    BY <1>0
  <1>3. t \in [1 .. n -> S]
    BY <1>2
  <1>4. ASSUME NEW i \in 1 .. n, NEW j \in 1 .. n, i < j PROVE t[i] > t[j]
    <2>1. n + 1 - j < n + 1 - i
      BY <1>0, <1>4
    <2>2. s[n + 1 - j] < s[n + 1 - i] /\ s[n + 1 - j] \in Int /\ s[n + 1 - i] \in Int
      BY <1>1, <1>2, <2>1
    <2> QED BY <1>2, <2>2
  <1> HIDE DEF t
  <1> QED BY <1>3, <1>4 DEF n

\* A list without repetitions of as many elements as the set has, has them all.
LEMMA ListsAll ==
    ASSUME NEW S, IsFiniteSet(S), NEW s \in [1 .. Cardinality(S) -> S],
           \A i, j \in 1 .. Cardinality(S) : s[i] = s[j] => i = j
    PROVE  \A x \in S : \E i \in 1 .. Cardinality(S) : s[i] = x
  <1> DEFINE n == Cardinality(S)
  <1>1. n \in Nat /\ Cardinality(1 .. n) = n
    BY FS_CardinalityType, FS_Interval
  <1>2. s \in Injection(1 .. n, S)
    BY DEF Injection, IsInjective
  <1>3. s \in Surjection(1 .. n, S)
    BY <1>1, <1>2, FS_Injection
  <1> QED BY <1>3 DEF Surjection

\* Every place of a list of lists is a place in one of the lists.
LEMMA PlaceInLists ==
    ASSUME NEW m \in Nat, NEW c \in [1 .. m -> Nat], NEW off \in [0 .. m -> Nat], off[0] = 0,
           \A k \in 1 .. m : off[k] = off[k - 1] + c[k]
    PROVE  \A n \in 1 .. off[m] : \E k \in 1 .. m : \E i \in 1 .. c[k] : n = off[k - 1] + i
  <1> DEFINE In(n, j) == \E k \in 1 .. j : \E i \in 1 .. c[k] : n = off[k - 1] + i
             T == {j \in 0 .. m : \A n \in 1 .. off[j] : In(n, j)}
  <1>1. 0 \in T
    <2>1. 1 .. off[0] = {}
      OBVIOUS
    <2> QED BY <2>1
  <1>2. ASSUME NEW j \in 1 .. m, j - 1 \in T PROVE j \in T
    <2> SUFFICES ASSUME NEW n \in 1 .. off[j] PROVE In(n, j)
      OBVIOUS
    <2>1. off[j] = off[j - 1] + c[j] /\ off[j - 1] \in Nat /\ c[j] \in Nat /\ off[j] \in Nat
      OBVIOUS
    <2>2. CASE n <= off[j - 1]
      <3>1. In(n, j - 1)
        <4>1. n \in 1 .. off[j - 1]
          BY <2>1, <2>2
        <4> HIDE DEF In
        <4> QED BY <1>2, <4>1
      <3>2. 1 .. (j - 1) \subseteq 1 .. j
        OBVIOUS
      <3> QED BY <3>1, <3>2
    <2>3. CASE ~(n <= off[j - 1])
      <3>1. n - off[j - 1] \in 1 .. c[j] /\ n = off[j - 1] + (n - off[j - 1]) /\ j \in 1 .. j
        BY <2>1, <2>3
      <3> QED BY <3>1
    <2> QED BY <2>2, <2>3
  <1>3. \A j \in 0 .. m : j \in T
    <2> HIDE DEF T
    <2> QED BY <1>1, <1>2, CountsUp
  <1>4. m \in T
    <2> HIDE DEF T
    <2> QED BY <1>3
  <1> QED BY <1>4
=============================================================================
