----------------------------- MODULE SumTheorems -----------------------------
(***************************************************************************)
(* Sums over finite sets: what the folds of the community modules add up   *)
(* to, whichever member they pick first.  Balances, conservation and       *)
(* reconciliation are such sums.                                           *)
(***************************************************************************)
EXTENDS FiniteSetsExt, FiniteSetTheorems, TLAPS

Pick(s) == CHOOSE x \in s : TRUE

\* g adds f over each subset of S, one member after the other.
Adds(g, f, S) ==
  g = [s \in SUBSET S |-> IF s = {} THEN 0 ELSE f[Pick(s)] + g[s \ {Pick(s)}]]

SumOf(f, S) == (CHOOSE g : Adds(g, f, S))[S]

-----------------------------------------------------------------------------
(* Smallest members                                                         *)

\* Every set of natural numbers but the empty one has a smallest member.
LEMMA SmallestIndex ==
  ASSUME NEW T \in SUBSET Nat, T # {}
  PROVE  \E n \in T : \A k \in T : n <= k
<1> DEFINE Less == {p \in Nat \X Nat : p[1] < p[2]}
<1>1. IsWellFoundedOn(Less, Nat)
  BY NatLessThanWellFounded DEF OpToRel
<1>2. \E n \in T : \A k \in T : ~(<<k, n>> \in Less)
  <2> HIDE DEF Less
  <2> QED
    BY <1>1, WFMin, Zenon
<1>3. PICK n \in T : \A k \in T : ~(<<k, n>> \in Less)
  BY <1>2
<1>4. ASSUME NEW k \in T PROVE n <= k
  <2>1. k \in Nat /\ n \in Nat /\ <<k, n>> \notin Less
    BY <1>3
  <2>2. ~(k < n)
    BY <2>1
  <2> QED
    BY <2>1, <2>2
<1> QED
  BY <1>4

\* Of the subsets of a finite set with a defect, one has no such subset itself.
LEMMA SmallestSubset ==
  ASSUME NEW S, IsFiniteSet(S), NEW B \in SUBSET (SUBSET S), B # {}
  PROVE  \E T \in B : \A U \in SUBSET T : U # T => U \notin B
<1>1. IsWellFoundedOn(StrictSubsetOrdering(S), SUBSET S)
  BY FS_StrictSubsetOrderingWellFounded, FS_FiniteSubsetsOfFinite
<1>2. PICK T \in B : \A U \in B : <<U, T>> \notin StrictSubsetOrdering(S)
  BY <1>1, WFMin, Zenon
<1> QED
  BY <1>2 DEF StrictSubsetOrdering

\* One member of a finite set has the greatest value.
LEMMA GreatestMember ==
  ASSUME NEW S, IsFiniteSet(S), S # {}, NEW w, \A x \in S : w[x] \in Int
  PROVE  \E x \in S : \A y \in S : w[y] <= w[x]
<1> DEFINE Greatest(x, T) == x \in T /\ \A y \in T : w[y] <= w[x]
           Bad == {T \in SUBSET S : T # {} /\ \A x : ~Greatest(x, T)}
<1>1. SUFFICES ASSUME Bad # {} PROVE FALSE
  OBVIOUS
<1>2. PICK T \in Bad : \A U \in SUBSET T : U # T => U \notin Bad
  <2>1. Bad \in SUBSET (SUBSET S)
    OBVIOUS
  <2> HIDE DEF Bad
  <2> QED
    BY <1>1, <2>1, SmallestSubset
<1>3. PICK x \in T : TRUE
  OBVIOUS
<1>4. T \ {x} # {} => \E y : Greatest(y, T \ {x})
  BY <1>2, <1>3, ZenonT(60)
<1>5. T \subseteq S /\ \A y \in T : w[y] \in Int
  BY <1>2
<1>6. \A y : ~Greatest(y, T)
  BY <1>2
<1>7. CASE T = {x}
  BY <1>5, <1>6, <1>7
<1>8. CASE T # {x}
  <2>1. PICK y : Greatest(y, T \ {x})
    BY <1>3, <1>4, <1>8
  <2>2. Greatest(y, T) \/ Greatest(x, T)
    <3>1. w[x] \in Int /\ y \in T /\ x \in T /\ \A z \in T : z = x \/ w[z] <= w[y]
      BY <1>3, <1>5, <2>1
    <3>2. CASE w[x] <= w[y]
      BY <3>1, <3>2
    <3>3. CASE w[y] <= w[x]
      BY <1>5, <3>1, <3>3
    <3> QED
      BY <1>5, <3>1, <3>2, <3>3
  <2> QED
    BY <1>6, <2>2
<1> QED
  BY <1>7, <1>8

\* What is picked from a set is in it.
LEMMA Picked == ASSUME NEW s, s # {} PROVE Pick(s) \in s
BY DEF Pick

-----------------------------------------------------------------------------
(* Adding up                                                                *)

\* What Adds says of one subset.
LEMMA AddsStep ==
  ASSUME NEW g, NEW f, NEW S, Adds(g, f, S), NEW s, s \subseteq S
  PROVE  /\ s = {} => g[s] = 0
         /\ s # {} => /\ Pick(s) \in s
                      /\ s \ {Pick(s)} \subseteq S
                      /\ g[s] = f[Pick(s)] + g[s \ {Pick(s)}]
BY Picked DEF Adds

\* Over a finite set, there is a way to add.
LEMMA AddsExists ==
  ASSUME NEW f, NEW S, IsFiniteSet(S)
  PROVE  \E g : Adds(g, f, S)
<1> DEFINE Small(n) == {s \in SUBSET S : Cardinality(s) <= n}
           Upto(g, n) == g = [s \in Small(n) |-> IF s = {} THEN 0
                                ELSE f[Pick(s)] + g[s \ {Pick(s)}]]
           Bad == {n \in Nat : ~\E g : Upto(g, n)}
<1>1. \A s \in SUBSET S : IsFiniteSet(s) /\ Cardinality(s) \in Nat
                          /\ Cardinality(s) <= Cardinality(S)
  BY FS_Subset, FS_CardinalityType
<1>2. ASSUME NEW n \in Nat, NEW s \in Small(n), s # {}
      PROVE  s \ {Pick(s)} \in SUBSET S /\ Cardinality(s \ {Pick(s)}) <= n - 1
  <2>1. Pick(s) \in s /\ IsFiniteSet(s) /\ Cardinality(s) \in Nat
    BY <1>1, <1>2, Picked
  <2>2. Cardinality(s \ {Pick(s)}) = Cardinality(s) - 1
    BY <2>1, FS_RemoveElement
  <2> QED
    BY <2>1, <2>2
<1>3. ASSUME NEW n \in Nat, n # 0 => \E g : Upto(g, n - 1)
      PROVE  \E g : Upto(g, n)
  <2>1. CASE n = 0
    <3> DEFINE g == [s \in Small(n) |-> 0]
    <3>1. \A s \in Small(n) : s = {}
      BY <1>1, <2>1, FS_EmptySet
    <3>2. Upto(g, n)
      BY <3>1
    <3> QED
      BY <3>2
  <2>2. CASE n # 0
    <3>1. PICK h : Upto(h, n - 1)
      BY <1>3, <2>2
    <3> DEFINE g == [s \in Small(n) |-> IF s = {} THEN 0 ELSE f[Pick(s)] + h[s \ {Pick(s)}]]
    <3>2. ASSUME NEW s \in Small(n - 1) PROVE s \in Small(n) /\ g[s] = h[s]
      <4>1. s \in Small(n)
        BY <1>1, <2>2
      <4>2. h[s] = IF s = {} THEN 0 ELSE f[Pick(s)] + h[s \ {Pick(s)}]
        BY <3>1
      <4> QED
        BY <4>1, <4>2
    <3>3. \A s \in Small(n) : s # {} => s \ {Pick(s)} \in Small(n - 1)
      BY <1>2
    <3>4. \A s \in Small(n) : s # {} => g[s \ {Pick(s)}] = h[s \ {Pick(s)}]
      BY <3>2, <3>3
    <3>5. g = [s \in Small(n) |-> IF s = {} THEN 0 ELSE f[Pick(s)] + g[s \ {Pick(s)}]]
      BY <3>4
    <3> QED
      BY <3>5
  <2> QED
    BY <2>1, <2>2
<1>4. Bad = {}
  <2>1. SUFFICES ASSUME Bad # {} PROVE FALSE
    OBVIOUS
  <2>2. PICK n \in Bad : \A k \in Bad : n <= k
    BY <2>1, SmallestIndex
  <2>3. n \in Nat /\ (n # 0 => n - 1 \in Nat /\ n - 1 \notin Bad)
    <3>1. n \in Nat
      OBVIOUS
    <3>2. n # 0 => n - 1 \in Nat /\ ~(n <= n - 1)
      BY <3>1
    <3> HIDE DEF Bad
    <3> QED
      BY <2>2, <3>1, <3>2
  <2>4. n # 0 => \E g : Upto(g, n - 1)
    BY <2>3
  <2> QED
    BY <1>3, <2>2, <2>3, <2>4
<1>5. Cardinality(S) \in Nat /\ Small(Cardinality(S)) = SUBSET S
  BY <1>1
<1>6. \E g : Upto(g, Cardinality(S))
  BY <1>4, <1>5
<1> QED
  BY <1>5, <1>6 DEF Adds

\* Two ways to add what is the same agree.
LEMMA AddsAgree ==
  ASSUME NEW S, IsFiniteSet(S), NEW T \in SUBSET S, NEW f, NEW e, NEW g, NEW h,
         Adds(g, f, S), Adds(h, e, T), \A x \in T : f[x] = e[x]
  PROVE  \A s \in SUBSET T : g[s] = h[s]
<1> DEFINE Bad == {s \in SUBSET T : g[s] # h[s]}
<1>1. SUFFICES ASSUME Bad # {} PROVE FALSE
  OBVIOUS
<1>2. PICK s \in Bad : \A u \in SUBSET s : u # s => u \notin Bad
  <2>1. IsFiniteSet(T) /\ Bad \in SUBSET (SUBSET T)
    BY FS_Subset
  <2> HIDE DEF Bad
  <2> QED
    BY <1>1, <2>1, SmallestSubset
<1>3. s \in SUBSET T /\ s \in SUBSET S /\ g[s] # h[s]
  BY <1>2
<1>4. /\ s # {} /\ Pick(s) \in s
      /\ g[s] = f[Pick(s)] + g[s \ {Pick(s)}]
      /\ h[s] = e[Pick(s)] + h[s \ {Pick(s)}]
  <2> HIDE DEF Bad
  <2>1. s \subseteq S /\ s \subseteq T
    BY <1>3
  <2>2. s = {} => g[s] = 0 /\ h[s] = 0
    BY <2>1, AddsStep
  <2> QED
    BY <1>3, <2>1, <2>2, AddsStep
<1>5. g[s \ {Pick(s)}] = h[s \ {Pick(s)}]
  BY <1>2, <1>4
<1>6. f[Pick(s)] = e[Pick(s)]
  BY <1>3, <1>4
<1> QED
  BY <1>3, <1>4, <1>5, <1>6

\* Sums of integers are integers, and any member may come first.
LEMMA AddsInts ==
  ASSUME NEW S, IsFiniteSet(S), NEW f, NEW g, Adds(g, f, S), \A x \in S : f[x] \in Int
  PROVE  /\ \A s \in SUBSET S : g[s] \in Int
         /\ \A s \in SUBSET S : \A y \in s : g[s] = f[y] + g[s \ {y}]
<1>1. \A s \in SUBSET S : g[s] \in Int
  <2> DEFINE Bad == {s \in SUBSET S : g[s] \notin Int}
  <2>1. SUFFICES ASSUME Bad # {} PROVE FALSE
    OBVIOUS
  <2>2. PICK s \in Bad : \A u \in SUBSET s : u # s => u \notin Bad
    <3>1. Bad \in SUBSET (SUBSET S)
      OBVIOUS
    <3> HIDE DEF Bad
    <3> QED
      BY <2>1, <3>1, SmallestSubset
  <2>3. s \subseteq S /\ g[s] \notin Int
    BY <2>2
  <2>4. /\ s # {} /\ Pick(s) \in s
        /\ g[s] = f[Pick(s)] + g[s \ {Pick(s)}]
    <3> HIDE DEF Bad
    <3>1. s = {} => g[s] = 0
      BY <2>3, AddsStep
    <3> QED
      BY <2>3, <3>1, AddsStep
  <2>5. g[s \ {Pick(s)}] \in Int
    BY <2>2, <2>4
  <2>6. f[Pick(s)] \in Int
    BY <2>3, <2>4
  <2> QED
    BY <2>3, <2>4, <2>5, <2>6
<1>2. \A s \in SUBSET S : \A y \in s : g[s] = f[y] + g[s \ {y}]
  <2> DEFINE Bad == {s \in SUBSET S : \E y \in s : g[s] # f[y] + g[s \ {y}]}
  <2>1. SUFFICES ASSUME Bad # {} PROVE FALSE
    OBVIOUS
  <2>2. PICK s \in Bad : \A u \in SUBSET s : u # s => u \notin Bad
    <3>1. Bad \in SUBSET (SUBSET S)
      OBVIOUS
    <3> HIDE DEF Bad
    <3> QED
      BY <2>1, <3>1, SmallestSubset
  <2>3. PICK y \in s : g[s] # f[y] + g[s \ {y}]
    BY <2>2
  <2> DEFINE x == Pick(s)
             rest == s \ {x, y}
  <2>4. s \in SUBSET S /\ x \in s /\ g[s] = f[x] + g[s \ {x}] /\ x # y
    <3>1. s \subseteq S /\ s # {}
      BY <2>2
    <3> HIDE DEF Bad
    <3>2. x \in s /\ g[s] = f[x] + g[s \ {x}]
      BY <3>1, AddsStep
    <3> QED
      BY <2>3, <3>1, <3>2
  <2> HIDE DEF x
  <2>5. g[s \ {x}] = f[y] + g[rest]
    <3>1. s \ {x} \notin Bad /\ s \ {x} \in SUBSET S /\ y \in s \ {x}
      BY <2>2, <2>4
    <3>2. (s \ {x}) \ {y} = rest
      OBVIOUS
    <3> QED
      BY <3>1, <3>2
  <2>6. g[s \ {y}] = f[x] + g[rest]
    <3>1. s \ {y} \notin Bad /\ s \ {y} \in SUBSET S /\ x \in s \ {y}
      BY <2>2, <2>4
    <3>2. (s \ {y}) \ {x} = rest
      OBVIOUS
    <3> QED
      BY <3>1, <3>2
  <2>7. f[x] \in Int /\ f[y] \in Int /\ g[rest] \in Int
    BY <1>1, <2>4
  <2> QED
    BY <2>3, <2>4, <2>5, <2>6, <2>7
<1> QED
  BY <1>1, <1>2

-----------------------------------------------------------------------------
(* Sums                                                                     *)

\* There is a function that adds up, and SumOf is its value.
LEMMA SumAdds ==
  ASSUME NEW f, NEW S, IsFiniteSet(S)
  PROVE  \E g : Adds(g, f, S) /\ SumOf(f, S) = g[S]
BY AddsExists DEF SumOf

\* The sum of nothing.
LEMMA SumEmpty == ASSUME NEW f PROVE SumOf(f, {}) = 0
<1>1. PICK g : Adds(g, f, {}) /\ SumOf(f, {}) = g[{}]
  BY FS_EmptySet, SumAdds
<1> QED
  BY <1>1, AddsStep

\* A sum depends on the summands only.
LEMMA SumSame ==
  ASSUME NEW S, IsFiniteSet(S), NEW f, NEW e, \A x \in S : f[x] = e[x]
  PROVE  SumOf(f, S) = SumOf(e, S)
<1>1. PICK g : Adds(g, f, S) /\ SumOf(f, S) = g[S]
  BY SumAdds
<1>2. PICK h : Adds(h, e, S) /\ SumOf(e, S) = h[S]
  BY SumAdds
<1>3. S \in SUBSET S
  OBVIOUS
<1>4. \A s \in SUBSET S : g[s] = h[s]
  BY <1>1, <1>2, <1>3, AddsAgree
<1> QED
  BY <1>1, <1>2, <1>3, <1>4

\* A sum of integers is an integer.
LEMMA SumInt ==
  ASSUME NEW S, IsFiniteSet(S), NEW f, \A x \in S : f[x] \in Int
  PROVE  SumOf(f, S) \in Int
<1>1. PICK g : Adds(g, f, S) /\ SumOf(f, S) = g[S]
  BY SumAdds
<1> QED
  BY <1>1, AddsInts

\* Any member may be split off.
LEMMA SumSplit ==
  ASSUME NEW S, IsFiniteSet(S), NEW f, \A x \in S : f[x] \in Int, NEW y \in S
  PROVE  SumOf(f, S) = f[y] + SumOf(f, S \ {y})
<1> DEFINE T == S \ {y}
<1>1. IsFiniteSet(T) /\ T \in SUBSET S
  BY FS_Subset
<1>2. PICK g : Adds(g, f, S) /\ SumOf(f, S) = g[S]
  BY SumAdds
<1>3. PICK h : Adds(h, f, T) /\ SumOf(f, T) = h[T]
  BY <1>1, SumAdds
<1>4. g[T] = h[T]
  BY <1>1, <1>2, <1>3, AddsAgree
<1>5. g[S] = f[y] + g[T]
  BY <1>2, AddsInts
<1> QED
  BY <1>2, <1>3, <1>4, <1>5

\* What one member loses and another gains leaves the sum as it was.
LEMMA SumMoved ==
  ASSUME NEW S, IsFiniteSet(S), NEW f, NEW e,
         \A z \in S : f[z] \in Int /\ e[z] \in Int,
         NEW x \in S, NEW y \in S, x # y,
         \A z \in S \ {x, y} : f[z] = e[z],
         f[x] + f[y] = e[x] + e[y]
  PROVE  SumOf(f, S) = SumOf(e, S)
<1> DEFINE R == S \ {x}
           T == R \ {y}
<1>1. IsFiniteSet(R) /\ IsFiniteSet(T) /\ y \in R /\ R \subseteq S /\ T \subseteq S
  BY FS_Subset
<1>2. \A z \in T : f[z] = e[z]
  OBVIOUS
<1>3. SumOf(f, S) = f[x] + SumOf(f, R) /\ SumOf(e, S) = e[x] + SumOf(e, R)
  BY SumSplit
<1> HIDE DEF T
<1>4. \A z \in R : f[z] \in Int /\ e[z] \in Int
  BY <1>1
<1>5. SumOf(f, R) = f[y] + SumOf(f, T) /\ SumOf(e, R) = e[y] + SumOf(e, T)
  <2> HIDE DEF R
  <2>1. \A z \in R : f[z] \in Int
    BY <1>4
  <2>2. \A z \in R : e[z] \in Int
    BY <1>4
  <2>3. SumOf(f, R) = f[y] + SumOf(f, R \ {y})
    BY <1>1, <2>1, SumSplit
  <2>4. SumOf(e, R) = e[y] + SumOf(e, R \ {y})
    BY <1>1, <2>2, SumSplit
  <2> QED
    BY <2>3, <2>4 DEF T
<1>6. SumOf(f, T) = SumOf(e, T)
  BY <1>1, <1>2, SumSame
<1>7. \A z \in T : f[z] \in Int
  BY <1>1
<1>8. SumOf(f, T) \in Int
  BY <1>1, <1>7, SumInt
<1>9. f[x] \in Int /\ f[y] \in Int /\ e[x] \in Int /\ e[y] \in Int
  OBVIOUS
<1> QED
  BY <1>3, <1>5, <1>6, <1>8, <1>9

\* Zeros add up to zero.
LEMMA SumOfZeros ==
  ASSUME NEW S, IsFiniteSet(S), NEW f, \A x \in S : f[x] = 0
  PROVE  SumOf(f, S) = 0
<1> DEFINE Bad == {T \in SUBSET S : SumOf(f, T) # 0}
<1>1. SUFFICES ASSUME Bad # {} PROVE FALSE
  OBVIOUS
<1>2. PICK T \in Bad : \A U \in SUBSET T : U # T => U \notin Bad
  <2>1. Bad \in SUBSET (SUBSET S)
    OBVIOUS
  <2> HIDE DEF Bad
  <2> QED
    BY <1>1, <2>1, SmallestSubset
<1>3. T \in SUBSET S /\ SumOf(f, T) # 0 /\ IsFiniteSet(T)
  BY <1>2, FS_Subset
<1>4. PICK y \in T : TRUE
  BY <1>3, SumEmpty
<1>5. SumOf(f, T \ {y}) = 0
  BY <1>2, <1>3, <1>4
<1>6. SumOf(f, T) = f[y] + SumOf(f, T \ {y})
  BY <1>3, SumSplit
<1> QED
  BY <1>3, <1>5, <1>6
=============================================================================
