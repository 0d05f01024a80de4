------------------------------ MODULE OperatorProofs ------------------------------
(***************************************************************************)
(* Facts about the operators the model is built from.                      *)
(*                                                                         *)
(* Sums: what the proofs about the cluster and about the utilization       *)
(* integral rest on.  The induction theorems of the library take the       *)
(* property to be shown as an operator; here it is the set of those it     *)
(* holds of.                                                               *)
(*                                                                         *)
(* Policies: what every placement policy and every queue policy keeps to,  *)
(* for any cluster and any arguments: the contract of the two interfaces   *)
(* in sched/scheduler.hpp and sched/queue_policy.hpp.                      *)
(***************************************************************************)
EXTENDS Backfill, FiniteSetTheorems, WellFoundedInduction, TLAPS

--------------------------------------------------------------------------------
(* Induction *)

\* A nonempty set of naturals has a least member.
LEMMA LeastNat ==
    ASSUME NEW T, T \subseteq Nat, T # {}
    PROVE  \E x \in T : \A y \in T : x <= y
<1>. DEFINE R == {ss \in Nat \X Nat : ss[1] < ss[2]}
<1>0. IsWellFoundedOn(R, Nat)
  BY NatLessThanWellFounded, Zenon DEF OpToRel
<1>1. PICK x \in T : \A y \in T : ~ (<<y, x>> \in R)
  <2>. HIDE DEF R
  <2>. QED  BY <1>0, WFMin
<1>2. ASSUME NEW y \in T PROVE x <= y
  <2>1. <<y, x>> \notin R
    BY <1>1
  <2>2. x \in Nat /\ y \in Nat
    OBVIOUS
  <2>. QED  BY <2>1, <2>2
<1>. QED  BY <1>2

\* What holds of the empty set, and of a subset of S with one member more
\* whenever it holds of the subset, holds of S.
LEMMA SubsetInduction ==
    ASSUME NEW S, IsFiniteSet(S), NEW Good, {} \in Good,
           \A T \in SUBSET S : \A x \in S \ T : T \in Good => T \cup {x} \in Good
    PROVE  S \in Good
<1>. DEFINE Bad == {T \in SUBSET S : T \notin Good}
            Sizes == {Cardinality(T) : T \in Bad}
<1>1. \A T \in SUBSET S : IsFiniteSet(T) /\ Cardinality(T) \in Nat
  BY FS_Subset, FS_CardinalityType
<1>2. SUFFICES ASSUME Sizes # {} PROVE FALSE
  OBVIOUS
<1>3. PICK k \in Sizes : \A l \in Sizes : k <= l
  <2>1. Sizes \subseteq Nat
    BY <1>1
  <2>. HIDE DEF Sizes
  <2>. QED  BY <1>2, <2>1, LeastNat
<1>4. PICK T \in Bad : k = Cardinality(T)
  BY <1>3
<1>5. PICK x \in T : TRUE
  BY <1>4
<1>6. /\ Cardinality(T \ {x}) = Cardinality(T) - 1
      /\ Cardinality(T) \in Nat /\ Cardinality(T \ {x}) \in Nat
  BY <1>1, <1>4, <1>5, FS_RemoveElement
<1>7. T \ {x} \in Good
  <2>1. T \ {x} \in Bad => Cardinality(T \ {x}) \in Sizes
    OBVIOUS
  <2>2. T \ {x} \in SUBSET S
    BY <1>4
  <2>3. T \ {x} \notin Bad
    <3>. HIDE DEF Sizes
    <3>. QED  BY <1>3, <1>4, <1>6, <2>1
  <2>. QED  BY <2>2, <2>3
<1>8. (T \ {x}) \cup {x} = T
  BY <1>5
<1>9. T \in Good
  BY <1>4, <1>5, <1>7, <1>8
<1>. QED  BY <1>4, <1>9

\* As many numbers as there are members, no two the same and each below that
\* count: every number below it is one of them.
LEMMA NumbersAllTaken ==
    ASSUME NEW S, IsFiniteSet(S), NEW f \in [S -> 0 .. Cardinality(S) - 1],
           \A x, y \in S : f[x] = f[y] => x = y
    PROVE  \A m \in 0 .. Cardinality(S) - 1 : \E x \in S : f[x] = m
<1>. DEFINE n == Cardinality(S)
<1>1. n \in Nat
  BY FS_CardinalityType
<1>2. IsFiniteSet(0 .. n - 1) /\ Cardinality(0 .. n - 1) = n
  <2>. HIDE DEF n
  <2>1. 0 \in Int /\ n - 1 \in Int /\ (0 > n - 1 => n = 0) /\ (n - 1) - 0 + 1 = n
    BY <1>1
  <2>. QED  BY <2>1, FS_Interval
<1>3. f \in Injection(S, 0 .. n - 1)
  BY DEF Injection, IsInjective
<1>4. f \in Surjection(S, 0 .. n - 1)
  BY <1>2, <1>3, FS_Injection
<1>. QED  BY <1>4 DEF Surjection

\* A set whose members have numbers of their own below a bound is finite.
LEMMA NumberedIsFinite ==
    ASSUME NEW S, NEW n \in Nat, NEW f, \A x \in S : f[x] \in 0 .. n - 1,
           \A x, y \in S : f[x] = f[y] => x = y
    PROVE  IsFiniteSet(S)
<1>. DEFINE g == [x \in S |-> f[x]]
            T == 0 .. n - 1
<1>1. g \in Injection(S, T)
  BY DEF Injection, IsInjective
<1>2. IsFiniteSet(T)
  BY FS_Interval
<1>. HIDE DEF g, T
<1>. QED  BY <1>1, <1>2, FS_Injection

\* A finite set has a finite image.
LEMMA FiniteImage ==
    ASSUME NEW S, IsFiniteSet(S), NEW f
    PROVE  IsFiniteSet({f[x] : x \in S})
<1>1. [x \in S |-> f[x]] \in Surjection(S, {f[x] : x \in S})
  BY DEF Surjection
<1>. QED  BY <1>1, FS_Surjection

\* A set every member of which is a value on a finite set is finite.
LEMMA FiniteValues ==
    ASSUME NEW S, IsFiniteSet(S), NEW f, NEW T, \A y \in T : \E x \in S : f[x] = y
    PROVE  IsFiniteSet(T)
<1>. DEFINE image == {f[x] : x \in S}
<1>1. IsFiniteSet(image)
  BY FiniteImage
<1>2. T \in SUBSET image
  OBVIOUS
<1>. HIDE DEF image
<1>. QED  BY <1>1, <1>2, FS_Subset

\* A nonempty finite set of naturals has a greatest member.
LEMMA GreatestNat ==
    ASSUME NEW S, IsFiniteSet(S), S \subseteq Nat, S # {}
    PROVE  \E x \in S : \A y \in S : x >= y
<1>. DEFINE Good == {T \in SUBSET S : T = {} \/ \E x \in T : \A y \in T : x >= y}
<1>1. ASSUME NEW T \in SUBSET S, NEW z \in S \ T, T \in Good
      PROVE  T \cup {z} \in Good
  <2>1. CASE T = {}
    BY <2>1
  <2>2. CASE T # {}
    <3>1. PICK x \in T : \A y \in T : x >= y
      BY <1>1, <2>2
    <3>2. x \in Nat /\ z \in Nat /\ \A y \in T : y \in Nat
      OBVIOUS
    <3>3. IF z >= x THEN \A y \in T \cup {z} : z >= y ELSE \A y \in T \cup {z} : x >= y
      BY <3>1, <3>2
    <3>. QED  BY <3>1, <3>3
  <2>. QED  BY <2>1, <2>2
<1>2. {} \in Good
  OBVIOUS
<1>3. S \in Good
  <2>. HIDE DEF Good
  <2>. QED  BY <1>1, <1>2, SubsetInduction
<1>. QED  BY <1>3

\* Finitely many naturals, listed, have a greatest.
LEMMA GreatestListed ==
    ASSUME NEW n \in Nat \ {0}, NEW f, \A i \in 0 .. n - 1 : f[i] \in Nat
    PROVE  \E x \in {f[i] : i \in 0 .. n - 1} : \A y \in {f[i] : i \in 0 .. n - 1} : x >= y
<1>. DEFINE S == {f[i] : i \in 0 .. n - 1}
<1>1. IsFiniteSet(0 .. n - 1) /\ 0 .. n - 1 # {}
  <2>1. 0 \in Int /\ n - 1 \in Int /\ 0 \in 0 .. n - 1
    OBVIOUS
  <2>. QED  BY <2>1, FS_Interval, Zenon
<1>2. IsFiniteSet(S)
  BY <1>1, FiniteImage
<1>3. S \subseteq Nat /\ S # {}
  BY <1>1
<1>4. \E x \in S : \A y \in S : x >= y
  <2>. HIDE DEF S
  <2>. QED  BY <1>2, <1>3, GreatestNat
<1>. QED  BY <1>4

\* A list that names every member of a set once is as long as the set is
\* large.
LEMMA CountByList ==
    ASSUME NEW T, NEW s, NEW n \in Nat, \A i \in 1 .. n : s[i] \in T,
           \A x \in T : \E i \in 1 .. n : s[i] = x,
           \A i, k \in 1 .. n : s[i] = s[k] => i = k
    PROVE  IsFiniteSet(T) /\ Cardinality(T) = n
<1>. DEFINE f == [i \in 1 .. n |-> s[i]]
<1>1. f \in Bijection(1 .. n, T)
  BY DEF Bijection, Injection, Surjection, IsInjective
<1>2. IsFiniteSet(1 .. n) /\ Cardinality(1 .. n) = n
  BY FS_Interval
<1>. HIDE DEF f
<1>3. ExistsBijection(1 .. n, T)
  BY <1>1 DEF ExistsBijection
<1>. QED  BY <1>2, <1>3, FS_Bijection

--------------------------------------------------------------------------------
(* Sums *)

\* The units of one element are finite and as many as its amount.
LEMMA UnitsOfOne ==
    ASSUME NEW x, NEW k \in Nat
    PROVE  IsFiniteSet({x} \X (1 .. k)) /\ Cardinality({x} \X (1 .. k)) = k
<1>1. IsFiniteSet({x}) /\ Cardinality({x}) = 1
  BY FS_Singleton
<1>2. IsFiniteSet(1 .. k) /\ Cardinality(1 .. k) = k
  BY FS_Interval, SMT
<1>3. /\ IsFiniteSet({x} \X (1 .. k))
      /\ Cardinality({x} \X (1 .. k)) = Cardinality({x}) * Cardinality(1 .. k)
  BY <1>1, <1>2, FS_Product
<1>. QED  BY <1>1, <1>2, <1>3

\* A sum with the counting written out: an instance of Sums has a Cardinality
\* of its own, which is the same one only by its definition.
LEMMA SumWrittenOut ==
    ASSUME NEW S, NEW amount
    PROVE  SumOver(S, amount) =
             LET count[T \in SUBSET Units(S, amount)] ==
                     IF T = {} THEN 0 ELSE 1 + count[T \ {CHOOSE x : x \in T}]
             IN  count[Units(S, amount)]
  BY Zenon DEF SumOver, Cardinality

\* Finitely many amounts have finitely many units, so their sum is a number.
LEMMA SumType ==
    ASSUME NEW S, IsFiniteSet(S), NEW amount, \A x \in S : amount[x] \in Nat
    PROVE  IsFiniteSet(Units(S, amount)) /\ SumOver(S, amount) \in Nat
<1>. DEFINE f == [x \in S |-> {x} \X (1 .. amount[x])]
             T == {{x} \X (1 .. amount[x]) : x \in S}
<1>1. IsFiniteSet(T)
  <2>1. f \in Surjection(S, T)
    BY DEF Surjection
  <2>. QED  BY <2>1, FS_Surjection
<1>2. ASSUME NEW U \in T
      PROVE  IsFiniteSet(U)
  <2>1. PICK x \in S : U = {x} \X (1 .. amount[x])
    OBVIOUS
  <2>. QED  BY <2>1, UnitsOfOne
<1>3. IsFiniteSet(Units(S, amount))
  BY <1>1, <1>2, FS_UNION DEF Units
<1>. QED  BY <1>3, FS_CardinalityType DEF SumOver

\* The empty sum is zero.
LEMMA SumEmpty ==
    ASSUME NEW amount
    PROVE  SumOver({}, amount) = 0
<1>1. Units({}, amount) = {}
  BY DEF Units
<1>. QED  BY <1>1, FS_EmptySet DEF SumOver

\* A sum depends only on the amounts of the members of the set.
LEMMA SumCongruence ==
    ASSUME NEW S, NEW a, NEW b, \A x \in S : a[x] = b[x]
    PROVE  SumOver(S, a) = SumOver(S, b)
<1>1. Units(S, a) = Units(S, b)
  BY DEF Units
<1>. QED  BY <1>1 DEF SumOver

\* Adding a new member adds its amount.
LEMMA SumAdd ==
    ASSUME NEW S, IsFiniteSet(S), NEW amount, NEW x, x \notin S,
           \A y \in S \cup {x} : amount[y] \in Nat
    PROVE  SumOver(S \cup {x}, amount) = SumOver(S, amount) + amount[x]
<1>. DEFINE X == {x} \X (1 .. amount[x])
<1>1. Units(S \cup {x}, amount) = Units(S, amount) \cup X
  BY DEF Units
<1>2. Units(S, amount) \cap X = {}
  BY DEF Units
<1>3. IsFiniteSet(Units(S, amount)) /\ SumOver(S, amount) \in Nat
  BY SumType
<1>4. IsFiniteSet(X) /\ Cardinality(X) = amount[x]
  BY UnitsOfOne
<1>5. Cardinality(Units(S, amount) \cup X) =
        Cardinality(Units(S, amount)) + Cardinality(X) - Cardinality(Units(S, amount) \cap X)
  BY <1>3, <1>4, FS_Union
<1>6. Cardinality(Units(S, amount) \cap X) = 0
  BY <1>2, FS_EmptySet
<1>7. amount[x] \in Nat
  OBVIOUS
<1>. DEFINE cS == Cardinality(Units(S, amount))
            cX == Cardinality(X)
            cI == Cardinality(Units(S, amount) \cap X)
            cU == Cardinality(Units(S, amount) \cup X)
<1>8. cU = cS + cX - cI /\ cI = 0 /\ cX = amount[x] /\ cS \in Nat
  BY <1>3, <1>4, <1>5, <1>6 DEF SumOver
<1>9. cU = cS + amount[x]
  <2>. HIDE DEF cS, cX, cI, cU
  <2>. QED  BY <1>7, <1>8
<1>. QED  BY <1>1, <1>9 DEF SumOver

\* Removing a member removes its amount.
LEMMA SumRemove ==
    ASSUME NEW S, IsFiniteSet(S), NEW amount, NEW x \in S,
           \A y \in S : amount[y] \in Nat
    PROVE  SumOver(S, amount) = SumOver(S \ {x}, amount) + amount[x]
<1>. DEFINE R == S \ {x}
<1>1. IsFiniteSet(R)
  BY FS_RemoveElement
<1>2. R \cup {x} = S /\ x \notin R
  OBVIOUS
<1>. HIDE DEF R
<1>3. \A y \in R \cup {x} : amount[y] \in Nat
  BY <1>2
<1>4. SumOver(R \cup {x}, amount) = SumOver(R, amount) + amount[x]
  BY <1>1, <1>2, <1>3, SumAdd
<1>. QED  BY <1>2, <1>4 DEF R

\* A sum over a part is at most the sum over the whole.
LEMMA SumMonotone ==
    ASSUME NEW S, NEW T, IsFiniteSet(S), T \subseteq S, NEW amount,
           \A x \in S : amount[x] \in Nat
    PROVE  SumOver(T, amount) <= SumOver(S, amount)
<1>1. Units(T, amount) \subseteq Units(S, amount)
  BY DEF Units
<1>2. IsFiniteSet(Units(S, amount))
  BY SumType
<1>. QED  BY <1>1, <1>2, FS_Subset DEF SumOver

\* A sum of larger amounts is at least as large.
LEMMA SumLarger ==
    ASSUME NEW S, IsFiniteSet(S), NEW a, NEW b,
           \A x \in S : a[x] \in Nat /\ b[x] \in Nat /\ a[x] <= b[x]
    PROVE  SumOver(S, a) <= SumOver(S, b)
<1>1. \A x \in S : 1 .. a[x] \subseteq 1 .. b[x]
  OBVIOUS
<1>2. Units(S, a) \subseteq Units(S, b)
  <2>1. ASSUME NEW u \in Units(S, a)
        PROVE  u \in Units(S, b)
    <3>1. PICK x \in S : u \in {x} \X (1 .. a[x])
      BY DEF Units
    <3>2. u \in {x} \X (1 .. b[x])
      BY <1>1, <3>1
    <3>. QED  BY <3>2 DEF Units
  <2>. QED  BY <2>1
<1>3. IsFiniteSet(Units(S, b))
  BY SumType
<1>. QED  BY <1>2, <1>3, FS_Subset DEF SumOver

\* The step of the inductions below.
LEMMA SumStep ==
    ASSUME NEW S, IsFiniteSet(S), NEW T \in SUBSET S, NEW x \in S \ T, NEW f,
           \A y \in S : f[y] \in Nat
    PROVE  SumOver(T \cup {x}, f) = SumOver(T, f) + f[x] /\ SumOver(T, f) \in Nat
<1>1. IsFiniteSet(T) /\ x \notin T /\ \A y \in T \cup {x} : f[y] \in Nat
  BY FS_Subset
<1>. QED  BY <1>1, SumAdd, SumType

\* The sum of sums is the sum of the amounts, added up.
LEMMA SumPlus ==
    ASSUME NEW S, IsFiniteSet(S), NEW a, NEW b, NEW c,
           \A x \in S : a[x] \in Nat /\ b[x] \in Nat /\ c[x] = a[x] + b[x]
    PROVE  SumOver(S, c) = SumOver(S, a) + SumOver(S, b)
<1>. DEFINE Good == {T \in SUBSET S : SumOver(T, c) = SumOver(T, a) + SumOver(T, b)}
<1>0. (\A x \in S : a[x] \in Nat) /\ (\A x \in S : b[x] \in Nat) /\ (\A x \in S : c[x] \in Nat)
  OBVIOUS
<1>1. {} \in Good
  BY SumEmpty
<1>2. ASSUME NEW T \in SUBSET S, NEW x \in S \ T, T \in Good
      PROVE  T \cup {x} \in Good
  <2>1. IsFiniteSet(T) /\ T \cup {x} \subseteq S
    BY FS_Subset
  <2>2. SumOver(T \cup {x}, a) = SumOver(T, a) + a[x] /\ SumOver(T, a) \in Nat
    BY <1>0, SumStep
  <2>3. SumOver(T \cup {x}, b) = SumOver(T, b) + b[x] /\ SumOver(T, b) \in Nat
    BY <1>0, SumStep
  <2>6. SumOver(T \cup {x}, c) = SumOver(T, c) + c[x]
    BY <1>0, SumStep
  <2>4. SumOver(T, c) = SumOver(T, a) + SumOver(T, b) /\ c[x] = a[x] + b[x]
    BY <1>2
  <2>5. a[x] \in Nat /\ b[x] \in Nat
    OBVIOUS
  <2>. QED  BY <2>1, <2>2, <2>3, <2>4, <2>5, <2>6
<1>. HIDE DEF Good
<1>3. S \in Good
  BY <1>1, <1>2, SubsetInduction
<1>. QED  BY <1>3 DEF Good

\* The sum of ones is how many there are.
LEMMA SumOfOnes ==
    ASSUME NEW S, IsFiniteSet(S), NEW a, \A x \in S : a[x] = 1
    PROVE  SumOver(S, a) = Cardinality(S)
<1>. DEFINE Good == {T \in SUBSET S : SumOver(T, a) = Cardinality(T)}
<1>1. {} \in Good
  BY SumEmpty, FS_EmptySet
<1>2. ASSUME NEW T \in SUBSET S, NEW x \in S \ T, T \in Good
      PROVE  T \cup {x} \in Good
  <2>1. IsFiniteSet(T) /\ Cardinality(T) \in Nat /\ x \notin T
    BY FS_Subset, FS_CardinalityType
  <2>2. Cardinality(T \cup {x}) = Cardinality(T) + 1
    BY <2>1, FS_AddElement
  <2>3. \A y \in S : a[y] \in Nat
    OBVIOUS
  <2>4. SumOver(T \cup {x}, a) = SumOver(T, a) + a[x]
    BY <2>3, SumStep
  <2>. QED  BY <1>2, <2>2, <2>4
<1>3. S \in Good
  <2>. HIDE DEF Good
  <2>. QED  BY <1>1, <1>2, SubsetInduction
<1>. QED  BY <1>3

\* A factor of every amount is a factor of the sum.
LEMMA SumScale ==
    ASSUME NEW S, IsFiniteSet(S), NEW a, NEW c, NEW k \in Nat,
           \A x \in S : a[x] \in Nat /\ c[x] = k * a[x]
    PROVE  SumOver(S, c) = k * SumOver(S, a)
<1>. DEFINE Good == {T \in SUBSET S : SumOver(T, c) = k * SumOver(T, a)}
<1>1. {} \in Good
  BY SumEmpty
<1>2. ASSUME NEW T \in SUBSET S, NEW x \in S \ T, T \in Good
      PROVE  T \cup {x} \in Good
  <2>1. IsFiniteSet(T) /\ T \cup {x} \subseteq S
    BY FS_Subset
  <2>2. \A y \in T \cup {x} : a[y] \in Nat /\ c[y] \in Nat
    BY <2>1
  <2>3. /\ SumOver(T \cup {x}, a) = SumOver(T, a) + a[x]
        /\ SumOver(T \cup {x}, c) = SumOver(T, c) + c[x]
    BY <2>1, <2>2, SumAdd
  <2>4. /\ SumOver(T, a) \in Nat /\ a[x] \in Nat
        /\ SumOver(T, c) = k * SumOver(T, a) /\ c[x] = k * a[x]
    BY <1>2, <2>1, <2>2, SumType
  <2>5. SumOver(T \cup {x}, c) = k * SumOver(T \cup {x}, a)
    BY <2>3, <2>4
  <2>. QED  BY <2>1, <2>5
<1>. HIDE DEF Good
<1>3. S \in Good
  BY <1>1, <1>2, SubsetInduction
<1>. QED  BY <1>3 DEF Good

\* Amounts of nothing do not count.
LEMMA SumRestrict ==
    ASSUME NEW S, IsFiniteSet(S), NEW R, R \subseteq S, NEW a,
           \A x \in S : a[x] \in Nat /\ (x \notin R => a[x] = 0)
    PROVE  SumOver(S, a) = SumOver(R, a)
<1>1. ASSUME NEW x \in S, x \notin R
      PROVE  {x} \X (1 .. a[x]) = {}
  <2>1. 1 .. a[x] = {}
    BY <1>1
  <2>. QED  BY <2>1
<1>2. Units(S, a) = Units(R, a)
  BY <1>1 DEF Units
<1>. QED  BY <1>2 DEF SumOver

\* Counting the members of S by the box they are in, box by box.
LEMMA SumPartition ==
    ASSUME NEW S, IsFiniteSet(S), NEW N, IsFiniteSet(N), NEW box,
           \A x \in S : box[x] \in N, NEW a, \A x \in S : a[x] \in Nat,
           NEW content, \A n \in N : content[n] = {x \in S : box[x] = n},
           NEW h, \A n \in N : h[n] = SumOver(content[n], a)
    PROVE  SumOver(N, h) = SumOver(S, a)
<1>. DEFINE In(n) == {x \in S : box[x] = n}
            Within(T) == {x \in S : box[x] \in T}
            Good == {T \in SUBSET N : SumOver(T, h) = SumOver(Within(T), a)}
<1>0. \A n \in N : h[n] \in Nat
  <2>1. \A n \in N : In(n) \subseteq S /\ content[n] = In(n)
    OBVIOUS
  <2>2. \A n \in N : IsFiniteSet(In(n)) /\ \A x \in In(n) : a[x] \in Nat
    BY <2>1, FS_Subset
  <2>3. \A n \in N : SumOver(In(n), a) \in Nat
    <3>. HIDE DEF In
    <3>. QED  BY <2>2, SumType
  <2>4. \A n \in N : h[n] = SumOver(In(n), a)
    <3>. HIDE DEF In
    <3>. QED  BY <2>1
  <2>. HIDE DEF In
  <2>. QED  BY <2>3, <2>4
<1>1. {} \in Good
  <2>1. Within({}) = {}
    OBVIOUS
  <2>. QED  BY <2>1, SumEmpty
<1>2. ASSUME NEW T \in SUBSET N, NEW n \in N \ T, T \in Good
      PROVE  T \cup {n} \in Good
  <2>1. IsFiniteSet(T) /\ T \cup {n} \subseteq N
    BY FS_Subset
  <2>2. SumOver(T \cup {n}, h) = SumOver(T, h) + h[n]
    BY <1>0, SumStep
  <2>3. Within(T \cup {n}) = Within(T) \cup In(n) /\ Within(T) \cap In(n) = {}
    BY <2>1
  <2>4. Within(T) \subseteq S /\ In(n) \subseteq S
    OBVIOUS
  <2>. HIDE DEF Within, In
  <2>5. /\ IsFiniteSet(Units(Within(T), a)) /\ IsFiniteSet(Units(In(n), a))
        /\ Cardinality(Units(Within(T), a)) \in Nat /\ Cardinality(Units(In(n), a)) \in Nat
    <3>1. /\ IsFiniteSet(Within(T)) /\ IsFiniteSet(In(n))
          /\ \A x \in Within(T) : a[x] \in Nat
          /\ \A x \in In(n) : a[x] \in Nat
      BY <2>4, FS_Subset
    <3>. QED  BY <3>1, SumType, FS_CardinalityType
  <2>6. /\ Units(Within(T) \cup In(n), a) = Units(Within(T), a) \cup Units(In(n), a)
        /\ Units(Within(T), a) \cap Units(In(n), a) = {}
    BY <2>3 DEF Units
  <2>7. Cardinality(Units(Within(T), a) \cup Units(In(n), a)) =
            Cardinality(Units(Within(T), a)) + Cardinality(Units(In(n), a))
    <3>1. Cardinality(Units(Within(T), a) \cup Units(In(n), a)) =
            Cardinality(Units(Within(T), a)) + Cardinality(Units(In(n), a))
              - Cardinality(Units(Within(T), a) \cap Units(In(n), a))
      BY <2>5, FS_Union
    <3>2. Cardinality(Units(Within(T), a) \cap Units(In(n), a)) = 0
      BY <2>6, FS_EmptySet
    <3>. QED  BY <2>5, <3>1, <3>2
  <2>8. SumOver(Within(T \cup {n}), a) = SumOver(Within(T), a) + SumOver(In(n), a)
    BY <2>3, <2>6, <2>7 DEF SumOver
  <2>9. h[n] = SumOver(In(n), a)
    <3>1. content[n] = In(n)
      BY DEF In
    <3>. QED  BY <3>1
  <2>10. SumOver(T, h) = SumOver(Within(T), a)
    BY <1>2
  <2>. QED  BY <2>1, <2>2, <2>8, <2>9, <2>10
<1>. HIDE DEF Good
<1>3. N \in Good
  BY <1>1, <1>2, SubsetInduction
<1>4. Within(N) = S
  OBVIOUS
<1>. QED  BY <1>3, <1>4 DEF Good

--------------------------------------------------------------------------------
(* Policies *)

\* What may be free on a node.
FreeLevel == {r \in Resources : \A d \in Dim : r[d] <= Capacity[d]}

\* Finitely or infinitely many candidates scored by naturals have one with
\* the least score and, among those, the least id.
LEMMA LeastScore ==
    ASSUME NEW S, S \subseteq Nat, S # {}, NEW score, \A n \in S : score[n] \in Nat
    PROVE  \E n \in S : \A m \in S : score[n] <= score[m] /\ (m < n => score[n] < score[m])
<1>. DEFINE T == {score[n] : n \in S}
<1>1. PICK t \in T : \A u \in T : t <= u
  <2>1. T \subseteq Nat /\ T # {}
    OBVIOUS
  <2>. HIDE DEF T
  <2>. QED  BY <2>1, LeastNat
<1>. DEFINE B == {n \in S : score[n] = t}
<1>2. PICK n \in B : \A m \in B : n <= m
  <2>1. B \subseteq Nat /\ B # {}
    OBVIOUS
  <2>. HIDE DEF B
  <2>. QED  BY <2>1, LeastNat
<1>3. ASSUME NEW m \in S
      PROVE  score[n] <= score[m] /\ (m < n => score[n] < score[m])
  <2>1. score[n] = t /\ t <= score[m] /\ score[m] \in Nat /\ t \in Nat /\ m \in Nat /\ n \in Nat
    BY <1>1
  <2>2. score[m] = t => n <= m
    BY <1>2
  <2>. QED  BY <2>1, <2>2
<1>. QED  BY <1>3

--------------------------------------------------------------------------------
(* Dominant shares: cross multiplication by positive capacities compares   *)
(* them as one natural number each.                                        *)

\* The larger of the two shares, over the common denominator of a node.
Score(used) ==
    IF used["cores"] * Capacity["memory_mb"] < used["memory_mb"] * Capacity["cores"]
    THEN used["memory_mb"] * Capacity["cores"]
    ELSE used["cores"] * Capacity["memory_mb"]

\* A positive factor does not change an order.
LEMMA FactorOrder ==
    ASSUME NEW a \in Nat, NEW b \in Nat, NEW k \in Nat \ {0}
    PROVE  a * k < b * k <=> a < b
  OBVIOUS

\* Comparing dominant shares is comparing scores.
LEMMA ShareIsScore ==
    ASSUME NEW u \in Resources, NEW v \in Resources
    PROVE  /\ Score(u) \in Nat
           /\ ShareLess(DominantShare(u), DominantShare(v)) <=> Score(u) < Score(v)
<1>. DEFINE C == Capacity["cores"]
            M == Capacity["memory_mb"]
            uc == u["cores"]
            um == u["memory_mb"]
            vc == v["cores"]
            vm == v["memory_mb"]
<1>1. /\ C \in Nat \ {0} /\ M \in Nat \ {0}
      /\ uc \in Nat /\ um \in Nat /\ vc \in Nat /\ vm \in Nat
  BY NodesAssumption DEF Resources, Dim
<1>2. DominantShare(u) = IF uc * M < um * C THEN [used |-> um, capacity |-> M]
                                            ELSE [used |-> uc, capacity |-> C]
  BY DEF DominantShare, ShareLess
<1>3. DominantShare(v) = IF vc * M < vm * C THEN [used |-> vm, capacity |-> M]
                                            ELSE [used |-> vc, capacity |-> C]
  BY DEF DominantShare, ShareLess
<1>4. Score(u) = (IF uc * M < um * C THEN um * C ELSE uc * M)
      /\ Score(v) = (IF vc * M < vm * C THEN vm * C ELSE vc * M)
  BY DEF Score
<1>5. /\ um * M < vm * M <=> um * C < vm * C
      /\ uc * C < vc * C <=> uc * M < vc * M
  BY <1>1, FactorOrder
<1>6. /\ uc * M \in Nat /\ um * C \in Nat /\ vc * M \in Nat /\ vm * C \in Nat
  BY <1>1
<1>. HIDE DEF C, M, uc, um, vc, vm
<1>7. CASE uc * M < um * C /\ vc * M < vm * C
  BY <1>2, <1>3, <1>4, <1>5, <1>6, <1>7 DEF ShareLess
<1>8. CASE uc * M < um * C /\ ~ (vc * M < vm * C)
  BY <1>2, <1>3, <1>4, <1>5, <1>6, <1>8 DEF ShareLess
<1>9. CASE ~ (uc * M < um * C) /\ vc * M < vm * C
  BY <1>2, <1>3, <1>4, <1>5, <1>6, <1>9 DEF ShareLess
<1>10. CASE ~ (uc * M < um * C) /\ ~ (vc * M < vm * C)
  BY <1>2, <1>3, <1>4, <1>5, <1>6, <1>10 DEF ShareLess
<1>. QED  BY <1>7, <1>8, <1>9, <1>10

\* A score is at most that of a full node.
LEMMA ScoreBound ==
    ASSUME NEW u \in FreeLevel
    PROVE  Score(u) <= Capacity["cores"] * Capacity["memory_mb"]
<1>. DEFINE C == Capacity["cores"]
            M == Capacity["memory_mb"]
            uc == u["cores"]
            um == u["memory_mb"]
<1>1. /\ C \in Nat \ {0} /\ M \in Nat \ {0} /\ uc \in Nat /\ um \in Nat
      /\ uc <= C /\ um <= M
  BY NodesAssumption DEF FreeLevel, Resources, Dim
<1>2. ~ (C * M < uc * M) /\ ~ (M * C < um * C)
  BY <1>1, FactorOrder
<1>3. Score(u) = IF uc * M < um * C THEN um * C ELSE uc * M
  BY DEF Score
<1>4. C * M = M * C /\ C * M \in Nat /\ uc * M \in Nat /\ um * C \in Nat
  BY <1>1
<1>. HIDE DEF C, M, uc, um
<1>5. Score(u) <= C * M
  BY <1>2, <1>3, <1>4
<1>. QED  BY <1>5 DEF C, M

--------------------------------------------------------------------------------
(* Placement: a node that is returned has room, and one is returned when   *)
(* any has room.                                                           *)

\* The nodes with room are ids, and ids are naturals.
LEMMA FittingType ==
    ASSUME NEW request, NEW nodes
    PROVE  Fitting(request, nodes) \subseteq NodeId /\ Fitting(request, nodes) \subseteq Nat
  BY NodesAssumption DEF Fitting, NodeId

\* No policy places a job on a node without room for it.
LEMMA PlaceFits ==
    ASSUME NEW scheduler \in SchedulerNames, NEW request, NEW nodes, NEW pos
    PROVE  Place(scheduler, request, nodes, pos) \subseteq Fitting(request, nodes)
  BY DEF Place, SchedulerNames, FirstFit, RoundRobin, LeastLoaded, ResourceAware

LEMMA FirstFitExists ==
    ASSUME NEW request, NEW nodes, Fitting(request, nodes) # {}
    PROVE  FirstFit(request, nodes) # {}
<1>1. PICK n \in Fitting(request, nodes) : \A m \in Fitting(request, nodes) : n <= m
  BY FittingType, LeastNat
<1>. QED  BY <1>1 DEF FirstFit

LEMMA RoundRobinExists ==
    ASSUME NEW request, NEW nodes, NEW pos \in Nat, Fitting(request, nodes) # {}
    PROVE  RoundRobin(request, nodes, pos) # {}
<1>. DEFINE F == Fitting(request, nodes)
            score == [n \in F |-> ScanIndex(pos, n)]
<1>1. F \subseteq Nat /\ F \subseteq NodeId
  BY FittingType
<1>2. NodeCount \in Nat \ {0}
  BY <1>1, NodesAssumption DEF NodeId
<1>3. \A n \in F : ScanIndex(pos, n) \in Nat
  <2>1. \A n \in F : n + NodeCount - pos - 1 \in Int
    BY <1>1, <1>2
  <2>2. \A z \in Int : z % NodeCount \in Nat
    BY <1>2
  <2>. QED  BY <2>1, <2>2 DEF ScanIndex
<1>4. \A n \in F : score[n] \in Nat
  BY <1>3
<1>5. PICK n \in F : \A m \in F : score[n] <= score[m]
  <2>. HIDE DEF score, F
  <2>1. F # {}
    BY DEF F
  <2>. QED  BY <1>1, <1>4, <2>1, LeastScore
<1>6. n \in RoundRobin(request, nodes, pos)
  BY <1>5 DEF RoundRobin
<1>. QED  BY <1>6

LEMMA LeastLoadedExists ==
    ASSUME NEW request \in Resources, NEW nodes \in [NodeId -> FreeLevel],
           Fitting(request, nodes) # {}
    PROVE  LeastLoaded(request, nodes) # {}
<1>. DEFINE F == Fitting(request, nodes)
            used(n) == UsedWith(NoRequest, nodes[n])
            score == [n \in F |-> Score(used(n))]
<1>1. F \subseteq Nat /\ F \subseteq NodeId
  BY FittingType
<1>2. ASSUME NEW n \in F PROVE used(n) \in Resources
  <2>1. nodes[n] \in FreeLevel
    BY <1>1
  <2>2. \A d \in Dim : Capacity[d] - nodes[n][d] + 0 \in Nat
    BY <2>1, NodesAssumption DEF FreeLevel, Resources
  <2>. QED  BY <2>2 DEF UsedWith, Plus, Minus, NoRequest, Resources
<1>3. \A n \in F : score[n] \in Nat
  BY <1>2, ShareIsScore
<1>4. PICK n \in F : \A m \in F : score[n] <= score[m] /\ (m < n => score[n] < score[m])
  <2>. HIDE DEF score, F
  <2>1. F # {}
    BY DEF F
  <2>. QED  BY <1>1, <1>3, <2>1, LeastScore
<1>5. ASSUME NEW m \in F
      PROVE  /\ ~ ShareLess(DominantShare(used(m)), DominantShare(used(n)))
             /\ m < n => ShareLess(DominantShare(used(n)), DominantShare(used(m)))
  <2>1. /\ ShareLess(DominantShare(used(m)), DominantShare(used(n))) <=> score[m] < score[n]
        /\ ShareLess(DominantShare(used(n)), DominantShare(used(m))) <=> score[n] < score[m]
    <3>1. used(m) \in Resources /\ used(n) \in Resources
      BY <1>2
    <3>. QED  BY <3>1, ShareIsScore
  <2>2. score[n] \in Nat /\ score[m] \in Nat
    BY <1>3
  <2>. HIDE DEF score, used
  <2>. QED  BY <1>4, <2>1, <2>2
<1>6. n \in LeastLoaded(request, nodes)
  BY <1>5 DEF LeastLoaded
<1>. QED  BY <1>6

LEMMA ResourceAwareExists ==
    ASSUME NEW request \in Resources, NEW nodes \in [NodeId -> FreeLevel],
           Fitting(request, nodes) # {}
    PROVE  ResourceAware(request, nodes) # {}
<1>. DEFINE F == Fitting(request, nodes)
            used(n) == UsedWith(request, nodes[n])
            full == Capacity["cores"] * Capacity["memory_mb"]
            score == [n \in F |-> full - Score(used(n))]
<1>1. F \subseteq Nat /\ F \subseteq NodeId
  BY FittingType
<1>2. ASSUME NEW n \in F PROVE used(n) \in FreeLevel
  <2>1. nodes[n] \in FreeLevel /\ CanFit(nodes[n], request)
    BY <1>1 DEF Fitting
  <2>2. \A d \in Dim : /\ Capacity[d] - nodes[n][d] + request[d] \in Nat
                       /\ Capacity[d] - nodes[n][d] + request[d] <= Capacity[d]
    BY <2>1, NodesAssumption DEF FreeLevel, Resources, CanFit
  <2>. QED  BY <2>2 DEF UsedWith, Plus, Minus, Resources, FreeLevel
<1>3. full \in Nat
  BY NodesAssumption DEF Dim
<1>4. \A n \in F : Score(used(n)) \in Nat /\ Score(used(n)) <= full
  <2>1. \A n \in F : used(n) \in FreeLevel /\ used(n) \in Resources
    BY <1>2 DEF FreeLevel
  <2>. QED  BY <2>1, ShareIsScore, ScoreBound
<1>5. \A n \in F : score[n] = full - Score(used(n)) /\ score[n] \in Nat
  <2>. HIDE DEF full
  <2>. QED  BY <1>3, <1>4
<1>6. PICK n \in F : \A m \in F : score[n] <= score[m] /\ (m < n => score[n] < score[m])
  <2>. HIDE DEF score, F
  <2>1. F # {}
    BY DEF F
  <2>. QED  BY <1>1, <1>5, <2>1, LeastScore
<1>7. ASSUME NEW m \in F
      PROVE  /\ ~ ShareLess(DominantShare(used(n)), DominantShare(used(m)))
             /\ m < n => ShareLess(DominantShare(used(m)), DominantShare(used(n)))
  <2>1. /\ ShareLess(DominantShare(used(n)), DominantShare(used(m)))
             <=> Score(used(n)) < Score(used(m))
        /\ ShareLess(DominantShare(used(m)), DominantShare(used(n)))
             <=> Score(used(m)) < Score(used(n))
    <3>1. used(m) \in Resources /\ used(n) \in Resources
      BY <1>2 DEF FreeLevel
    <3>. QED  BY <3>1, ShareIsScore
  <2>2. /\ score[n] = full - Score(used(n)) /\ Score(used(n)) \in Nat
        /\ score[m] = full - Score(used(m)) /\ Score(used(m)) \in Nat
    BY <1>4, <1>5
  <2>. HIDE DEF score, used, full
  <2>. QED  BY <1>3, <1>6, <2>1, <2>2
<1>8. n \in ResourceAware(request, nodes)
  BY <1>7 DEF ResourceAware
<1>. QED  BY <1>8

\* The contract of Scheduler::place, for every policy: it returns a node with
\* room, and fails only when no node has room (scheduler_contract_test.cpp).
THEOREM PlacementContract ==
    ASSUME NEW scheduler \in SchedulerNames, NEW request \in Resources,
           NEW nodes \in [NodeId -> FreeLevel], NEW pos \in Nat
    PROVE  /\ Place(scheduler, request, nodes, pos) \subseteq Fitting(request, nodes)
           /\ Place(scheduler, request, nodes, pos) = {} <=> Fitting(request, nodes) = {}
<1>1. Place(scheduler, request, nodes, pos) \subseteq Fitting(request, nodes)
  BY PlaceFits
<1>2. ASSUME Fitting(request, nodes) # {}
      PROVE  Place(scheduler, request, nodes, pos) # {}
  <2>1. CASE scheduler = "first_fit"
    BY <1>2, <2>1, FirstFitExists DEF Place
  <2>2. CASE scheduler = "round_robin"
    BY <1>2, <2>2, RoundRobinExists DEF Place
  <2>3. CASE scheduler = "least_loaded"
    BY <1>2, <2>3, LeastLoadedExists DEF Place
  <2>4. CASE scheduler = "resource_aware"
    BY <1>2, <2>4, ResourceAwareExists DEF Place
  <2>. QED  BY <2>1, <2>2, <2>3, <2>4 DEF SchedulerNames
<1>. QED  BY <1>1, <1>2

--------------------------------------------------------------------------------
(* Placement: no policy leaves a choice.                                   *)

\* Division with remainder.
LEMMA Quotient ==
    ASSUME NEW a \in Int, NEW k \in Nat \ {0}
    PROVE  a = k * (a \div k) + (a % k) /\ a \div k \in Int /\ a % k \in Nat
  OBVIOUS

\* No multiple of k but 0 lies strictly between -k and k.
LEMMA SmallMultiple ==
    ASSUME NEW q \in Int, NEW k \in Nat \ {0}, k * q < k, 0 - k < k * q
    PROVE  q = 0
<1>1. CASE q >= 1
  <2>1. k * q >= k
    BY <1>1
  <2>. QED  BY <2>1
<1>2. CASE q <= -1
  <2>1. k * q <= -k
    BY <1>2
  <2>. QED  BY <2>1
<1>. QED  BY <1>1, <1>2

\* Numbers less than k apart with one remainder are one number.
LEMMA SameRemainder ==
    ASSUME NEW a \in Int, NEW b \in Int, NEW k \in Nat \ {0},
           a % k = b % k, a - b < k, b - a < k
    PROVE  a = b
<1>. DEFINE p == a \div k
            q == b \div k
            r == a % k
<1>1. a = k * p + r /\ b = k * q + r /\ p \in Int /\ q \in Int /\ r \in Int
  BY Quotient
<1>. HIDE DEF p, q, r
<1>2. a - b = k * (p - q)
  BY <1>1
<1>3. p - q = 0
  BY <1>1, <1>2, SmallMultiple
<1>. QED  BY <1>1, <1>2, <1>3

\* The cursor passes every node once.
LEMMA ScanIndexInjective ==
    ASSUME NEW pos \in Nat, NEW n \in NodeId, NEW m \in NodeId,
           ScanIndex(pos, n) = ScanIndex(pos, m)
    PROVE  n = m
<1>. DEFINE a == n + NodeCount - pos - 1
            b == m + NodeCount - pos - 1
<1>1. /\ NodeCount \in Nat \ {0} /\ n \in Nat /\ m \in Nat
      /\ a \in Int /\ b \in Int
      /\ a - b = n - m /\ n - m < NodeCount /\ m - n < NodeCount
  BY NodesAssumption DEF NodeId
<1>2. a % NodeCount = b % NodeCount
  BY DEF ScanIndex
<1>3. b - a < NodeCount /\ a - b < NodeCount
  BY <1>1
<1>. HIDE DEF a, b
<1>4. a = b
  BY <1>1, <1>2, <1>3, SameRemainder
<1>. QED  BY <1>1, <1>4

\* The optional of Scheduler::place holds at most one node, whichever policy
\* it comes from: the order of the scan never matters.
THEOREM PlacementUnique ==
    ASSUME NEW scheduler \in SchedulerNames, NEW request, NEW nodes, NEW pos \in Nat,
           NEW n \in Place(scheduler, request, nodes, pos),
           NEW m \in Place(scheduler, request, nodes, pos)
    PROVE  n = m
<1>0. /\ n \in NodeId /\ m \in NodeId /\ n \in Nat /\ m \in Nat
      /\ n \in Fitting(request, nodes) /\ m \in Fitting(request, nodes)
  BY PlaceFits, FittingType
<1>1. CASE scheduler = "first_fit"
  BY <1>0, <1>1 DEF Place, FirstFit
<1>2. CASE scheduler = "round_robin"
  <2>1. ScanIndex(pos, n) <= ScanIndex(pos, m) /\ ScanIndex(pos, m) <= ScanIndex(pos, n)
    BY <1>0, <1>2 DEF Place, RoundRobin
  <2>2. ScanIndex(pos, n) \in Nat /\ ScanIndex(pos, m) \in Nat
    <3>1. /\ NodeCount \in Nat \ {0}
          /\ n + NodeCount - pos - 1 \in Int /\ m + NodeCount - pos - 1 \in Int
      BY <1>0, NodesAssumption DEF NodeId
    <3>. QED  BY <3>1, Quotient DEF ScanIndex
  <2>3. ScanIndex(pos, n) = ScanIndex(pos, m)
    BY <2>1, <2>2
  <2>. QED  BY <1>0, <2>3, ScanIndexInjective
<1>3. CASE scheduler = "least_loaded"
  BY <1>0, <1>3 DEF Place, LeastLoaded
<1>4. CASE scheduler = "resource_aware"
  BY <1>0, <1>4 DEF Place, ResourceAware
<1>. QED  BY <1>1, <1>2, <1>3, <1>4 DEF SchedulerNames

--------------------------------------------------------------------------------

\* The contract of QueuePolicy::backfill, for both policies: what it returns
\* is a job behind the head that fits some node right now (queue_policy.hpp).
THEOREM BackfillContract ==
    ASSUME NEW policy \in QueuePolicyNames, NEW backlog, NEW nodes, NEW running, NEW now,
           NEW j \in BackfillPick(policy, backlog, nodes, running, now)
    PROVE  \E i \in 2 .. Len(backlog) :
               j = backlog[i].id /\ FitsAnywhere(backlog[i].request, nodes)
<1>1. j \in EasyBackfill(backlog, nodes, running, now)
  BY DEF BackfillPick, QueuePolicyNames
<1>. QED  BY <1>1 DEF EasyBackfill, Admissible

\* The optional of QueuePolicy::backfill holds at most one job: the first of
\* the backlog that is admissible.
THEOREM BackfillUnique ==
    ASSUME NEW policy \in QueuePolicyNames, NEW backlog, Len(backlog) \in Nat,
           NEW nodes, NEW running, NEW now,
           NEW j \in BackfillPick(policy, backlog, nodes, running, now),
           NEW k \in BackfillPick(policy, backlog, nodes, running, now)
    PROVE  j = k
<1>. DEFINE shadow == ShadowTime(backlog[1].request, nodes, running, now)
            Admitted(i) == Admissible(backlog[i], shadow, nodes, now)
<1>1. /\ j \in EasyBackfill(backlog, nodes, running, now)
      /\ k \in EasyBackfill(backlog, nodes, running, now)
  BY DEF BackfillPick, QueuePolicyNames
<1>2. PICK a \in 2 .. Len(backlog) :
        j = backlog[a].id /\ Admitted(a) /\ \A h \in 2 .. a - 1 : ~ Admitted(h)
  BY <1>1 DEF EasyBackfill
<1>3. PICK b \in 2 .. Len(backlog) :
        k = backlog[b].id /\ Admitted(b) /\ \A h \in 2 .. b - 1 : ~ Admitted(h)
  BY <1>1 DEF EasyBackfill
<1>. HIDE DEF Admitted
<1>4. a = b
  BY <1>2, <1>3
<1>. QED  BY <1>2, <1>3, <1>4

================================================================================
