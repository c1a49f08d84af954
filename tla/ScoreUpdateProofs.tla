------------------------- MODULE ScoreUpdateProofs -------------------------
(***************************************************************************)
(* POST /score/update for every finite set of requests, every calendar,    *)
(* and however often pipelines are sent again, requests are given up, the  *)
(* channel is lost and the process restarts.                               *)
(***************************************************************************)
EXTENDS ScoreUpdate, FiniteSetTheorems, WellFoundedInduction, TLAPS

-----------------------------------------------------------------------------
(* Sums.  A fold takes the elements in the order of CHOOSE; what a sum is  *)
(* must not depend on it.                                                  *)

\* A set of numbers that is not empty has a least one.
LEMMA Least ==
  ASSUME NEW S, S \subseteq Nat, S # {}
  PROVE  \E x \in S : \A y \in S : x <= y
<1>1. \E x \in S : \A y \in S : ~ (<<y, x>> \in OpToRel(<, Nat))
  BY WFMin, NatLessThanWellFounded, Zenon
<1>2. PICK x \in S : \A y \in S : ~ (<<y, x>> \in OpToRel(<, Nat))
  BY <1>1, Zenon
<1>3. \A y \in S : ~ (y < x)
  <2> TAKE y \in S
  <2> y \in Nat /\ x \in Nat
    OBVIOUS
  <2> QED BY <1>2, Zenon DEF OpToRel
<1> QED BY <1>3

\* The element of a set that a fold takes first.
First(S) == CHOOSE x \in S : TRUE

\* The function of the subsets of S that the sum over S is defined by.
Adds(f, S, sum) ==
  sum = [s \in SUBSET S |-> IF s = {} THEN 0 ELSE f[First(s)] + sum[s \ {First(s)}]]

\* What SumFunctionOnSet stands for.
LEMMA SumIs ==
  ASSUME NEW f, NEW S
  PROVE  SumFunctionOnSet(f, S) = (CHOOSE sum : Adds(f, S, sum))[S]
BY DEF SumFunctionOnSet, FoldFunctionOnSet, MapThenFoldSet, Adds, First

\* A set that is not empty holds the element that a fold takes first.
LEMMA FirstLemma ==
  ASSUME NEW S, S # {}
  PROVE  First(S) \in S
BY DEF First

\* Taking an element out of a finite set leaves one less.
LEMMA TakeOut ==
  ASSUME NEW S, IsFiniteSet(S), NEW x \in S
  PROVE  /\ IsFiniteSet(S \ {x})
         /\ Cardinality(S) \in Nat /\ Cardinality(S \ {x}) \in Nat
         /\ Cardinality(S) = Cardinality(S \ {x}) + 1
<1>1. IsFiniteSet(S \ {x}) /\ Cardinality(S \ {x}) = Cardinality(S) - 1
  BY FS_RemoveElement
<1>2. Cardinality(S) \in Nat /\ Cardinality(S \ {x}) \in Nat
  BY <1>1, FS_CardinalityType
<1> QED BY <1>1, <1>2

\* g obeys the equation of the sum up to sets of n elements.
Upto(f, S, n, g) ==
  \A s \in SUBSET S : Cardinality(s) <= n =>
    g[s] = IF s = {} THEN 0 ELSE f[First(s)] + g[s \ {First(s)}]

\* One step further.
LEMMA OneMore ==
  ASSUME NEW S, IsFiniteSet(S), NEW f, NEW g, NEW n \in Nat, n = 0 \/ Upto(f, S, n - 1, g)
  PROVE  Upto(f, S, n,
              [s \in SUBSET S |-> IF s = {} THEN 0 ELSE f[First(s)] + g[s \ {First(s)}]])
<1> DEFINE h == [s \in SUBSET S |-> IF s = {} THEN 0 ELSE f[First(s)] + g[s \ {First(s)}]]
<1> SUFFICES ASSUME NEW s \in SUBSET S, Cardinality(s) <= n
             PROVE  h[s] = IF s = {} THEN 0 ELSE f[First(s)] + h[s \ {First(s)}]
  BY DEF Upto
<1>1. CASE s = {}
  BY <1>1
<1>2. CASE s # {}
  <2> DEFINE t == s \ {First(s)}
  <2>1. First(s) \in s
    BY <1>2, FirstLemma
  <2>2. IsFiniteSet(s)
    BY FS_Subset
  <2>3. /\ IsFiniteSet(t) /\ Cardinality(s) \in Nat /\ Cardinality(t) \in Nat
        /\ Cardinality(s) = Cardinality(t) + 1
    BY <2>1, <2>2, TakeOut
  <2>4. n # 0 /\ Cardinality(t) <= n - 1
    BY <2>3
  <2>5. t \in SUBSET S
    OBVIOUS
  <2>6. g[t] = IF t = {} THEN 0 ELSE f[First(t)] + g[t \ {First(t)}]
    <3> HIDE DEF t
    <3> QED BY <2>4, <2>5 DEF Upto
  <2>7. h[t] = g[t]
    <3> HIDE DEF t
    <3> QED BY <2>5, <2>6
  <2> QED BY <1>2, <2>7
<1> QED BY <1>1, <1>2

\* For every n there is such a function.
LEMMA AllOfThem ==
  ASSUME NEW S, IsFiniteSet(S), NEW f
  PROVE  \A n \in Nat : \E g : Upto(f, S, n, g)
<1> DEFINE Wrong == {n \in Nat : ~ \E g : Upto(f, S, n, g)}
<1> SUFFICES ASSUME Wrong # {} PROVE FALSE
  OBVIOUS
<1>1. \E n \in Wrong : \A m \in Wrong : n <= m
  <2>1. Wrong \subseteq Nat
    OBVIOUS
  <2> HIDE DEF Wrong
  <2> QED BY <2>1, Least, Zenon
<1>2. PICK n \in Wrong : \A m \in Wrong : n <= m
  BY <1>1, Zenon
<1>3. n \in Nat
  OBVIOUS
<1>4. \E g : n = 0 \/ Upto(f, S, n - 1, g)
  <2>1. CASE n = 0
    BY <2>1
  <2>2. CASE n # 0
    <3>1. n - 1 \in Nat /\ ~ (n <= n - 1)
      BY <1>3, <2>2
    <3>2. n - 1 \notin Wrong
      BY <1>2, <3>1, Zenon
    <3> QED BY <3>1, <3>2
  <2> QED BY <2>1, <2>2
<1>5. PICK g : n = 0 \/ Upto(f, S, n - 1, g)
  BY <1>4, Zenon
<1>6. Upto(f, S, n,
           [s \in SUBSET S |-> IF s = {} THEN 0 ELSE f[First(s)] + g[s \ {First(s)}]])
  BY <1>3, <1>5, OneMore, Zenon
<1>7. \E h : Upto(f, S, n, h)
  BY <1>6, Zenon
<1> QED BY <1>7

\* A sum over a finite set is well defined.
LEMMA SumExists ==
  ASSUME NEW S, IsFiniteSet(S), NEW f
  PROVE  \E sum : Adds(f, S, sum)
<1>1. Cardinality(S) \in Nat
  BY FS_CardinalityType
<1>2. \E g : Upto(f, S, Cardinality(S), g)
  BY <1>1, AllOfThem, Zenon
<1>3. PICK g : Upto(f, S, Cardinality(S), g)
  BY <1>2, Zenon
<1>4. \A s \in SUBSET S : g[s] = IF s = {} THEN 0 ELSE f[First(s)] + g[s \ {First(s)}]
  <2> TAKE s \in SUBSET S
  <2>1. Cardinality(s) <= Cardinality(S)
    BY FS_Subset
  <2> QED BY <1>3, <2>1 DEF Upto
<1> DEFINE h == [s \in SUBSET S |-> g[s]]
<1>5. \A s \in SUBSET S : s \ {First(s)} \in SUBSET S
  OBVIOUS
<1>6. h = [s \in SUBSET S |-> IF s = {} THEN 0 ELSE f[First(s)] + h[s \ {First(s)}]]
  BY <1>4, <1>5
<1>7. Adds(f, S, h)
  <2> HIDE DEF h
  <2> QED BY <1>6 DEF Adds
<1> QED BY <1>7, Zenon

\* Among subsets of a finite set there is a smallest one.
LEMMA Smallest ==
  ASSUME NEW S, IsFiniteSet(S), NEW W, W \subseteq SUBSET S, W # {}
  PROVE  \E s \in W : \A t \in W : Cardinality(s) <= Cardinality(t)
<1> DEFINE N == {Cardinality(s) : s \in W}
<1>1. N \subseteq Nat
  <2> SUFFICES ASSUME NEW s \in W PROVE Cardinality(s) \in Nat
    OBVIOUS
  <2> IsFiniteSet(s)
    BY FS_Subset
  <2> QED BY FS_CardinalityType
<1>2. N # {}
  <2> PICK s \in W : TRUE
    OBVIOUS
  <2> Cardinality(s) \in N
    OBVIOUS
  <2> QED OBVIOUS
<1>3. \E n \in N : \A m \in N : n <= m
  <2> HIDE DEF N
  <2> QED BY <1>1, <1>2, Least, Zenon
<1>4. PICK s \in W : \A m \in N : Cardinality(s) <= m
  BY <1>3
<1>5. \A t \in W : Cardinality(t) \in N
  OBVIOUS
<1> QED
  <2> HIDE DEF N
  <2> QED BY <1>4, <1>5, Zenon

\* The sum depends on the numbers added, and on nothing else.
LEMMA SameSums ==
  ASSUME NEW S, IsFiniteSet(S), NEW T, T \subseteq S, NEW f, NEW h,
         NEW a, Adds(f, S, a), NEW b, Adds(h, T, b), \A x \in T : f[x] = h[x]
  PROVE  \A s \in SUBSET T : a[s] = b[s]
<1> DEFINE Wrong == {s \in SUBSET T : a[s] # b[s]}
<1> SUFFICES ASSUME Wrong # {} PROVE FALSE
  OBVIOUS
<1>1. \E s \in Wrong : \A t \in Wrong : Cardinality(s) <= Cardinality(t)
  <2>1. Wrong \subseteq SUBSET S
    OBVIOUS
  <2> HIDE DEF Wrong
  <2> QED BY <2>1, Smallest, Zenon
<1>2. PICK s \in Wrong : \A t \in Wrong : Cardinality(s) <= Cardinality(t)
  BY <1>1, Zenon
<1>3. s \in SUBSET T /\ s \in SUBSET S /\ a[s] # b[s]
  OBVIOUS
<1> DEFINE t == s \ {First(s)}
<1>4. t \in SUBSET T
  BY <1>3
<1> HIDE DEF Wrong, t
<1>5. a[s] = IF s = {} THEN 0 ELSE f[First(s)] + a[t]
  BY <1>3 DEF Adds, t
<1>6. b[s] = IF s = {} THEN 0 ELSE h[First(s)] + b[t]
  BY <1>3 DEF Adds, t
<1>7. s # {}
  BY <1>3, <1>5, <1>6
<1>8. First(s) \in s
  BY <1>7, FirstLemma
<1>9. f[First(s)] = h[First(s)]
  BY <1>3, <1>8
<1>10. a[t] # b[t]
  BY <1>3, <1>5, <1>6, <1>7, <1>9
<1>11. t \in Wrong
  BY <1>4, <1>10 DEF Wrong
<1>12. /\ Cardinality(s) \in Nat /\ Cardinality(t) \in Nat
       /\ Cardinality(s) = Cardinality(t) + 1
  <2> IsFiniteSet(s)
    BY <1>3, FS_Subset
  <2> QED BY <1>8, TakeOut DEF t
<1>13. Cardinality(s) <= Cardinality(t)
  BY <1>2, <1>11, Zenon
<1> QED BY <1>12, <1>13

\* The function a sum is taken from.
LEMMA SumOf ==
  ASSUME NEW S, IsFiniteSet(S), NEW f
  PROVE  \E a : Adds(f, S, a) /\ SumFunctionOnSet(f, S) = a[S]
<1> DEFINE c == CHOOSE sum : Adds(f, S, sum)
<1>1. Adds(f, S, c)
  BY SumExists, Zenon
<1>2. SumFunctionOnSet(f, S) = c[S]
  BY SumIs, Zenon
<1> QED BY <1>1, <1>2, Zenon

\* Functions that agree on S have the same sum over S.
LEMMA SumAgree ==
  ASSUME NEW S, IsFiniteSet(S), NEW f, NEW h, \A x \in S : f[x] = h[x]
  PROVE  SumFunctionOnSet(f, S) = SumFunctionOnSet(h, S)
<1>1. PICK a : Adds(f, S, a) /\ SumFunctionOnSet(f, S) = a[S]
  BY SumOf, Zenon
<1>2. PICK b : Adds(h, S, b) /\ SumFunctionOnSet(h, S) = b[S]
  BY SumOf, Zenon
<1>3. S \subseteq S /\ S \in SUBSET S
  OBVIOUS
<1>4. \A s \in SUBSET S : a[s] = b[s]
  BY <1>1, <1>2, <1>3, SameSums
<1>5. a[S] = b[S]
  BY <1>3, <1>4, Zenon
<1> QED BY <1>1, <1>2, <1>5

\* The sum over nothing is 0.
LEMMA SumOfNothing ==
  ASSUME NEW f
  PROVE  SumFunctionOnSet(f, {}) = 0
<1>1. IsFiniteSet({})
  BY FS_EmptySet
<1>2. \A S : S = {} => \E a : Adds(f, S, a) /\ SumFunctionOnSet(f, S) = a[S]
  BY <1>1, SumOf, Zenon
<1>3. PICK a : Adds(f, {}, a) /\ SumFunctionOnSet(f, {}) = a[{}]
  BY <1>2, Zenon
<1> QED BY <1>3 DEF Adds

\* The sum takes the first element, then the others.
LEMMA SumFirst ==
  ASSUME NEW S, IsFiniteSet(S), S # {}, NEW f
  PROVE  SumFunctionOnSet(f, S) = f[First(S)] + SumFunctionOnSet(f, S \ {First(S)})
<1> DEFINE T == S \ {First(S)}
<1>1. T \subseteq S /\ T \in SUBSET S /\ T \in SUBSET T /\ S \in SUBSET S
  OBVIOUS
<1>2. IsFiniteSet(T)
  BY FS_Subset
<1>3. PICK a : Adds(f, S, a) /\ SumFunctionOnSet(f, S) = a[S]
  BY SumOf, Zenon
<1>4. \E b : Adds(f, T, b) /\ SumFunctionOnSet(f, T) = b[T]
  <2> HIDE DEF T
  <2> QED BY <1>2, SumOf, Zenon
<1>5. PICK b : Adds(f, T, b) /\ SumFunctionOnSet(f, T) = b[T]
  BY <1>4, Zenon
<1>6. \A s \in SUBSET T : a[s] = b[s]
  <2> HIDE DEF T
  <2>1. \A x \in T : f[x] = f[x]
    OBVIOUS
  <2> QED BY <1>1, <1>3, <1>5, <2>1, SameSums
<1>7. a[S] = f[First(S)] + a[T]
  BY <1>1, <1>3 DEF Adds
<1>8. a[T] = b[T]
  BY <1>1, <1>6
<1> QED BY <1>3, <1>5, <1>7, <1>8

\* A sum of integers is one, and any element may be taken first.
LEMMA SumAny ==
  ASSUME NEW S, IsFiniteSet(S), NEW f, \A x \in S : f[x] \in Int
  PROVE  \A T \in SUBSET S :
           /\ SumFunctionOnSet(f, T) \in Int
           /\ \A x \in T : SumFunctionOnSet(f, T) = f[x] + SumFunctionOnSet(f, T \ {x})
<1> DEFINE Good(T) == /\ SumFunctionOnSet(f, T) \in Int
                      /\ \A x \in T : SumFunctionOnSet(f, T) = f[x] + SumFunctionOnSet(f, T \ {x})
<1> DEFINE Wrong == {T \in SUBSET S : ~ Good(T)}
<1> SUFFICES ASSUME Wrong # {} PROVE FALSE
  OBVIOUS
<1>1. \E s \in Wrong : \A t \in Wrong : Cardinality(s) <= Cardinality(t)
  <2>1. Wrong \subseteq SUBSET S
    OBVIOUS
  <2> HIDE DEF Wrong
  <2> QED BY <2>1, Smallest, Zenon
<1>2. PICK s \in Wrong : \A t \in Wrong : Cardinality(s) <= Cardinality(t)
  BY <1>1, Zenon
<1>3. s \in SUBSET S /\ ~ Good(s)
  BY Zenon
<1>4. IsFiniteSet(s) /\ \A x \in s : f[x] \in Int
  BY <1>3, FS_Subset
\* Smaller sets are no exception.
<1>5. ASSUME NEW x \in s
      PROVE  Good(s \ {x}) /\ IsFiniteSet(s \ {x})
  <2> DEFINE t == s \ {x}
  <2>1. t \in SUBSET S
    BY <1>3
  <2>2. /\ IsFiniteSet(t) /\ Cardinality(s) \in Nat /\ Cardinality(t) \in Nat
        /\ Cardinality(s) = Cardinality(t) + 1
    BY <1>4, TakeOut
  <2> HIDE DEF t, Good
  <2>3. ~ (Cardinality(s) <= Cardinality(t))
    BY <2>2
  <2>4. t \notin Wrong
    BY <1>2, <2>3, Zenon
  <2>5. Good(t)
    BY <2>1, <2>4
  <2> QED BY <2>2, <2>5 DEF t
<1>6. CASE s = {}
  <2>1. SumFunctionOnSet(f, {}) = 0
    BY SumOfNothing
  <2> QED BY <1>3, <1>6, <2>1
<1>7. CASE s # {}
  <2> DEFINE p == First(s)
  <2>1. p \in s
    BY <1>7, FirstLemma
  <2>2. SumFunctionOnSet(f, s) = f[p] + SumFunctionOnSet(f, s \ {p})
    BY <1>4, <1>7, SumFirst
  <2> HIDE DEF p
  <2>3. SumFunctionOnSet(f, s \ {p}) \in Int
    BY <1>5, <2>1
  <2>4. SumFunctionOnSet(f, s) \in Int
    BY <1>4, <2>1, <2>2, <2>3
  <2>5. ASSUME NEW x \in s
        PROVE  SumFunctionOnSet(f, s) = f[x] + SumFunctionOnSet(f, s \ {x})
    <3>1. CASE x = p
      BY <2>2, <3>1
    <3>2. CASE x # p
      <4>1. x \in s \ {p} /\ p \in s \ {x}
        BY <2>1, <3>2
      <4>2. SumFunctionOnSet(f, s \ {p}) = f[x] + SumFunctionOnSet(f, (s \ {p}) \ {x})
        BY <1>5, <2>1, <4>1
      <4>3. SumFunctionOnSet(f, s \ {x}) = f[p] + SumFunctionOnSet(f, (s \ {x}) \ {p})
        BY <1>5, <4>1
      <4>4. (s \ {p}) \ {x} = (s \ {x}) \ {p}
        OBVIOUS
      <4> DEFINE rest == SumFunctionOnSet(f, (s \ {p}) \ {x})
      <4>5. rest \in Int
        <5>1. Good((s \ {p}) \ {x})
          <6> DEFINE u == s \ {p}
          <6>1. Good(u)
            BY <1>5, <2>1
          <6>2. u \ {x} \in SUBSET S
            BY <1>3
          <6>3. IsFiniteSet(u) /\ IsFiniteSet(s)
            BY <1>4, <1>5, <2>1
          <6>4. /\ Cardinality(u) \in Nat /\ Cardinality(u \ {x}) \in Nat /\ Cardinality(s) \in Nat
                /\ Cardinality(u) = Cardinality(u \ {x}) + 1
            <7> x \in u
              BY <4>1
            <7> HIDE DEF u
            <7> QED BY <6>3, TakeOut, FS_CardinalityType
          <6>5. Cardinality(s) = Cardinality(u) + 1
            BY <1>4, <2>1, TakeOut
          <6> HIDE DEF u, Good
          <6>6. ~ (Cardinality(s) <= Cardinality(u \ {x}))
            BY <6>4, <6>5
          <6>7. u \ {x} \notin Wrong
            BY <1>2, <6>6, Zenon
          <6> QED BY <6>2, <6>7 DEF u
        <5> QED BY <5>1
      <4> HIDE DEF rest
      <4>6. SumFunctionOnSet(f, s \ {p}) = f[x] + rest /\ SumFunctionOnSet(f, s \ {x}) = f[p] + rest
        BY <4>2, <4>3, <4>4 DEF rest
      <4>7. f[x] \in Int /\ f[p] \in Int
        BY <1>4, <2>1
      <4> QED BY <2>2, <4>5, <4>6, <4>7
    <3> QED BY <3>1, <3>2
  <2> QED BY <1>3, <2>4, <2>5
<1> QED BY <1>6, <1>7

\* The sum of a function of integers over a finite set, one element taken out.
LEMMA SumTake ==
  ASSUME NEW S, IsFiniteSet(S), NEW f, \A x \in S : f[x] \in Int, NEW x \in S
  PROVE  /\ SumFunctionOnSet(f, S) \in Int /\ SumFunctionOnSet(f, S \ {x}) \in Int
         /\ SumFunctionOnSet(f, S) = f[x] + SumFunctionOnSet(f, S \ {x})
<1>1. S \in SUBSET S /\ S \ {x} \in SUBSET S
  OBVIOUS
<1> QED BY <1>1, SumAny

\* A sum of integers is an integer.
LEMMA SumInt ==
  ASSUME NEW S, IsFiniteSet(S), NEW f, \A x \in S : f[x] \in Int
  PROVE  SumFunctionOnSet(f, S) \in Int
<1>1. S \in SUBSET S
  OBVIOUS
<1> QED BY <1>1, SumAny

\* Changing one number changes the sum by the difference.
LEMMA SumChange ==
  ASSUME NEW S, IsFiniteSet(S), NEW f, NEW h, NEW x \in S,
         \A y \in S : f[y] \in Int /\ h[y] \in Int, \A y \in S \ {x} : h[y] = f[y]
  PROVE  SumFunctionOnSet(h, S) = SumFunctionOnSet(f, S) + (h[x] - f[x])
<1> DEFINE T == S \ {x}
<1>1. /\ SumFunctionOnSet(f, T) \in Int
      /\ SumFunctionOnSet(f, S) = f[x] + SumFunctionOnSet(f, T)
  BY SumTake
<1>2. SumFunctionOnSet(h, S) = h[x] + SumFunctionOnSet(h, T)
  BY SumTake
<1>3. SumFunctionOnSet(h, T) = SumFunctionOnSet(f, T)
  <2>1. IsFiniteSet(T)
    BY FS_Subset
  <2> QED BY <2>1, SumAgree
<1> HIDE DEF T
<1> QED BY <1>1, <1>2, <1>3

\* Zeros do not count.
LEMMA SumZeros ==
  ASSUME NEW S, IsFiniteSet(S), NEW f, \A x \in S : f[x] \in Int,
         NEW T \in SUBSET S, \A x \in S \ T : f[x] = 0
  PROVE  SumFunctionOnSet(f, S) = SumFunctionOnSet(f, T)
<1> DEFINE Wrong == {s \in SUBSET S : T \subseteq s /\ SumFunctionOnSet(f, s) # SumFunctionOnSet(f, T)}
<1> SUFFICES ASSUME Wrong # {} PROVE FALSE
  OBVIOUS
<1>1. \E s \in Wrong : \A t \in Wrong : Cardinality(s) <= Cardinality(t)
  <2>1. Wrong \subseteq SUBSET S
    OBVIOUS
  <2> HIDE DEF Wrong
  <2> QED BY <2>1, Smallest, Zenon
<1>2. PICK s \in Wrong : \A t \in Wrong : Cardinality(s) <= Cardinality(t)
  BY <1>1, Zenon
<1>3. s \in SUBSET S /\ T \subseteq s /\ SumFunctionOnSet(f, s) # SumFunctionOnSet(f, T)
  OBVIOUS
<1>4. IsFiniteSet(s)
  BY <1>3, FS_Subset
<1>5. PICK x \in s : x \notin T
  BY <1>3
<1> DEFINE t == s \ {x}
<1>6. t \in SUBSET S /\ T \subseteq t
  BY <1>3, <1>5
<1>7. /\ Cardinality(s) \in Nat /\ Cardinality(t) \in Nat
      /\ Cardinality(s) = Cardinality(t) + 1
  BY <1>4, <1>5, TakeOut
<1>8. SumFunctionOnSet(f, t) \in Int /\ SumFunctionOnSet(f, s) = f[x] + SumFunctionOnSet(f, t)
  BY <1>3, <1>4, <1>5, SumTake
<1>9. f[x] = 0
  BY <1>3, <1>5
<1> HIDE DEF t
<1>10. SumFunctionOnSet(f, t) # SumFunctionOnSet(f, T)
  BY <1>3, <1>8, <1>9
<1>11. t \in Wrong
  BY <1>6, <1>10
<1> HIDE DEF Wrong
<1>12. Cardinality(s) <= Cardinality(t)
  BY <1>2, <1>11, Zenon
<1> QED BY <1>7, <1>12

-----------------------------------------------------------------------------
(* The inductive invariant.                                                *)

\* What the requests share.
Shared ==
  /\ now \in 1 .. MaxNow
  /\ channel \in {"open", "lost"}
  /\ faults \in 0 .. MaxFaults
  /\ torn \in Nat
  /\ IsFiniteSet(pipes)
  /\ zset \in [Region \X Period \X User -> Int]
  /\ mirror \in [User \X Period -> Int]
  /\ applied \in [Req \X Period -> Nat]

\* A request has read the clock, and has pipelines and events, only once it is accepted.
ReqOK(r) ==
  /\ pc[r] \in {"new", "redis", "publish"} \cup Answers
  /\ step[r] \in 1 .. 3
  /\ try[r] \in 0 .. faults
  /\ IF pc[r] \in {"new", "rejected"} THEN at[r] = 0 /\ step[r] = 1 /\ try[r] = 0
                                      ELSE at[r] \in 1 .. now
  /\ pc[r] = "ok" => step[r] = 3
  /\ pc[r] = "redis" => \E p \in pipes : p.req = r /\ Latest(p)

Requests ==
  /\ pc = [r \in Req |-> pc[r]] /\ at = [r \in Req |-> at[r]]
  /\ step = [r \in Req |-> step[r]] /\ try = [r \in Req |-> try[r]]
  /\ \A r \in Req : ReqOK(r)

\* A pipeline is for the period its request was or is at, the latest of that period or an earlier.
PipeOK(p) ==
  /\ p = [req |-> p.req, period |-> PeriodAt(p.req, p.step), step |-> p.step, try |-> p.try,
          next |-> p.next]
  /\ p.req \in Req
  /\ pc[p.req] \notin {"new", "rejected"}
  /\ p.step \in 1 .. step[p.req]
  /\ p.try \in Nat
  /\ p.step = step[p.req] => p.try <= try[p.req]
  /\ p.next \in {"zset", "mirror", "done"}

\* No pipeline is in Redis twice.
Pipelines ==
  /\ \A p \in pipes : PipeOK(p)
  /\ \A p, q \in pipes : p.req = q.req /\ p.step = q.step /\ p.try = q.try => p = q

\* The request is done with its k-th period.
Done(r, k) == k < step[r] \/ pc[r] = "ok"

\* The events of a request are those of periods it is done with, in their order.
SentOK(r) ==
  /\ \A i \in DOMAIN sent[r] : \E k \in 1 .. 3 : sent[r][i].period = PeriodAt(r, k) /\ Done(r, k)
  /\ \A i, j \in DOMAIN sent[r] : \A k, l \in 1 .. 3 :
       i < j /\ sent[r][i].period = PeriodAt(r, k) /\ sent[r][j].period = PeriodAt(r, l) => k < l

Event == [period : Period, delta : Int, timestamp : 1 .. MaxNow]

Events ==
  /\ sent \in [Req -> Seq(Event)]
  /\ \A r \in Req : SentOK(r)

\* Without faults nothing is left behind, given up or left out.
Faultless ==
  faults = 0 =>
    /\ channel = "open"
    /\ \A p \in pipes : Latest(p)
    /\ \A r \in Req : /\ pc[r] \notin {"failed", "aborted"}
                      /\ \A k \in 1 .. 3 : Done(r, k) =>
                           \E i \in DOMAIN sent[r] : sent[r][i].period = PeriodAt(r, k)

\* ZINCRBY ran for the k-th period of the request, as far as can be told.
Scored(r, k) ==
  \/ Done(r, k)
  \/ k = step[r] /\ pc[r] = "publish"
  \/ \E p \in pipes : p.req = r /\ p.step = k /\ p.next # "zset"

\* What the requests have added to a leaderboard.
Tally(g, p, u) ==
  [r \in Req |-> IF RegionOf[r] = g /\ UserOf[r] = u THEN applied[<<r, p>>] * DeltaOf[r] ELSE 0]

\* The pipelines of a request for a period whose ZINCRBY is still to run.
Waiting(r, p) == {q \in pipes : q.req = r /\ q.period = p /\ q.next = "zset"}

\* The request has come as far as the period.
Reached(r, p) == pc[r] \notin {"new", "rejected"} /\ \E k \in 1 .. step[r] : PeriodAt(r, k) = p

\* The scores are what was added.
Tallied ==
  \A g \in Region, p \in Period, u \in User :
    zset[<<g, p, u>>] = SumFunctionOnSet(Tally(g, p, u), Req)

\* What can be told from the state was added.
Covered ==
  \A r \in Req : \A k \in 1 .. 3 : Scored(r, k) => applied[<<r, PeriodAt(r, k)>>] >= 1

\* Nothing is added too early, or more often than faults make up for.
Bounded ==
  \A r \in Req, p \in Period :
    /\ applied[<<r, p>>] # 0 => Reached(r, p)
    /\ applied[<<r, p>>] + Cardinality(Waiting(r, p)) <= faults + 1
    /\ faults = 0 /\ applied[<<r, p>>] # 0 => \E k \in 1 .. 3 : Scored(r, k) /\ PeriodAt(r, k) = p

Ledger == Tallied /\ Covered /\ Bounded

Types == Shared /\ Requests /\ Pipelines

Accounts == Types /\ Events /\ Faultless /\ Ledger

-----------------------------------------------------------------------------
(* Types.                                                                  *)

\* The three period types.
LEMMA ThreeTypes ==
  /\ Len(PeriodTypes) = 3 /\ DOMAIN PeriodTypes = 1 .. 3
  /\ PeriodTypes[1] = "daily" /\ PeriodTypes[2] = "weekly" /\ PeriodTypes[3] = "monthly"
  /\ \A k \in 1 .. 3 : PeriodTypes[k] \in DOMAIN Calendar
  /\ \A k, l \in 1 .. 3 : PeriodTypes[k] = PeriodTypes[l] => k = l
<1>1. /\ PeriodTypes[1] = "daily" /\ PeriodTypes[2] = "weekly" /\ PeriodTypes[3] = "monthly"
      /\ Len(PeriodTypes) = 3 /\ DOMAIN PeriodTypes = 1 .. 3
  BY DEF PeriodTypes
<1>2. \A k \in 1 .. 3 : k = 1 \/ k = 2 \/ k = 3
  OBVIOUS
<1>3. \A k \in 1 .. 3 : PeriodTypes[k] \in DOMAIN Calendar
  BY <1>1, <1>2, ConstantsAssumption
<1>4. \A k, l \in 1 .. 3 : PeriodTypes[k] = PeriodTypes[l] => k = l
  BY <1>1, <1>2
<1> QED BY <1>1, <1>3, <1>4

\* The bounds are numbers.
LEMMA Bounds == MaxNow \in Nat /\ MaxNow >= 1 /\ MaxFaults \in Nat
BY ConstantsAssumption

\* A request that a step leaves alone stays what it is.
LEMMA RequestKept ==
  ASSUME NEW r \in Req, ReqOK(r), Shared, Shared',
         pc'[r] = pc[r], at'[r] = at[r], step'[r] = step[r], try'[r] = try[r],
         faults' >= faults, now' >= now,
         \A p \in pipes : p.req = r /\ Latest(p) =>
           \E q \in pipes' : q.req = r /\ q.step = p.step /\ q.try = p.try
  PROVE  ReqOK(r)'
<1>1. faults \in Nat /\ faults' \in Nat /\ now \in Nat /\ now' \in Nat
  BY Bounds DEF Shared
<1>2. try'[r] \in 0 .. faults'
  BY <1>1 DEF ReqOK
<1>3. IF pc'[r] \in {"new", "rejected"} THEN at'[r] = 0 /\ step'[r] = 1 /\ try'[r] = 0
                                         ELSE at'[r] \in 1 .. now'
  <2>1. CASE pc[r] \in {"new", "rejected"}
    BY <2>1 DEF ReqOK
  <2>2. CASE pc[r] \notin {"new", "rejected"}
    <3>1. at[r] \in 1 .. now
      BY <2>2 DEF ReqOK
    <3>2. at'[r] \in 1 .. now'
      BY <1>1, <3>1
    <3> QED BY <2>2, <3>2
  <2> QED BY <2>1, <2>2
<1>4. ASSUME pc'[r] = "redis"
      PROVE  \E q \in pipes' : q.req = r /\ Latest(q)'
  <2>1. PICK p \in pipes : p.req = r /\ Latest(p)
    BY <1>4 DEF ReqOK
  <2>2. PICK q \in pipes' : q.req = r /\ q.step = p.step /\ q.try = p.try
    BY <2>1
  <2> QED BY <1>4, <2>1, <2>2 DEF Latest
<1> QED BY <1>2, <1>3, <1>4 DEF ReqOK

\* A pipeline stays one of its request, which only goes on from it.
LEMMA PipeKept ==
  ASSUME NEW p, PipeOK(p), at'[p.req] = at[p.req], pc'[p.req] \notin {"new", "rejected"},
         step[p.req] \in Nat, step'[p.req] \in Nat, try[p.req] \in Nat, try'[p.req] \in Nat,
         step'[p.req] >= step[p.req],
         step'[p.req] = step[p.req] => try'[p.req] >= try[p.req]
  PROVE  PipeOK(p)'
<1>1. PeriodAt(p.req, p.step)' = PeriodAt(p.req, p.step)
  BY DEF PeriodAt
<1>2. p.step \in 1 .. step'[p.req]
  BY DEF PipeOK
<1>3. p.step = step'[p.req] => p.try <= try'[p.req]
  BY DEF PipeOK
<1> QED BY <1>1, <1>2, <1>3 DEF PipeOK

\* A pipeline that goes out is one for the period of its request.
LEMMA NewPipe ==
  ASSUME NEW r \in Req, NEW k \in 1 .. 3, NEW n \in Nat, NEW t, at'[r] = t,
         pc'[r] \notin {"new", "rejected"}, step'[r] = k, try'[r] = n
  PROVE  PipeOK(Pipe(r, k, n, t))'
<1> DEFINE p == Pipe(r, k, n, t)
<1>1. p = [req |-> r, period |-> PeriodAt(r, k)', step |-> k, try |-> n, next |-> "zset"]
  BY DEF Pipe, PeriodAt
<1>2. p.req = r /\ p.period = PeriodAt(r, k)' /\ p.step = k /\ p.try = n /\ p.next = "zset"
  BY <1>1
<1> HIDE DEF p
<1>3. PipeOK(p)'
  BY <1>1, <1>2 DEF PipeOK
<1> QED BY <1>3 DEF p

\* The fields of a pipeline that goes out.
LEMMA PipeFields ==
  ASSUME NEW r, NEW k, NEW n, NEW t
  PROVE  /\ Pipe(r, k, n, t).req = r /\ Pipe(r, k, n, t).step = k
         /\ Pipe(r, k, n, t).try = n /\ Pipe(r, k, n, t).next = "zset"
BY DEF Pipe

\* The initial state.
LEMMA TypesInit ==
  ASSUME Init
  PROVE  Types
<1> USE DEF Init
<1>1. Shared
  BY Bounds, FS_EmptySet DEF Shared
<1>2. Requests
  BY Bounds DEF Requests, ReqOK
<1>3. Pipelines
  BY DEF Pipelines
<1> QED BY <1>1, <1>2, <1>3 DEF Types

\* Time passes, the channel is lost, or nothing happens.
LEMMA QuietTypes ==
  ASSUME Types, Tick \/ ChannelLost \/ UNCHANGED vars
  PROVE  Types'
<1>1. Shared'
  BY Bounds DEF Types, Shared, Tick, ChannelLost, vars
<1>2. faults' >= faults /\ now' >= now
  BY Bounds DEF Types, Shared, Tick, ChannelLost, vars
<1>3. UNCHANGED <<pc, at, step, try, pipes>>
  BY DEF Tick, ChannelLost, vars
<1>4. Requests'
  <2> SUFFICES ASSUME NEW r \in Req PROVE ReqOK(r)'
    BY <1>3 DEF Types, Requests
  <2> QED BY <1>1, <1>2, <1>3, RequestKept DEF Types, Requests
<1>5. Pipelines'
  BY <1>3 DEF Types, Pipelines, PipeOK, PeriodAt
<1> QED BY <1>1, <1>4, <1>5 DEF Types

\* A request is turned down.
LEMMA RejectTypes ==
  ASSUME Types, NEW r \in Req, Reject(r)
  PROVE  Types'
<1>1. Shared'
  BY DEF Types, Shared, Reject
<1>2. /\ pc[r] = "new" /\ pc' = [pc EXCEPT ![r] = "rejected"]
      /\ UNCHANGED <<now, at, step, try, pipes, faults>>
  BY DEF Reject
<1>3. Requests'
  <2>1. pc' = [q \in Req |-> pc'[q]]
    BY <1>2 DEF Types, Requests
  <2>2. ASSUME NEW q \in Req
        PROVE  ReqOK(q)'
    <3>1. CASE q = r
      <4>1. pc'[r] = "rejected"
        BY <1>2 DEF Types, Requests
      <4> QED BY <1>2, <3>1, <4>1 DEF Types, Requests, ReqOK, Answers
    <3>2. CASE q # r
      <4>1. pc'[q] = pc[q]
        BY <1>2, <3>2 DEF Types, Requests
      <4>2. faults' >= faults /\ now' >= now
        BY <1>2, Bounds DEF Types, Shared
      <4> QED BY <1>1, <1>2, <4>1, <4>2, RequestKept DEF Types, Requests
    <3> QED BY <3>1, <3>2
  <2> QED BY <1>2, <2>1, <2>2 DEF Types, Requests
<1>4. Pipelines'
  <2>1. ASSUME NEW p \in pipes
        PROVE  PipeOK(p)'
    <3>1. PipeOK(p) /\ p.req # r
      BY <1>2 DEF Types, Pipelines, PipeOK
    <3>2. pc'[p.req] = pc[p.req]
      BY <1>2, <3>1 DEF Types, Requests
    <3> QED BY <1>2, <3>1, <3>2 DEF PipeOK, PeriodAt
  <2> QED BY <1>2, <2>1 DEF Types, Pipelines
<1> QED BY <1>1, <1>3, <1>4 DEF Types

\* A step of the handler of r is judged by what it does to r.
LEMMA HandlerTypes ==
  ASSUME Types, Shared', NEW r \in Req, faults' >= faults, now' >= now,
         pc' = [q \in Req |-> pc'[q]], at' = [q \in Req |-> at'[q]],
         step' = [q \in Req |-> step'[q]], try' = [q \in Req |-> try'[q]],
         \A q \in Req \ {r} : /\ pc'[q] = pc[q] /\ at'[q] = at[q]
                              /\ step'[q] = step[q] /\ try'[q] = try[q],
         \A p \in pipes : p.req # r => p \in pipes',
         \A p \in pipes' : p.req # r => p \in pipes,
         ReqOK(r)',
         \A p \in pipes' : p.req = r => PipeOK(p)',
         \A p, q \in pipes' : p.req = r /\ q.req = r /\ p.step = q.step /\ p.try = q.try => p = q
  PROVE  Types'
<1>1. ASSUME NEW q \in Req
      PROVE  ReqOK(q)'
  <2>1. CASE q = r
    BY <2>1
  <2>2. CASE q # r
    <3>1. \A p \in pipes : p.req = q /\ Latest(p) =>
            \E x \in pipes' : x.req = q /\ x.step = p.step /\ x.try = p.try
      BY <2>2
    <3>2. ReqOK(q) /\ Shared
      BY DEF Types, Requests
    <3>3. pc'[q] = pc[q] /\ at'[q] = at[q] /\ step'[q] = step[q] /\ try'[q] = try[q]
      BY <2>2
    <3> QED BY <3>1, <3>2, <3>3, RequestKept
  <2> QED BY <2>1, <2>2
<1>2. ASSUME NEW p \in pipes'
      PROVE  PipeOK(p)'
  <2>1. CASE p.req # r
    <3>1. p \in pipes /\ PipeOK(p)
      BY <2>1 DEF Types, Pipelines
    <3>2. p.req \in Req \ {r}
      BY <2>1, <3>1 DEF PipeOK
    <3> QED BY <3>1, <3>2 DEF PipeOK, PeriodAt
  <2> QED BY <2>1
<1>3. ASSUME NEW p \in pipes', NEW q \in pipes', p.req = q.req, p.step = q.step, p.try = q.try
      PROVE  p = q
  <2>1. CASE p.req # r
    BY <1>3, <2>1 DEF Types, Pipelines
  <2> QED BY <1>3, <2>1
<1>4. Requests'
  BY <1>1 DEF Requests
<1>5. Pipelines'
  BY <1>2, <1>3 DEF Pipelines
<1> QED BY <1>4, <1>5 DEF Types

\* A request is accepted.
LEMMA AcceptTypes ==
  ASSUME Types, NEW r \in Req, Accept(r)
  PROVE  Types'
<1>0. PICK new : new = Pipe(r, 1, 0, now)
  OBVIOUS
<1>1. /\ pc[r] = "new" /\ pc' = [pc EXCEPT ![r] = "redis"] /\ at' = [at EXCEPT ![r] = now]
      /\ pipes' = pipes \cup {new}
      /\ UNCHANGED <<now, step, try, zset, mirror, channel, applied, torn, faults>>
  BY <1>0 DEF Accept
<1>2. new.req = r /\ new.step = 1 /\ new.try = 0
  BY <1>0, PipeFields
<1>3. Shared'
  BY <1>1, FS_AddElement DEF Types, Shared
<1>4. now \in 1 .. MaxNow /\ now \in Nat /\ faults \in Nat /\ faults' >= faults /\ now' >= now
  BY <1>1, Bounds DEF Types, Shared
<1>5. /\ pc'[r] = "redis" /\ at'[r] = now /\ step'[r] = step[r] /\ try'[r] = try[r]
      /\ \A q \in Req \ {r} : /\ pc'[q] = pc[q] /\ at'[q] = at[q]
                              /\ step'[q] = step[q] /\ try'[q] = try[q]
      /\ pc' = [q \in Req |-> pc'[q]] /\ at' = [q \in Req |-> at'[q]]
      /\ step' = [q \in Req |-> step'[q]] /\ try' = [q \in Req |-> try'[q]]
  BY <1>1 DEF Types, Requests
<1>6. step[r] = 1 /\ try[r] = 0
  BY <1>1 DEF Types, Requests, ReqOK
<1>7. \A p \in pipes : p.req # r
  BY <1>1 DEF Types, Pipelines, PipeOK
<1>8. ReqOK(r)'
  <2>1. new \in pipes' /\ new.req = r /\ Latest(new)'
    BY <1>1, <1>2, <1>5, <1>6 DEF Latest
  <2>2. at'[r] \in 1 .. now'
    BY <1>1, <1>4, <1>5
  <2>3. try'[r] \in 0 .. faults' /\ step'[r] \in 1 .. 3
    BY <1>1, <1>4, <1>6
  <2> QED BY <1>5, <2>1, <2>2, <2>3 DEF ReqOK
<1>9. PipeOK(new)'
  BY <1>0, <1>4, <1>5, <1>6, NewPipe
<1>10. \A p \in pipes' : p.req = r => p = new
  BY <1>1, <1>7
<1>11. \A p \in pipes : p \in pipes'
  BY <1>1
<1>12. \A p \in pipes' : p.req # r => p \in pipes
  BY <1>1, <1>2
<1>13. \A p \in pipes' : p.req = r => PipeOK(p)'
  BY <1>9, <1>10
<1> QED BY <1>3, <1>4, <1>5, <1>8, <1>10, <1>11, <1>12, <1>13, HandlerTypes

\* The handler has its reply.
LEMMA RepliedTypes ==
  ASSUME Types, NEW r \in Req, Replied(r)
  PROVE  Types'
<1>1. PICK p \in pipes : p.req = r /\ Latest(p) /\ p.next = "done" /\ pipes' = pipes \ {p}
  BY DEF Replied
<1>2. /\ pc[r] = "redis" /\ pc' = [pc EXCEPT ![r] = "publish"]
      /\ UNCHANGED <<now, at, step, try, zset, mirror, channel, applied, torn, faults>>
  BY <1>1 DEF Replied, Latest
<1>3. Shared'
  BY <1>1, <1>2, FS_RemoveElement DEF Types, Shared
<1>4. faults' >= faults /\ now' >= now
  BY <1>2, Bounds DEF Types, Shared
<1>5. /\ pc'[r] = "publish" /\ at'[r] = at[r] /\ step'[r] = step[r] /\ try'[r] = try[r]
      /\ \A q \in Req \ {r} : /\ pc'[q] = pc[q] /\ at'[q] = at[q]
                              /\ step'[q] = step[q] /\ try'[q] = try[q]
      /\ pc' = [q \in Req |-> pc'[q]] /\ at' = [q \in Req |-> at'[q]]
      /\ step' = [q \in Req |-> step'[q]] /\ try' = [q \in Req |-> try'[q]]
  BY <1>2 DEF Types, Requests
<1>6. ReqOK(r)'
  BY <1>2, <1>5 DEF Types, Requests, ReqOK
<1>7. \A q \in pipes' : q \in pipes
  BY <1>1
<1>8. \A q \in pipes' : q.req = r => PipeOK(q)'
  BY <1>2, <1>5, <1>7 DEF Types, Pipelines, PipeOK, PeriodAt
<1>9. \A q \in pipes : q.req # r => q \in pipes'
  BY <1>1
<1>10. \A x, y \in pipes' : x.req = r /\ y.req = r /\ x.step = y.step /\ x.try = y.try => x = y
  BY <1>7 DEF Types, Pipelines
<1> QED BY <1>3, <1>4, <1>5, <1>6, <1>7, <1>8, <1>9, <1>10, HandlerTypes

\* The handler gives up.
LEMMA GiveUpTypes ==
  ASSUME Types, NEW r \in Req, GiveUp(r)
  PROVE  Types'
<1>1. /\ pc[r] = "redis" /\ pc' = [pc EXCEPT ![r] = "failed"]
      /\ faults < MaxFaults /\ faults' = faults + 1
      /\ UNCHANGED <<now, at, step, try, pipes, zset, mirror, channel, applied, torn>>
  BY DEF GiveUp
<1>2. Shared' /\ faults' >= faults /\ now' >= now
  BY <1>1, Bounds DEF Types, Shared
<1>3. /\ pc'[r] = "failed" /\ at'[r] = at[r] /\ step'[r] = step[r] /\ try'[r] = try[r]
      /\ \A q \in Req \ {r} : /\ pc'[q] = pc[q] /\ at'[q] = at[q]
                              /\ step'[q] = step[q] /\ try'[q] = try[q]
      /\ pc' = [q \in Req |-> pc'[q]] /\ at' = [q \in Req |-> at'[q]]
      /\ step' = [q \in Req |-> step'[q]] /\ try' = [q \in Req |-> try'[q]]
  BY <1>1 DEF Types, Requests
<1>4. try'[r] \in 0 .. faults'
  BY <1>1, <1>2, <1>3, Bounds DEF Types, Shared, Requests, ReqOK
<1>5. ReqOK(r)'
  BY <1>1, <1>3, <1>4 DEF Types, Requests, ReqOK, Answers
<1>6. \A q \in pipes' : q.req = r => PipeOK(q)'
  BY <1>1, <1>3 DEF Types, Pipelines, PipeOK, PeriodAt
<1>7. \A x, y \in pipes' : x.req = r /\ y.req = r /\ x.step = y.step /\ x.try = y.try => x = y
  BY <1>1 DEF Types, Pipelines
<1>8. pipes' = pipes
  BY <1>1
<1> QED BY <1>2, <1>3, <1>5, <1>6, <1>7, <1>8, HandlerTypes

\* The pipeline is sent again.
LEMMA ResendTypes ==
  ASSUME Types, NEW r \in Req, Resend(r)
  PROVE  Types'
<1>0. PICK new : new = Pipe(r, step[r], try[r] + 1, at[r])
  OBVIOUS
<1>1. /\ pc[r] = "redis" /\ try' = [try EXCEPT ![r] = @ + 1] /\ pipes' = pipes \cup {new}
      /\ faults < MaxFaults /\ faults' = faults + 1
      /\ UNCHANGED <<now, pc, at, step, zset, mirror, channel, applied, torn>>
  BY <1>0 DEF Resend
<1>2. new.req = r /\ new.step = step[r] /\ new.try = try[r] + 1
  BY <1>0, PipeFields
<1>3. Shared' /\ faults' >= faults /\ now' >= now
  <2>1. IsFiniteSet(pipes')
    BY <1>1, FS_AddElement DEF Types, Shared
  <2>2. faults \in Nat /\ faults' \in 0 .. MaxFaults /\ faults' >= faults
    BY <1>1, Bounds DEF Types, Shared
  <2>3. now \in 1 .. MaxNow /\ now' = now /\ now' >= now
    BY <1>1, Bounds DEF Types, Shared
  <2> QED BY <1>1, <2>1, <2>2, <2>3 DEF Types, Shared
<1>4. /\ pc'[r] = "redis" /\ at'[r] = at[r] /\ step'[r] = step[r] /\ try'[r] = try[r] + 1
      /\ \A q \in Req \ {r} : /\ pc'[q] = pc[q] /\ at'[q] = at[q]
                              /\ step'[q] = step[q] /\ try'[q] = try[q]
      /\ pc' = [q \in Req |-> pc'[q]] /\ at' = [q \in Req |-> at'[q]]
      /\ step' = [q \in Req |-> step'[q]] /\ try' = [q \in Req |-> try'[q]]
  BY <1>1 DEF Types, Requests
<1>5. try[r] \in 0 .. faults /\ step[r] \in 1 .. 3 /\ at[r] \in 1 .. now
  BY <1>1 DEF Types, Requests, ReqOK
<1>6. try[r] \in Nat /\ try[r] + 1 \in 0 .. faults'
  BY <1>1, <1>5, Bounds DEF Types, Shared
<1>7. ReqOK(r)'
  <2>1. new \in pipes' /\ new.req = r /\ Latest(new)'
    BY <1>1, <1>2, <1>4 DEF Latest
  <2> QED BY <1>1, <1>4, <1>5, <1>6, <2>1 DEF ReqOK
<1>8. PipeOK(new)'
  BY <1>0, <1>4, <1>5, <1>6, NewPipe
<1>9. ASSUME NEW p \in pipes, p.req = r
      PROVE  PipeOK(p)' /\ ~ (p.step = step[r] /\ p.try = try[r] + 1)
  <2>1. PipeOK(p)
    BY DEF Types, Pipelines
  <2>2. PipeOK(p)'
    BY <1>4, <1>5, <1>6, <1>9, <2>1, PipeKept
  <2>3. p.step = step[r] => p.try \in Nat /\ p.try <= try[r]
    BY <1>9, <2>1 DEF PipeOK
  <2> QED BY <1>6, <2>2, <2>3
<1>10. \A p \in pipes' : p.req = r => PipeOK(p)'
  BY <1>1, <1>8, <1>9
<1>11. \A x, y \in pipes' : x.req = r /\ y.req = r /\ x.step = y.step /\ x.try = y.try => x = y
  BY <1>1, <1>2, <1>9 DEF Types, Pipelines
<1>12. \A p \in pipes : p \in pipes'
  BY <1>1
<1>13. \A p \in pipes' : p.req # r => p \in pipes
  BY <1>1, <1>2
<1> QED BY <1>3, <1>4, <1>7, <1>10, <1>11, <1>12, <1>13, HandlerTypes

\* The event is published, and the next pipeline goes out.
LEMMA PublishNextTypes ==
  ASSUME Types, NEW r \in Req, PublishScoreEvent(r), step[r] < 3
  PROVE  Types'
<1>0. PICK new : new = Pipe(r, step[r] + 1, 0, at[r])
  OBVIOUS
<1>1. /\ pc[r] = "publish" /\ step' = [step EXCEPT ![r] = @ + 1] /\ try' = [try EXCEPT ![r] = 0]
      /\ pipes' = pipes \cup {new} /\ pc' = [pc EXCEPT ![r] = "redis"]
      /\ UNCHANGED <<now, at, zset, mirror, channel, applied, torn, faults>>
  BY <1>0, ThreeTypes DEF PublishScoreEvent
<1>2. new.req = r /\ new.step = step[r] + 1 /\ new.try = 0
  BY <1>0, PipeFields
<1>3. Shared' /\ faults \in Nat /\ faults' >= faults /\ now' >= now
  <2>1. IsFiniteSet(pipes')
    BY <1>1, FS_AddElement DEF Types, Shared
  <2>2. /\ faults \in 0 .. MaxFaults /\ faults \in Nat /\ faults' = faults /\ faults' >= faults
        /\ now \in 1 .. MaxNow /\ now' = now /\ now' >= now
    BY <1>1, Bounds DEF Types, Shared
  <2> QED BY <1>1, <2>1, <2>2 DEF Types, Shared
<1>4. /\ pc'[r] = "redis" /\ at'[r] = at[r] /\ step'[r] = step[r] + 1 /\ try'[r] = 0
      /\ \A q \in Req \ {r} : /\ pc'[q] = pc[q] /\ at'[q] = at[q]
                              /\ step'[q] = step[q] /\ try'[q] = try[q]
      /\ pc' = [q \in Req |-> pc'[q]] /\ at' = [q \in Req |-> at'[q]]
      /\ step' = [q \in Req |-> step'[q]] /\ try' = [q \in Req |-> try'[q]]
  BY <1>1 DEF Types, Requests
<1>5. try[r] \in 0 .. faults /\ step[r] \in 1 .. 3 /\ at[r] \in 1 .. now
  BY <1>1 DEF Types, Requests, ReqOK
<1>6. step[r] + 1 \in 1 .. 3 /\ step[r] + 1 > step[r]
  BY <1>5
<1>7. ReqOK(r)'
  <2>1. new \in pipes' /\ new.req = r /\ Latest(new)'
    BY <1>1, <1>2, <1>4 DEF Latest
  <2>2. try'[r] \in 0 .. faults'
    BY <1>1, <1>3, <1>4
  <2> QED BY <1>1, <1>4, <1>5, <1>6, <2>1, <2>2 DEF ReqOK
<1>8. PipeOK(new)'
  BY <1>0, <1>4, <1>6, NewPipe
<1>9. ASSUME NEW p \in pipes, p.req = r
      PROVE  PipeOK(p)' /\ p.step # step[r] + 1
  <2>1. PipeOK(p)
    BY DEF Types, Pipelines
  <2>2. PipeOK(p)'
    BY <1>3, <1>4, <1>5, <1>6, <1>9, <2>1, PipeKept
  <2>3. p.step \in 1 .. step[r]
    BY <1>9, <2>1 DEF PipeOK
  <2> QED BY <1>5, <2>2, <2>3
<1>10. \A p \in pipes' : p.req = r => PipeOK(p)'
  BY <1>1, <1>8, <1>9
<1>11. \A x, y \in pipes' : x.req = r /\ y.req = r /\ x.step = y.step /\ x.try = y.try => x = y
  BY <1>1, <1>2, <1>9 DEF Types, Pipelines
<1>12. \A p \in pipes : p \in pipes'
  BY <1>1
<1>13. \A p \in pipes' : p.req # r => p \in pipes
  BY <1>1, <1>2
<1> QED BY <1>3, <1>4, <1>7, <1>10, <1>11, <1>12, <1>13, HandlerTypes

\* The event is published, and the request is answered.
LEMMA PublishLastTypes ==
  ASSUME Types, NEW r \in Req, PublishScoreEvent(r), ~ (step[r] < 3)
  PROVE  Types'
<1>1. /\ pc[r] = "publish" /\ pc' = [pc EXCEPT ![r] = "ok"]
      /\ UNCHANGED <<now, at, step, try, pipes, zset, mirror, channel, applied, torn, faults>>
  BY ThreeTypes DEF PublishScoreEvent
<1>2. Shared' /\ faults' >= faults /\ now' >= now
  BY <1>1, Bounds DEF Types, Shared
<1>3. /\ pc'[r] = "ok" /\ at'[r] = at[r] /\ step'[r] = step[r] /\ try'[r] = try[r]
      /\ \A q \in Req \ {r} : /\ pc'[q] = pc[q] /\ at'[q] = at[q]
                              /\ step'[q] = step[q] /\ try'[q] = try[q]
      /\ pc' = [q \in Req |-> pc'[q]] /\ at' = [q \in Req |-> at'[q]]
      /\ step' = [q \in Req |-> step'[q]] /\ try' = [q \in Req |-> try'[q]]
  BY <1>1 DEF Types, Requests
<1>4. step[r] = 3
  BY DEF Types, Requests, ReqOK
<1>5. ReqOK(r)'
  BY <1>1, <1>3, <1>4 DEF Types, Requests, ReqOK, Answers
<1>6. \A q \in pipes' : q.req = r => PipeOK(q)'
  BY <1>1, <1>3 DEF Types, Pipelines, PipeOK, PeriodAt
<1>7. \A x, y \in pipes' : x.req = r /\ y.req = r /\ x.step = y.step /\ x.try = y.try => x = y
  BY <1>1 DEF Types, Pipelines
<1>8. pipes' = pipes
  BY <1>1
<1> QED BY <1>2, <1>3, <1>5, <1>6, <1>7, <1>8, HandlerTypes

\* A pipeline after its next command.
LEMMA Advance ==
  ASSUME NEW p, PipeOK(p), NEW x
  PROVE  /\ [p EXCEPT !.next = x] =
              [req |-> p.req, period |-> p.period, step |-> p.step, try |-> p.try, next |-> x]
         /\ [p EXCEPT !.next = x].req = p.req /\ [p EXCEPT !.next = x].step = p.step
         /\ [p EXCEPT !.next = x].try = p.try /\ [p EXCEPT !.next = x].next = x
         /\ [p EXCEPT !.next = x].period = p.period
<1>1. PICK y : y = [req |-> p.req, period |-> p.period, step |-> p.step, try |-> p.try,
                    next |-> p.next]
  OBVIOUS
<1>2. p = y
  BY <1>1 DEF PipeOK
<1>3. [y EXCEPT !.next = x] =
        [req |-> p.req, period |-> p.period, step |-> p.step, try |-> p.try, next |-> x]
  BY <1>1
<1> QED BY <1>2, <1>3

\* Redis runs a command of a pipeline: the pipeline is the same but for its next command.
LEMMA CommandTypes ==
  ASSUME Types, NEW p \in pipes, NEW x \in {"mirror", "done"},
         pipes' = (pipes \ {p}) \cup {[p EXCEPT !.next = x]},
         UNCHANGED <<now, pc, at, step, try, channel, torn, faults>>,
         zset' \in [Region \X Period \X User -> Int], mirror' \in [User \X Period -> Int],
         applied' \in [Req \X Period -> Nat]
  PROVE  Types'
<1>0. PICK new : new = [p EXCEPT !.next = x]
  OBVIOUS
<1>1. PipeOK(p)
  BY DEF Types, Pipelines
<1>2. /\ new = [req |-> p.req, period |-> p.period, step |-> p.step, try |-> p.try, next |-> x]
      /\ new.req = p.req /\ new.step = p.step /\ new.try = p.try /\ new.next = x
      /\ new.period = p.period
  BY <1>0, <1>1, Advance
<1>3. pipes' = (pipes \ {p}) \cup {new}
  BY <1>0
<1>4. IsFiniteSet(pipes')
  <2>1. IsFiniteSet(pipes \ {p})
    BY FS_RemoveElement DEF Types, Shared
  <2>2. IsFiniteSet((pipes \ {p}) \cup {new})
    BY ONLY <2>1, FS_AddElement
  <2> QED BY ONLY <1>3, <2>2
<1>5. Shared'
  BY <1>4 DEF Types, Shared
<1>6. ASSUME NEW r \in Req
      PROVE  ReqOK(r)'
  <2>1. ASSUME NEW q \in pipes, q.req = r, Latest(q)
        PROVE  \E y \in pipes' : y.req = r /\ y.step = q.step /\ y.try = q.try
    <3>1. CASE q = p
      BY <1>2, <1>3, <2>1, <3>1
    <3>2. CASE q # p
      BY <1>3, <2>1, <3>2
    <3> QED BY <3>1, <3>2
  <2>2. faults' >= faults /\ now' >= now /\ ReqOK(r) /\ Shared
    BY Bounds DEF Types, Shared, Requests
  <2> QED BY <1>5, <2>1, <2>2, RequestKept
<1>7. PipeOK(new)'
  BY <1>1, <1>2 DEF PipeOK, PeriodAt
<1>8. ASSUME NEW q \in pipes'
      PROVE  PipeOK(q)'
  <2>1. CASE q = new
    BY <1>7, <2>1
  <2>2. CASE q # new
    <3>1. PipeOK(q)
      BY <1>3, <2>2 DEF Types, Pipelines
    <3> QED BY <3>1 DEF PipeOK, PeriodAt
  <2> QED BY <2>1, <2>2
<1>9. \A q \in pipes \ {p} : ~ (q.req = p.req /\ q.step = p.step /\ q.try = p.try)
  BY DEF Types, Pipelines
<1>10. \A y, z \in pipes' : y.req = z.req /\ y.step = z.step /\ y.try = z.try => y = z
  BY <1>2, <1>3, <1>9 DEF Types, Pipelines
<1>11. Requests'
  BY <1>6 DEF Types, Requests
<1>12. Pipelines'
  BY <1>8, <1>10 DEF Pipelines
<1> QED BY <1>5, <1>11, <1>12 DEF Types

\* The body of a request.
LEMMA Body ==
  ASSUME NEW r \in Req
  PROVE  DeltaOf[r] \in Int /\ RegionOf[r] \in Region /\ UserOf[r] \in User
BY ConstantsAssumption DEF Region, User

\* ZINCRBY.
LEMMA ZIncrByTypes ==
  ASSUME Types, NEW p \in pipes, ZIncrBy(p)
  PROVE  Types'
<1>1. p.req \in Req
  BY DEF Types, Pipelines, PipeOK
<1>2. zset' \in [Region \X Period \X User -> Int]
  <2>1. PICK z : z = zset'
    OBVIOUS
  <2>2. PICK e : e = <<RegionOf[p.req], p.period, UserOf[p.req]>>
    OBVIOUS
  <2>3. PICK d : d = DeltaOf[p.req]
    OBVIOUS
  <2>4. z = [zset EXCEPT ![e] = @ + d]
    BY <2>1, <2>2, <2>3 DEF ZIncrBy
  <2>5. PICK S : S = Region \X Period \X User
    OBVIOUS
  <2>6. zset \in [S -> Int] /\ d \in Int
    BY <1>1, <2>3, <2>5, Body DEF Types, Shared
  <2>7. z = [x \in S |-> IF x = e THEN zset[x] + d ELSE zset[x]]
    BY <2>4, <2>6
  <2>8. z \in [S -> Int]
    BY <2>6, <2>7
  <2> QED BY <2>1, <2>5, <2>8
<1>3. mirror' \in [User \X Period -> Int]
  BY DEF Types, Shared, ZIncrBy
<1>4. applied' \in [Req \X Period -> Nat]
  <2>1. PICK z : z = applied'
    OBVIOUS
  <2>2. PICK e : e = <<p.req, p.period>>
    OBVIOUS
  <2>3. z = [applied EXCEPT ![e] = @ + 1]
    BY <2>1, <2>2 DEF ZIncrBy
  <2>4. PICK S : S = Req \X Period
    OBVIOUS
  <2>5. applied \in [S -> Nat]
    BY <2>4 DEF Types, Shared
  <2>6. z = [x \in S |-> IF x = e THEN applied[x] + 1 ELSE applied[x]]
    BY <2>3, <2>5
  <2>7. z \in [S -> Nat]
    BY <2>5, <2>6
  <2> QED BY <2>1, <2>4, <2>7
<1> QED BY <1>2, <1>3, <1>4, CommandTypes DEF ZIncrBy

\* INCRBY.
LEMMA IncrByTypes ==
  ASSUME Types, NEW p \in pipes, IncrBy(p)
  PROVE  Types'
<1>1. p.req \in Req
  BY DEF Types, Pipelines, PipeOK
<1>2. mirror' \in [User \X Period -> Int]
  <2>1. PICK z : z = mirror'
    OBVIOUS
  <2>2. PICK e : e = <<UserOf[p.req], p.period>>
    OBVIOUS
  <2>3. PICK d : d = DeltaOf[p.req]
    OBVIOUS
  <2>4. z = [mirror EXCEPT ![e] = @ + d]
    BY <2>1, <2>2, <2>3 DEF IncrBy
  <2>5. PICK S : S = User \X Period
    OBVIOUS
  <2>6. mirror \in [S -> Int] /\ d \in Int
    BY <1>1, <2>3, <2>5, Body DEF Types, Shared
  <2>7. z = [x \in S |-> IF x = e THEN mirror[x] + d ELSE mirror[x]]
    BY <2>4, <2>6
  <2>8. z \in [S -> Int]
    BY <2>6, <2>7
  <2> QED BY <2>1, <2>5, <2>8
<1>3. /\ zset' \in [Region \X Period \X User -> Int]
      /\ applied' \in [Req \X Period -> Nat]
  BY DEF Types, Shared, IncrBy
<1> QED BY <1>2, <1>3, CommandTypes DEF IncrBy

\* A pipeline nobody waits for ends.
LEMMA AbandonedTypes ==
  ASSUME Types, NEW p \in pipes, Abandoned(p)
  PROVE  Types'
<1>1. /\ ~ Latest(p) /\ pipes' = pipes \ {p}
      /\ UNCHANGED <<now, pc, at, step, try, zset, mirror, channel, applied, faults>>
  BY DEF Abandoned
<1>2. torn' \in Nat
  BY DEF Types, Shared, Abandoned
<1>3. Shared'
  BY <1>1, <1>2, FS_RemoveElement DEF Types, Shared
<1>4. ASSUME NEW r \in Req
      PROVE  ReqOK(r)'
  <2>1. \A q \in pipes : q.req = r /\ Latest(q) =>
          \E y \in pipes' : y.req = r /\ y.step = q.step /\ y.try = q.try
    BY <1>1
  <2>2. faults' >= faults /\ now' >= now /\ ReqOK(r) /\ Shared
    BY <1>1, Bounds DEF Types, Shared, Requests
  <2> QED BY <1>1, <1>3, <2>1, <2>2, RequestKept
<1>5. Requests'
  BY <1>1, <1>4 DEF Types, Requests
<1>6. Pipelines'
  BY <1>1 DEF Types, Pipelines, PipeOK, PeriodAt
<1> QED BY <1>3, <1>5, <1>6 DEF Types

\* The process restarts.
LEMMA RestartTypes ==
  ASSUME Types, Restart
  PROVE  Types'
<1>1. /\ pc' = [r \in Req |-> IF pc[r] \in {"redis", "publish"} THEN "aborted" ELSE pc[r]]
      /\ faults < MaxFaults /\ faults' = faults + 1 /\ channel' = "open"
      /\ UNCHANGED <<now, at, step, try, pipes, zset, mirror, applied, torn>>
  BY DEF Restart
<1>2. Shared' /\ faults' >= faults
  BY <1>1, Bounds DEF Types, Shared
<1>3. ASSUME NEW r \in Req
      PROVE  ReqOK(r)'
  <2>1. ReqOK(r) /\ pc'[r] = IF pc[r] \in {"redis", "publish"} THEN "aborted" ELSE pc[r]
    BY <1>1 DEF Types, Requests
  <2>2. try'[r] \in 0 .. faults'
    BY <1>1, <1>2, <2>1, Bounds DEF Types, Shared, ReqOK
  <2>3. CASE pc[r] \in {"redis", "publish"}
    BY <1>1, <2>1, <2>2, <2>3 DEF ReqOK, Answers
  <2>4. CASE pc[r] \notin {"redis", "publish"}
    BY <1>1, <2>1, <2>2, <2>4 DEF ReqOK
  <2> QED BY <2>3, <2>4
<1>4. ASSUME NEW p \in pipes
      PROVE  PipeOK(p)'
  <2>1. PipeOK(p) /\ p.req \in Req
    BY DEF Types, Pipelines, PipeOK
  <2>2. pc'[p.req] \notin {"new", "rejected"}
    BY <1>1, <2>1 DEF PipeOK
  <2> QED BY <1>1, <2>1, <2>2 DEF PipeOK, PeriodAt
<1>5. Requests'
  BY <1>1, <1>3 DEF Types, Requests
<1>6. Pipelines'
  BY <1>1, <1>4 DEF Types, Pipelines
<1> QED BY <1>2, <1>5, <1>6 DEF Types

\* Every step.
LEMMA TypesStep ==
  ASSUME Types, [Next]_vars
  PROVE  Types'
<1>1. CASE Tick \/ ChannelLost \/ UNCHANGED vars
  BY <1>1, QuietTypes
<1>2. ASSUME NEW r \in Req, Reject(r) \/ Accept(r) \/ Replied(r) \/ Resend(r) \/ GiveUp(r)
      PROVE  Types'
  BY <1>2, RejectTypes, AcceptTypes, RepliedTypes, ResendTypes, GiveUpTypes
<1>3. ASSUME NEW r \in Req, PublishScoreEvent(r)
      PROVE  Types'
  BY <1>3, PublishNextTypes, PublishLastTypes
<1>4. ASSUME NEW p \in pipes, ZIncrBy(p) \/ IncrBy(p) \/ Abandoned(p)
      PROVE  Types'
  BY <1>4, ZIncrByTypes, IncrByTypes, AbandonedTypes
<1>5. CASE Restart
  BY <1>5, RestartTypes
<1> QED BY <1>1, <1>2, <1>3, <1>4, <1>5 DEF Next

\* Every state has the right types.
LEMMA TypesImply ==
  ASSUME Types
  PROVE  TypeOK
<1>1. \A r \in Req : /\ pc[r] \in {"new", "redis", "publish"} \cup Answers /\ step[r] \in 1 .. 3
                     /\ try[r] \in 0 .. faults /\ at[r] \in 0 .. now
                     /\ pc[r] = "redis" => \E p \in pipes : p.req = r /\ Latest(p)
  BY Bounds DEF Types, Shared, Requests, ReqOK
<1>2. faults \in 0 .. MaxFaults /\ now \in 1 .. MaxNow
  BY DEF Types, Shared
<1>3. \A r \in Req : try[r] \in 0 .. MaxFaults /\ at[r] \in 0 .. MaxNow
  BY <1>1, <1>2, Bounds
<1>4. /\ pc \in [Req -> {"new", "redis", "publish"} \cup Answers]
      /\ at \in [Req -> 0 .. MaxNow] /\ step \in [Req -> 1 .. 3] /\ try \in [Req -> 0 .. MaxFaults]
  BY <1>1, <1>3 DEF Types, Requests
<1>5. ASSUME NEW p \in pipes
      PROVE  /\ p.next \in {"zset", "mirror", "done"}
             /\ p.period = PeriodAt(p.req, p.step)
             /\ p.step <= step[p.req]
  <2>1. PICK x : x = PeriodAt(p.req, p.step)
    OBVIOUS
  <2>2. PipeOK(p)
    BY DEF Types, Pipelines
  <2>3. p.period = x
    BY <2>1, <2>2 DEF PipeOK
  <2>4. step[p.req] \in Nat
    BY <2>2 DEF Types, Requests, ReqOK, PipeOK
  <2> QED BY <2>1, <2>2, <2>3, <2>4 DEF PipeOK
<1> QED BY <1>1, <1>2, <1>4, <1>5, ThreeTypes DEF Types, Shared, TypeOK

(* Types, whatever the requests, the calendar and the number of faults:    *)
(* a pipeline in Redis is for a period its request is or was at, and a     *)
(* request that waits for Redis has its latest pipeline there.             *)
THEOREM TypeCorrect == Spec => []TypeOK
<1>1. Init => Types
  BY TypesInit
<1>2. Types /\ [Next]_vars => Types'
  BY TypesStep
<1>3. Types => TypeOK
  BY TypesImply
<1> QED BY <1>1, <1>2, <1>3, PTL DEF Spec

-----------------------------------------------------------------------------
(* The events of a request.                                                *)

\* The periods of a request are of three types.
LEMMA PeriodsDiffer ==
  ASSUME NEW r, NEW k \in 1 .. 3, NEW l \in 1 .. 3, PeriodAt(r, k) = PeriodAt(r, l)
  PROVE  k = l
<1>1. PeriodTypes[k] = PeriodTypes[l]
  BY DEF PeriodAt
<1> QED BY <1>1, ThreeTypes

\* A period of an instant is one of the calendar.
LEMMA PeriodIsOne ==
  ASSUME NEW r, at[r] \in 1 .. MaxNow, NEW k \in 1 .. 3
  PROVE  PeriodAt(r, k) \in Period
BY ThreeTypes DEF PeriodAt, Period

\* What a request other than a new one has read.
LEMMA Instant ==
  ASSUME Types, NEW r \in Req, pc[r] \notin {"new", "rejected"}
  PROVE  at[r] \in 1 .. MaxNow
<1>1. at[r] \in 1 .. now /\ now \in 1 .. MaxNow
  BY DEF Types, Shared, Requests, ReqOK
<1> QED BY <1>1, Bounds

\* A request that is not accepted has published nothing.
LEMMA NothingSent ==
  ASSUME Types, Events, NEW r \in Req, pc[r] = "new"
  PROVE  DOMAIN sent[r] = {}
<1> SUFFICES ASSUME NEW i \in DOMAIN sent[r] PROVE FALSE
  OBVIOUS
<1>1. PICK k \in 1 .. 3 : Done(r, k)
  BY DEF Events, SentOK
<1>2. step[r] = 1
  BY DEF Types, Requests, ReqOK
<1> QED BY <1>1, <1>2 DEF Done

\* No other step than the publishing touches what is sent or the steps of a request.
Untouched ==
  /\ sent' = sent /\ step' = step
  /\ \A r \in Req : /\ at'[r] = at[r] \/ pc[r] = "new"
                    /\ pc'[r] = "ok" <=> pc[r] = "ok"

\* So it is.
LEMMA NotPublishing ==
  ASSUME Types,
         \/ Tick \/ ChannelLost \/ Restart \/ UNCHANGED vars
         \/ \E r \in Req : Reject(r) \/ Accept(r) \/ Replied(r) \/ Resend(r) \/ GiveUp(r)
         \/ \E p \in pipes : ZIncrBy(p) \/ IncrBy(p) \/ Abandoned(p)
  PROVE  Untouched
<1> USE DEF Types, Requests
<1>1. CASE Tick \/ ChannelLost \/ UNCHANGED vars \/ \E p \in pipes : ZIncrBy(p) \/ IncrBy(p) \/ Abandoned(p)
  BY <1>1 DEF Tick, ChannelLost, vars, ZIncrBy, IncrBy, Abandoned, Untouched
<1>2. CASE Restart
  BY <1>2 DEF Restart, Untouched
<1>3. ASSUME NEW r \in Req, Reject(r) PROVE Untouched
  BY <1>3 DEF Reject, Untouched
<1>4. ASSUME NEW r \in Req, Accept(r) PROVE Untouched
  BY <1>4 DEF Accept, Untouched
<1>5. ASSUME NEW r \in Req, Replied(r) PROVE Untouched
  <2>1. pc[r] = "redis"
    BY <1>5 DEF Replied, Latest
  <2> QED BY <1>5, <2>1 DEF Replied, Untouched
<1>6. ASSUME NEW r \in Req, Resend(r) PROVE Untouched
  BY <1>6 DEF Resend, Untouched
<1>7. ASSUME NEW r \in Req, GiveUp(r) PROVE Untouched
  BY <1>7 DEF GiveUp, Untouched
<1> QED BY <1>1, <1>2, <1>3, <1>4, <1>5, <1>6, <1>7

\* What is done stays done.
LEMMA StillDone ==
  ASSUME Untouched, NEW r \in Req, NEW k
  PROVE  Done(r, k)' <=> Done(r, k)
BY DEF Untouched, Done

\* The events stay as they are.
LEMMA EventsKept ==
  ASSUME Types, Events, Untouched
  PROVE  Events'
<1> SUFFICES ASSUME NEW r \in Req PROVE SentOK(r)'
  BY DEF Events, Untouched
<1>1. SentOK(r) /\ sent'[r] = sent[r] /\ step'[r] = step[r]
  BY DEF Events, Untouched
<1>2. CASE pc[r] = "new"
  <2>1. DOMAIN sent'[r] = {}
    BY <1>1, <1>2, NothingSent
  <2> QED BY <2>1 DEF SentOK
<1>3. CASE pc[r] # "new"
  <2>1. at'[r] = at[r]
    BY <1>3 DEF Untouched
  <2>2. \A k : PeriodAt(r, k)' = PeriodAt(r, k) /\ (Done(r, k)' <=> Done(r, k))
    BY <2>1, StillDone DEF PeriodAt
  <2> QED BY <1>1, <2>2 DEF SentOK
<1> QED BY <1>2, <1>3

\* What publishing does to the request.
LEMMA Publishing ==
  ASSUME Types, NEW r \in Req, PublishScoreEvent(r)
  PROVE  /\ pc[r] = "publish" /\ pc' = [pc EXCEPT ![r] = pc'[r]] /\ at' = at
         /\ step' = [step EXCEPT ![r] = step'[r]] /\ step[r] \in 1 .. 3
         /\ \/ pc'[r] = "redis" /\ step[r] < 3 /\ step'[r] = step[r] + 1
            \/ pc'[r] = "ok" /\ step[r] = 3 /\ step'[r] = 3
         /\ \A k \in 1 .. 3 : Done(r, k) => k < step[r]
         /\ \A k \in 1 .. 3 : Done(r, k)' <=> k <= step[r]
         /\ \A q \in Req \ {r} : \A k \in 1 .. 3 : Done(q, k)' <=> Done(q, k)
<1>1. pc[r] = "publish" /\ at' = at
  BY DEF PublishScoreEvent
<1>2. step[r] \in 1 .. 3
  BY DEF Types, Requests, ReqOK
<1>3. \/ /\ step[r] < 3 /\ step' = [step EXCEPT ![r] = @ + 1] /\ pc' = [pc EXCEPT ![r] = "redis"]
      \/ ~ (step[r] < 3) /\ step' = step /\ pc' = [pc EXCEPT ![r] = "ok"]
  BY ThreeTypes DEF PublishScoreEvent
<1>4. /\ pc' = [pc EXCEPT ![r] = pc'[r]] /\ step' = [step EXCEPT ![r] = step'[r]]
      /\ \/ pc'[r] = "redis" /\ step[r] < 3 /\ step'[r] = step[r] + 1
         \/ pc'[r] = "ok" /\ step[r] = 3 /\ step'[r] = 3
  BY <1>2, <1>3 DEF Types, Requests
<1>5. \A k \in 1 .. 3 : Done(r, k) => k < step[r]
  BY <1>1 DEF Done
<1>6. \A k \in 1 .. 3 : Done(r, k)' <=> k <= step[r]
  BY <1>2, <1>4 DEF Done
<1>7. \A q \in Req \ {r} : pc'[q] = pc[q] /\ step'[q] = step[q]
  BY <1>4 DEF Types, Requests
<1>8. \A q \in Req \ {r} : \A k \in 1 .. 3 : Done(q, k)' <=> Done(q, k)
  BY <1>7 DEF Done
<1> QED BY <1>1, <1>2, <1>4, <1>5, <1>6, <1>8

\* The event that is published comes last, for the period the request is at.
LEMMA EventsPublish ==
  ASSUME Types, Events, NEW r \in Req, PublishScoreEvent(r)
  PROVE  Events'
<1>1. PICK e : e = [period |-> PeriodAt(r, step[r]), delta |-> DeltaOf[r], timestamp |-> at[r]]
  OBVIOUS
<1>2. e.period = PeriodAt(r, step[r]) /\ step[r] \in 1 .. 3 /\ at' = at
  BY <1>1, Publishing
<1>3. at[r] \in 1 .. MaxNow
  <2>1. pc[r] = "publish"
    BY Publishing
  <2> QED BY <2>1, Instant
<1>4. e \in Event
  <2>1. PeriodAt(r, step[r]) \in Period
    BY <1>2, <1>3, PeriodIsOne
  <2>2. DeltaOf[r] \in Int
    BY Body
  <2> QED BY <1>1, <1>3, <2>1, <2>2 DEF Event
<1>5. CASE sent' = sent
  <2>1. ASSUME NEW q \in Req, NEW k \in 1 .. 3
        PROVE  /\ PeriodAt(q, k)' = PeriodAt(q, k)
               /\ Done(q, k) => Done(q, k)'
    <3>1. PeriodAt(q, k)' = PeriodAt(q, k)
      BY <1>2 DEF PeriodAt
    <3> QED BY <3>1, Publishing
  <2>2. \A q \in Req : SentOK(q)'
    BY <1>5, <2>1 DEF Events, SentOK
  <2> QED BY <1>5, <2>2 DEF Events
<1>6. CASE sent' = [sent EXCEPT ![r] = Append(@, e)]
  <2>1. PICK s : s = sent[r]
    OBVIOUS
  <2>2. s \in Seq(Event) /\ sent'[r] = Append(s, e)
    BY <1>6, <2>1 DEF Events
  <2>3. \A q \in Req \ {r} : sent'[q] = sent[q]
    BY <1>6 DEF Events
  <2>4. sent' \in [Req -> Seq(Event)]
    <3>1. Append(s, e) \in Seq(Event)
      BY <1>4, <2>2
    <3> QED BY <1>6, <2>1, <3>1 DEF Events
  <2>5. ASSUME NEW q \in Req, q # r
        PROVE  SentOK(q)'
    <3>1. \A k \in 1 .. 3 : PeriodAt(q, k)' = PeriodAt(q, k) /\ (Done(q, k)' <=> Done(q, k))
      BY <1>2, <2>5, Publishing DEF PeriodAt
    <3>2. SentOK(q) /\ sent'[q] = sent[q]
      BY <2>3, <2>5 DEF Events
    <3> QED BY <3>1, <3>2 DEF SentOK
  <2>6. SentOK(r)'
    <3>1. PICK n \in Nat : n = Len(s)
      BY <2>2
    <3>2. /\ DOMAIN s = 1 .. n /\ DOMAIN sent'[r] = 1 .. n + 1
          /\ \A i \in 1 .. n : sent'[r][i] = s[i]
          /\ sent'[r][n + 1] = e
      BY <2>2, <3>1
    <3>3. \A k \in 1 .. 3 : PeriodAt(r, k)' = PeriodAt(r, k)
      BY <1>2 DEF PeriodAt
    <3>4. ASSUME NEW i \in 1 .. n
          PROVE  \E k \in 1 .. 3 : s[i].period = PeriodAt(r, k) /\ k < step[r]
      <4>1. PICK k \in 1 .. 3 : s[i].period = PeriodAt(r, k) /\ Done(r, k)
        BY <2>1, <3>2 DEF Events, SentOK
      <4> QED BY <4>1, Publishing
    <3>5. \A k \in 1 .. 3 : k <= step[r] => Done(r, k)'
      BY Publishing
    <3>6. ASSUME NEW i \in 1 .. n + 1
          PROVE  \E k \in 1 .. 3 : sent'[r][i].period = PeriodAt(r, k)' /\ Done(r, k)'
      <4>1. CASE i = n + 1
        BY <1>2, <3>2, <3>3, <3>5, <4>1
      <4>2. CASE i # n + 1
        <5>1. i \in 1 .. n
          BY <4>2
        <5>2. PICK k \in 1 .. 3 : s[i].period = PeriodAt(r, k) /\ k < step[r]
          BY <3>4, <5>1
        <5>3. Done(r, k)'
          BY <1>2, <3>5, <5>2
        <5> QED BY <3>2, <3>3, <5>1, <5>2, <5>3
      <4> QED BY <4>1, <4>2
    <3>7. ASSUME NEW i \in 1 .. n + 1, NEW j \in 1 .. n + 1, NEW k \in 1 .. 3, NEW l \in 1 .. 3,
                 i < j, sent'[r][i].period = PeriodAt(r, k), sent'[r][j].period = PeriodAt(r, l)
          PROVE  k < l
      <4>1. i \in 1 .. n /\ sent'[r][i] = s[i]
        BY <3>2, <3>7
      <4>2. CASE j \in 1 .. n
        <5>1. sent'[r][j] = s[j]
          BY <3>2, <4>2
        <5>2. s[i].period = PeriodAt(r, k) /\ s[j].period = PeriodAt(r, l)
          BY <3>7, <4>1, <5>1
        <5>3. i \in DOMAIN sent[r] /\ j \in DOMAIN sent[r] /\ SentOK(r)
          BY <2>1, <3>2, <4>1, <4>2 DEF Events
        <5> QED BY <2>1, <3>7, <5>2, <5>3 DEF SentOK
      <4>3. CASE j = n + 1
        <5>1. PeriodAt(r, step[r]) = PeriodAt(r, l)
          BY <1>2, <3>2, <3>7, <4>3
        <5>2. l = step[r]
          BY <1>2, <5>1, PeriodsDiffer
        <5>3. PICK m \in 1 .. 3 : s[i].period = PeriodAt(r, m) /\ m < step[r]
          BY <3>4, <4>1
        <5>4. PeriodAt(r, k) = PeriodAt(r, m)
          BY <3>7, <4>1, <5>3
        <5>5. k = m
          BY <5>4, PeriodsDiffer
        <5> QED BY <5>2, <5>3, <5>5
      <4> QED BY <4>2, <4>3
    <3>8. \A i \in DOMAIN sent'[r] : \E k \in 1 .. 3 :
            sent'[r][i].period = PeriodAt(r, k)' /\ Done(r, k)'
      BY <3>2, <3>6
    <3>9. \A i, j \in DOMAIN sent'[r] : \A k, l \in 1 .. 3 :
            i < j /\ sent'[r][i].period = PeriodAt(r, k)' /\ sent'[r][j].period = PeriodAt(r, l)'
              => k < l
      BY <3>2, <3>3, <3>7
    <3> QED BY <3>8, <3>9 DEF SentOK
  <2> QED BY <2>4, <2>5, <2>6 DEF Events
<1>7. sent' = sent \/ sent' = [sent EXCEPT ![r] = Append(@, e)]
  BY <1>1 DEF PublishScoreEvent
<1> QED BY <1>5, <1>6, <1>7

\* Every step is the publishing of an event, or leaves the events alone.
LEMMA Either ==
  ASSUME Types, [Next]_vars
  PROVE  Untouched \/ \E r \in Req : PublishScoreEvent(r)
<1>1. CASE UNCHANGED vars
  BY <1>1, NotPublishing
<1>2. CASE Next
  BY <1>2, NotPublishing DEF Next
<1> QED BY <1>1, <1>2

\* The events of a request are of its instant, in the order of PeriodTypes.
LEMMA EventsImply ==
  ASSUME Types, Events
  PROVE  OneInstant
<1> SUFFICES ASSUME NEW r \in Req
             PROVE  /\ \E t \in 1 .. MaxNow : \A i \in DOMAIN sent[r] :
                         sent[r][i].period[2] = PeriodKey(sent[r][i].period[1], t)
                    /\ \A i, j \in DOMAIN sent[r] : i < j =>
                         \E k, l \in DOMAIN PeriodTypes :
                           /\ k < l /\ sent[r][i].period[1] = PeriodTypes[k]
                           /\ sent[r][j].period[1] = PeriodTypes[l]
  BY DEF OneInstant
<1>1. \A i \in DOMAIN sent[r] : \E k \in 1 .. 3 : sent[r][i].period = PeriodAt(r, k) /\ Done(r, k)
  BY DEF Events, SentOK
<1>2. \A k \in 1 .. 3 : /\ PeriodAt(r, k)[1] = PeriodTypes[k]
                        /\ PeriodAt(r, k)[2] = PeriodKey(PeriodTypes[k], at[r])
  BY DEF PeriodAt
<1>3. ASSUME NEW i \in DOMAIN sent[r], NEW j \in DOMAIN sent[r], i < j
      PROVE  \E k, l \in DOMAIN PeriodTypes :
               /\ k < l /\ sent[r][i].period[1] = PeriodTypes[k]
               /\ sent[r][j].period[1] = PeriodTypes[l]
  <2>1. PICK k \in 1 .. 3 : sent[r][i].period = PeriodAt(r, k)
    BY <1>1
  <2>2. PICK l \in 1 .. 3 : sent[r][j].period = PeriodAt(r, l)
    BY <1>1
  <2>3. k < l
    BY <1>3, <2>1, <2>2 DEF Events, SentOK
  <2> QED BY <1>2, <2>1, <2>2, <2>3, ThreeTypes
<1>4. \A i \in DOMAIN sent[r] : sent[r][i].period[2] = PeriodKey(sent[r][i].period[1], at[r])
  BY <1>1, <1>2
<1>5. \E t \in 1 .. MaxNow : \A i \in DOMAIN sent[r] :
        sent[r][i].period[2] = PeriodKey(sent[r][i].period[1], t)
  <2>1. CASE at[r] \in 1 .. MaxNow
    BY <1>4, <2>1
  <2>2. CASE at[r] \notin 1 .. MaxNow
    <3>1. pc[r] \in {"new", "rejected"}
      BY <2>2, Instant
    <3>2. step[r] = 1 /\ pc[r] # "ok"
      BY <3>1 DEF Types, Requests, ReqOK
    <3>3. DOMAIN sent[r] = {}
      BY <1>1, <3>2 DEF Done
    <3>4. 1 \in 1 .. MaxNow
      BY Bounds
    <3> QED BY <3>3, <3>4
  <2> QED BY <2>1, <2>2
<1> QED BY <1>3, <1>5

(* The events of one request are for the periods of a single instant, each *)
(* at most once and in the order of PeriodTypes, for every calendar and    *)
(* wherever the day ends while the handler runs.                           *)
THEOREM EventsOfOneInstant == Spec => []OneInstant
<1>1. Init => Types /\ Events
  <2> SUFFICES ASSUME Init PROVE Types /\ Events
    OBVIOUS
  <2>1. Events
    BY DEF Init, Events, SentOK
  <2> QED BY <2>1, TypesInit
<1>2. (Types /\ Events) /\ [Next]_vars => (Types /\ Events)'
  <2> SUFFICES ASSUME Types, Events, [Next]_vars PROVE Types' /\ Events'
    OBVIOUS
  <2>1. Types'
    BY TypesStep
  <2>2. Events'
    BY Either, EventsKept, EventsPublish
  <2> QED BY <2>1, <2>2
<1>3. Types /\ Events => OneInstant
  BY EventsImply
<1> QED BY <1>1, <1>2, <1>3, PTL DEF Spec

-----------------------------------------------------------------------------
(* The mirror.                                                             *)

\* There are finitely many requests, and so regions.
LEMMA Finite == IsFiniteSet(Req) /\ IsFiniteSet(Region)
<1>1. IsFiniteSet(Req)
  BY ConstantsAssumption
<1>2. Region = {RegionOf[r] : r \in Req}
  BY DEF Region
<1>3. IsFiniteSet({RegionOf[r] : r \in Req})
  <2> DEFINE f == [r \in Req |-> RegionOf[r]]
  <2>1. f \in Surjection(Req, {RegionOf[r] : r \in Req})
    BY DEF Surjection
  <2> HIDE DEF f
  <2> QED BY <1>1, <2>1, FS_Surjection
<1> QED BY <1>1, <1>2, <1>3

\* SumDelta is the sum over all requests.
LEMMA SumDeltaIs ==
  ASSUME NEW n \in [Req -> Int], NEW w, w = [r \in Req |-> n[r] * DeltaOf[r]]
  PROVE  SumDelta(n) = SumFunctionOnSet(w, Req) /\ \A r \in Req : w[r] \in Int
<1> DEFINE counted == {r \in Req : n[r] # 0}
<1> DEFINE h == [r \in counted |-> n[r] * DeltaOf[r]]
<1>1. SumDelta(n) = SumFunctionOnSet(h, counted)
  BY DEF SumDelta, SumFunction
<1>2. \A r \in Req : w[r] \in Int /\ w[r] = n[r] * DeltaOf[r]
  BY Body
<1>3. \A r \in counted : h[r] = w[r]
  BY <1>2
<1>4. \A r \in Req \ counted : w[r] = 0
  BY <1>2, Body
<1>5. counted \in SUBSET Req /\ IsFiniteSet(Req) /\ IsFiniteSet(counted)
  BY Finite, FS_Subset
<1> HIDE DEF counted, h
<1>6. SumFunctionOnSet(h, counted) = SumFunctionOnSet(w, counted)
  BY <1>3, <1>5, SumAgree
<1>7. SumFunctionOnSet(w, Req) = SumFunctionOnSet(w, counted)
  BY <1>2, <1>4, <1>5, SumZeros
<1> QED BY <1>1, <1>2, <1>6, <1>7

\* The pipelines of a request for a period that are between their two commands.
Torn(r, p) == {q \in pipes : q.req = r /\ q.period = p /\ q.next = "mirror"}

\* How many there are of a user's requests.
Between(u, p) == [r \in Req |-> IF UserOf[r] = u THEN Cardinality(Torn(r, p)) ELSE 0]

\* What they will add to the mirror.
Owed(u, p) == [r \in Req |-> Between(u, p)[r] * DeltaOf[r]]

\* The regional scores of a user.
Totals(u, p) == [g \in Region |-> zset[<<g, p, u>>]]

\* Such sets are finite.
LEMMA TornFinite ==
  ASSUME Types, NEW r, NEW p
  PROVE  IsFiniteSet(Torn(r, p)) /\ Cardinality(Torn(r, p)) \in Nat
<1>1. Torn(r, p) \subseteq pipes /\ IsFiniteSet(pipes)
  BY DEF Torn, Types, Shared
<1>2. IsFiniteSet(Torn(r, p))
  BY <1>1, FS_Subset
<1> QED BY <1>2, FS_CardinalityType

\* These numbers are integers.
AllIntegral ==
  \A u \in User, p \in Period :
    /\ \A r \in Req : Between(u, p)[r] \in Int /\ Owed(u, p)[r] \in Int
    /\ \A g \in Region : Totals(u, p)[g] \in Int /\ Totals(u, p)[g] = zset[<<g, p, u>>]

\* In every state of the right types.
LEMMA Integral == Types => AllIntegral
<1> SUFFICES ASSUME Types, NEW u \in User, NEW p \in Period
             PROVE  /\ \A r \in Req : Between(u, p)[r] \in Int /\ Owed(u, p)[r] \in Int
                    /\ \A g \in Region : /\ Totals(u, p)[g] \in Int
                                         /\ Totals(u, p)[g] = zset[<<g, p, u>>]
  BY DEF AllIntegral
<1>1. ASSUME NEW r \in Req
      PROVE  Between(u, p)[r] \in Int /\ Owed(u, p)[r] \in Int
  <2>1. Between(u, p)[r] \in Int
    BY TornFinite DEF Between
  <2>2. Owed(u, p)[r] = Between(u, p)[r] * DeltaOf[r]
    BY DEF Owed
  <2> QED BY <2>1, <2>2, Body
<1>2. ASSUME NEW g \in Region
      PROVE  Totals(u, p)[g] \in Int /\ Totals(u, p)[g] = zset[<<g, p, u>>]
  <2>1. <<g, p, u>> \in Region \X Period \X User
    OBVIOUS
  <2> QED BY <2>1 DEF Totals, Types, Shared
<1> QED BY <1>1, <1>2

\* And so they are after a step.
LEMMA IntegralNext ==
  ASSUME Types', NEW u \in User, NEW p \in Period
  PROVE  /\ \A r \in Req : Between(u, p)'[r] \in Int /\ Owed(u, p)'[r] \in Int
         /\ \A g \in Region : Totals(u, p)'[g] \in Int /\ Totals(u, p)'[g] = zset'[<<g, p, u>>]
<1>1. (Types => AllIntegral)'
  BY Integral, PTL
<1> QED BY <1>1 DEF AllIntegral

\* The mirror and what will still be added to it are the regional scores together.
Balanced ==
  torn = 0 => \A u \in User, p \in Period :
    mirror[<<u, p>>] + SumFunctionOnSet(Owed(u, p), Req) = SumFunctionOnSet(Totals(u, p), Region)

\* MirrorAgrees in these terms.
LEMMA MirrorIs ==
  ASSUME Types
  PROVE  MirrorAgrees <=> Balanced
<1>1. MirrorAgrees <=>
        (torn = 0 => \A u \in User, p \in Period :
           mirror[<<u, p>>] + SumDelta(Between(u, p)) = RegionalTotal(u, p))
  BY DEF MirrorAgrees, Between, Torn
<1>2. ASSUME NEW u \in User, NEW p \in Period
      PROVE  /\ SumDelta(Between(u, p)) = SumFunctionOnSet(Owed(u, p), Req)
             /\ RegionalTotal(u, p) = SumFunctionOnSet(Totals(u, p), Region)
  <2>1. PICK n : n = Between(u, p)
    OBVIOUS
  <2>2. PICK w : w = Owed(u, p)
    OBVIOUS
  <2>3. n \in [Req -> Int]
    <3>1. n = [r \in Req |-> n[r]]
      BY <2>1 DEF Between
    <3>2. \A r \in Req : n[r] \in Int
      BY <2>1, Integral DEF AllIntegral
    <3> QED BY <3>1, <3>2
  <2>4. w = [r \in Req |-> n[r] * DeltaOf[r]]
    BY <2>1, <2>2 DEF Owed
  <2>5. SumDelta(n) = SumFunctionOnSet(w, Req)
    BY <2>3, <2>4, SumDeltaIs
  <2>6. PICK z : z = Totals(u, p)
    OBVIOUS
  <2>7. DOMAIN z = Region
    BY <2>6 DEF Totals
  <2>8. RegionalTotal(u, p) = SumFunctionOnSet(z, Region)
    BY <2>6, <2>7 DEF RegionalTotal, Totals, SumFunction
  <2> QED BY <2>1, <2>2, <2>5, <2>6, <2>8
<1> QED BY <1>1, <1>2 DEF Balanced

\* A step that leaves the scores, and the pipelines between their commands, alone.
LEMMA MirrorKept ==
  ASSUME Balanced, zset' = zset, mirror' = mirror, torn' = torn,
         {q \in pipes' : q.next = "mirror"} = {q \in pipes : q.next = "mirror"}
  PROVE  Balanced'
<1>1. \A r, p : Torn(r, p)' = Torn(r, p)
  BY DEF Torn
<1>2. \A u, p : Between(u, p)' = Between(u, p)
  BY <1>1 DEF Between
<1>3. \A u, p : Owed(u, p)' = Owed(u, p)
  BY <1>2 DEF Owed
<1>4. \A u, p : Totals(u, p)' = Totals(u, p)
  BY DEF Totals
<1> QED BY <1>3, <1>4 DEF Balanced

\* Those of the handlers.
LEMMA HandlerMirror ==
  ASSUME Types, Balanced,
         \/ Tick \/ ChannelLost \/ Restart \/ UNCHANGED vars
         \/ \E r \in Req : \/ Reject(r) \/ Accept(r) \/ Replied(r) \/ Resend(r) \/ GiveUp(r)
                           \/ PublishScoreEvent(r)
  PROVE  Balanced'
<1>1. CASE Tick \/ ChannelLost \/ Restart \/ UNCHANGED vars
  BY <1>1, MirrorKept DEF Tick, ChannelLost, Restart, vars
<1>2. ASSUME NEW r \in Req, Reject(r) \/ GiveUp(r)
      PROVE  Balanced'
  BY <1>2, MirrorKept DEF Reject, GiveUp
<1>3. ASSUME NEW r \in Req, Accept(r) \/ Resend(r) \/ PublishScoreEvent(r)
      PROVE  Balanced'
  <2>1. zset' = zset /\ mirror' = mirror /\ torn' = torn
    BY <1>3 DEF Accept, Resend, PublishScoreEvent
  <2>2. pipes' = pipes \/ \E new : pipes' = pipes \cup {new} /\ new.next = "zset"
    BY <1>3, PipeFields DEF Accept, Resend, PublishScoreEvent
  <2>3. {q \in pipes' : q.next = "mirror"} = {q \in pipes : q.next = "mirror"}
    BY <2>2
  <2> QED BY <2>1, <2>3, MirrorKept
<1>4. ASSUME NEW r \in Req, Replied(r)
      PROVE  Balanced'
  <2>1. PICK p \in pipes : p.next = "done" /\ pipes' = pipes \ {p}
    BY <1>4 DEF Replied
  <2>2. {q \in pipes' : q.next = "mirror"} = {q \in pipes : q.next = "mirror"}
    BY <2>1
  <2> QED BY <1>4, <2>2, MirrorKept DEF Replied
<1> QED BY <1>1, <1>2, <1>3, <1>4

\* A pipeline is abandoned: between its commands, and nothing is claimed any more.
LEMMA AbandonedMirror ==
  ASSUME Types, Balanced, NEW p \in pipes, Abandoned(p)
  PROVE  Balanced'
<1>1. CASE p.next = "mirror"
  <2>1. torn' # 0
    BY <1>1 DEF Abandoned, Types, Shared
  <2> QED BY <2>1 DEF Balanced
<1>2. CASE p.next # "mirror"
  <2>1. {q \in pipes' : q.next = "mirror"} = {q \in pipes : q.next = "mirror"}
    BY <1>2 DEF Abandoned
  <2> QED BY <1>2, <2>1, MirrorKept DEF Abandoned
<1> QED BY <1>1, <1>2

\* ZINCRBY leaves one more pipeline between its commands.
LEMMA ZIncrByTorn ==
  ASSUME Types, NEW p \in pipes, ZIncrBy(p)
  PROVE  /\ Cardinality(Torn(p.req, p.period))' = Cardinality(Torn(p.req, p.period)) + 1
         /\ \A r, q : r # p.req \/ q # p.period => Torn(r, q)' = Torn(r, q)
<1>1. PICK new : new = [p EXCEPT !.next = "mirror"]
  OBVIOUS
<1>2. PipeOK(p) /\ p.next = "zset" /\ pipes' = (pipes \ {p}) \cup {new}
  BY <1>1 DEF Types, Pipelines, ZIncrBy
<1>3. /\ new.req = p.req /\ new.period = p.period /\ new.next = "mirror"
      /\ new.step = p.step /\ new.try = p.try
  BY <1>1, <1>2, Advance
<1>4. \A r, q : r # p.req \/ q # p.period => Torn(r, q)' = Torn(r, q)
  BY <1>2, <1>3 DEF Torn
<1> DEFINE T == Torn(p.req, p.period)
<1>5. T' = T \cup {new}
  BY <1>2, <1>3 DEF Torn
<1>6. new \notin T
  <2> SUFFICES ASSUME new \in pipes PROVE FALSE
    BY DEF Torn
  <2>1. new = p
    BY <1>3 DEF Types, Pipelines
  <2> QED BY <1>2, <1>3, <2>1
<1>7. IsFiniteSet(T)
  BY TornFinite
<1> HIDE DEF T
<1>8. Cardinality(T \cup {new}) = Cardinality(T) + 1
  BY <1>6, <1>7, FS_AddElement
<1> QED BY <1>4, <1>5, <1>8 DEF T

\* INCRBY leaves one less.
LEMMA IncrByTorn ==
  ASSUME Types, NEW p \in pipes, IncrBy(p)
  PROVE  /\ Cardinality(Torn(p.req, p.period))' = Cardinality(Torn(p.req, p.period)) - 1
         /\ \A r, q : r # p.req \/ q # p.period => Torn(r, q)' = Torn(r, q)
<1>1. PICK new : new = [p EXCEPT !.next = "done"]
  OBVIOUS
<1>2. PipeOK(p) /\ p.next = "mirror" /\ pipes' = (pipes \ {p}) \cup {new}
  BY <1>1 DEF Types, Pipelines, IncrBy
<1>3. /\ new.req = p.req /\ new.period = p.period /\ new.next = "done"
  BY <1>1, <1>2, Advance
<1>4. \A r, q : r # p.req \/ q # p.period => Torn(r, q)' = Torn(r, q)
  BY <1>2, <1>3 DEF Torn
<1> DEFINE T == Torn(p.req, p.period)
<1>5. T' = T \ {p}
  BY <1>2, <1>3 DEF Torn
<1>6. p \in T
  BY <1>2 DEF Torn
<1>7. IsFiniteSet(T)
  BY TornFinite
<1> HIDE DEF T
<1>8. Cardinality(T \ {p}) = Cardinality(T) - 1
  BY <1>6, <1>7, FS_RemoveElement
<1> QED BY <1>4, <1>5, <1>8 DEF T

\* One pipeline more or less between the commands: what is owed changes by the delta.
LEMMA OwedChange ==
  ASSUME Types, Types', NEW x \in Req, NEW q \in Period, NEW c \in {-1, 1},
         Cardinality(Torn(x, q))' = Cardinality(Torn(x, q)) + c,
         \A r, y : r # x \/ y # q => Torn(r, y)' = Torn(r, y)
  PROVE  /\ SumFunctionOnSet(Owed(UserOf[x], q)', Req)
              = SumFunctionOnSet(Owed(UserOf[x], q), Req) + c * DeltaOf[x]
         /\ \A u \in User, y \in Period :
              u # UserOf[x] \/ y # q => Owed(u, y)' = Owed(u, y)
<1>1. PICK u : u = UserOf[x]
  OBVIOUS
<1>2. u \in User
  BY <1>1, Body
<1>3. PICK f : f = Owed(u, q)
  OBVIOUS
<1>4. PICK h : h = Owed(u, q)'
  OBVIOUS
<1>5. \A r \in Req : f[r] \in Int /\ h[r] \in Int
  BY <1>2, <1>3, <1>4, Integral, IntegralNext DEF AllIntegral
<1>6. \A r \in Req \ {x} : h[r] = f[r]
  BY <1>3, <1>4 DEF Owed, Between
<1>7. h[x] - f[x] = c * DeltaOf[x]
  <2>1. PICK n \in Nat : n = Cardinality(Torn(x, q))
    BY TornFinite
  <2>2. PICK d \in Int : d = DeltaOf[x]
    BY Body
  <2>3. f[x] = n * d
    BY <1>1, <1>3, <2>1, <2>2 DEF Owed, Between
  <2>4. h[x] = (n + c) * d
    BY <1>1, <1>4, <2>1, <2>2 DEF Owed, Between
  <2>5. CASE c = 1
    <3>1. (n + 1) * d = n * d + d
      OBVIOUS
    <3> QED BY <2>2, <2>3, <2>4, <2>5, <3>1
  <2>6. CASE c = -1
    <3>1. (n + c) * d = n * d - d
      BY <2>6
    <3> QED BY <2>2, <2>3, <2>4, <2>6, <3>1
  <2> QED BY <2>5, <2>6
<1>8. SumFunctionOnSet(h, Req) = SumFunctionOnSet(f, Req) + (h[x] - f[x])
  BY <1>5, <1>6, Finite, SumChange
<1>9. ASSUME NEW v \in User, NEW y \in Period, v # UserOf[x] \/ y # q
      PROVE  Owed(v, y)' = Owed(v, y)
  <2>1. \A r \in Req : UserOf[r] = v => Torn(r, y)' = Torn(r, y)
    BY <1>9
  <2>2. Between(v, y)' = Between(v, y)
    BY <2>1 DEF Between
  <2> QED BY <2>2 DEF Owed
<1> QED BY <1>1, <1>3, <1>4, <1>7, <1>8, <1>9

\* A pipeline is about a period, a region and a user there are.
LEMMA PipeBody ==
  ASSUME Types, NEW p \in pipes
  PROVE  /\ p.req \in Req /\ p.period \in Period /\ p.step \in 1 .. 3
         /\ p.period = PeriodAt(p.req, p.step)
         /\ RegionOf[p.req] \in Region /\ UserOf[p.req] \in User /\ DeltaOf[p.req] \in Int
<1>1. PipeOK(p)
  BY DEF Types, Pipelines
<1>2. p.req \in Req /\ pc[p.req] \notin {"new", "rejected"}
  BY <1>1 DEF PipeOK
<1>3. at[p.req] \in 1 .. MaxNow
  BY <1>2, Instant
<1>4. step[p.req] \in 1 .. 3
  BY <1>2 DEF Types, Requests, ReqOK
<1>5. p.step \in 1 .. 3
  BY <1>1, <1>4 DEF PipeOK
<1>6. PICK x : x = PeriodAt(p.req, p.step)
  OBVIOUS
<1>7. p.period = x
  BY <1>1, <1>6 DEF PipeOK
<1>8. x \in Period
  BY <1>3, <1>5, <1>6, PeriodIsOne
<1> QED BY <1>2, <1>5, <1>6, <1>7, <1>8, Body

\* ZINCRBY adds the delta to one score.
LEMMA ScoresAfter ==
  ASSUME Types, NEW p \in pipes, ZIncrBy(p), NEW g \in Region, NEW q \in Period, NEW u \in User
  PROVE  zset'[<<g, q, u>>] =
           IF g = RegionOf[p.req] /\ q = p.period /\ u = UserOf[p.req]
           THEN zset[<<g, q, u>>] + DeltaOf[p.req] ELSE zset[<<g, q, u>>]
<1>1. PICK e : e = <<RegionOf[p.req], p.period, UserOf[p.req]>>
  OBVIOUS
<1>2. PICK x : x = <<g, q, u>>
  OBVIOUS
<1>3. x \in DOMAIN zset
  <2>1. <<g, q, u>> \in Region \X Period \X User
    OBVIOUS
  <2> QED BY <1>2, <2>1 DEF Types, Shared
<1>4. zset' = [zset EXCEPT ![e] = @ + DeltaOf[p.req]]
  BY <1>1 DEF ZIncrBy
<1>5. zset'[x] = IF x = e THEN zset[x] + DeltaOf[p.req] ELSE zset[x]
  BY <1>3, <1>4
<1>6. x = e <=> g = RegionOf[p.req] /\ q = p.period /\ u = UserOf[p.req]
  BY <1>1, <1>2
<1> QED BY <1>2, <1>5, <1>6

\* INCRBY adds the delta to one number of the mirror.
LEMMA MirrorAfter ==
  ASSUME Types, NEW p \in pipes, IncrBy(p), NEW q \in Period, NEW u \in User
  PROVE  mirror'[<<u, q>>] = IF q = p.period /\ u = UserOf[p.req]
                             THEN mirror[<<u, q>>] + DeltaOf[p.req] ELSE mirror[<<u, q>>]
<1>1. PICK e : e = <<UserOf[p.req], p.period>>
  OBVIOUS
<1>2. PICK x : x = <<u, q>>
  OBVIOUS
<1>3. x \in DOMAIN mirror
  <2>1. <<u, q>> \in User \X Period
    OBVIOUS
  <2> QED BY <1>2, <2>1 DEF Types, Shared
<1>4. mirror' = [mirror EXCEPT ![e] = @ + DeltaOf[p.req]]
  BY <1>1 DEF IncrBy
<1>5. mirror'[x] = IF x = e THEN mirror[x] + DeltaOf[p.req] ELSE mirror[x]
  BY <1>3, <1>4
<1>6. x = e <=> q = p.period /\ u = UserOf[p.req]
  BY <1>1, <1>2
<1> QED BY <1>2, <1>5, <1>6

\* The numbers of one user and period.
LEMMA SumsAreInt ==
  ASSUME Types, NEW u \in User, NEW q \in Period
  PROVE  /\ mirror[<<u, q>>] \in Int
         /\ SumFunctionOnSet(Owed(u, q), Req) \in Int
         /\ SumFunctionOnSet(Totals(u, q), Region) \in Int
<1>1. <<u, q>> \in User \X Period
  OBVIOUS
<1>2. mirror[<<u, q>>] \in Int
  BY <1>1 DEF Types, Shared
<1>3. PICK f : f = Owed(u, q)
  OBVIOUS
<1>4. PICK h : h = Totals(u, q)
  OBVIOUS
<1>5. (\A r \in Req : f[r] \in Int) /\ (\A g \in Region : h[g] \in Int)
  BY <1>3, <1>4, Integral DEF AllIntegral
<1>6. SumFunctionOnSet(f, Req) \in Int /\ SumFunctionOnSet(h, Region) \in Int
  BY <1>5, Finite, SumInt
<1> QED BY <1>2, <1>3, <1>4, <1>6

\* ZINCRBY: the total of the user and what is owed to the mirror grow by the same delta.
LEMMA ZIncrByMirror ==
  ASSUME Types, Types', Balanced, NEW p \in pipes, ZIncrBy(p)
  PROVE  Balanced'
<1>1. PICK x \in Req : x = p.req
  BY PipeBody
<1>2. PICK q \in Period : q = p.period
  BY PipeBody
<1>3. PICK v \in User : v = UserOf[x]
  BY Body
<1>4. mirror' = mirror /\ torn' = torn
  BY DEF ZIncrBy
<1>5. /\ SumFunctionOnSet(Owed(v, q)', Req) = SumFunctionOnSet(Owed(v, q), Req) + DeltaOf[x]
      /\ \A u \in User, y \in Period : u # v \/ y # q => Owed(u, y)' = Owed(u, y)
  <2>1. /\ Cardinality(Torn(x, q))' = Cardinality(Torn(x, q)) + 1
        /\ \A r, y : r # x \/ y # q => Torn(r, y)' = Torn(r, y)
    BY <1>1, <1>2, ZIncrByTorn
  <2>2. PICK c \in {-1, 1} : c = 1
    OBVIOUS
  <2>3. /\ SumFunctionOnSet(Owed(UserOf[x], q)', Req)
             = SumFunctionOnSet(Owed(UserOf[x], q), Req) + c * DeltaOf[x]
        /\ \A u \in User, y \in Period : u # UserOf[x] \/ y # q => Owed(u, y)' = Owed(u, y)
    BY <2>1, <2>2, OwedChange
  <2>4. c * DeltaOf[x] = DeltaOf[x]
    BY <2>2, Body
  <2> QED BY <1>3, <2>3, <2>4
<1>6. SumFunctionOnSet(Totals(v, q)', Region) = SumFunctionOnSet(Totals(v, q), Region) + DeltaOf[x]
  <2>1. PICK f : f = Totals(v, q)
    OBVIOUS
  <2>2. PICK h : h = Totals(v, q)'
    OBVIOUS
  <2>3. PICK g \in Region : g = RegionOf[x]
    BY Body
  <2>4. \A y \in Region : f[y] \in Int /\ h[y] \in Int
    BY <2>1, <2>2, Integral, IntegralNext DEF AllIntegral
  <2>5. ASSUME NEW y \in Region
        PROVE  h[y] = IF y = g THEN f[y] + DeltaOf[x] ELSE f[y]
    <3>1. f[y] = zset[<<y, q, v>>]
      BY <2>1 DEF Totals
    <3>2. h[y] = zset'[<<y, q, v>>]
      BY <2>2 DEF Totals
    <3>3. zset'[<<y, q, v>>] =
            IF y = RegionOf[p.req] /\ q = p.period /\ v = UserOf[p.req]
            THEN zset[<<y, q, v>>] + DeltaOf[p.req] ELSE zset[<<y, q, v>>]
      BY ScoresAfter
    <3> QED BY <1>1, <1>2, <1>3, <2>3, <3>1, <3>2, <3>3
  <2>6. \A y \in Region \ {g} : h[y] = f[y]
    BY <2>5
  <2>7. SumFunctionOnSet(h, Region) = SumFunctionOnSet(f, Region) + (h[g] - f[g])
    BY <2>4, <2>6, Finite, SumChange
  <2>8. h[g] - f[g] = DeltaOf[x]
    <3>1. h[g] = f[g] + DeltaOf[x] /\ f[g] \in Int /\ DeltaOf[x] \in Int
      BY <2>4, <2>5, Body
    <3> QED BY <3>1
  <2> QED BY <2>1, <2>2, <2>7, <2>8
<1>7. ASSUME NEW u \in User, NEW y \in Period, u # v \/ y # q
      PROVE  Totals(u, y)' = Totals(u, y)
  <2>1. \A g \in Region : zset'[<<g, y, u>>] = zset[<<g, y, u>>]
    BY <1>1, <1>2, <1>3, <1>7, ScoresAfter
  <2> QED BY <2>1 DEF Totals
<1>8. ASSUME torn = 0, NEW u \in User, NEW y \in Period
      PROVE  mirror'[<<u, y>>] + SumFunctionOnSet(Owed(u, y)', Req)
               = SumFunctionOnSet(Totals(u, y)', Region)
  <2>1. mirror[<<u, y>>] + SumFunctionOnSet(Owed(u, y), Req) = SumFunctionOnSet(Totals(u, y), Region)
    BY <1>8 DEF Balanced
  <2>2. CASE u # v \/ y # q
    <3>1. Owed(u, y)' = Owed(u, y) /\ Totals(u, y)' = Totals(u, y)
      BY <1>5, <1>7, <2>2
    <3> QED BY <1>4, <2>1, <3>1
  <2>3. CASE u = v /\ y = q
    <3>1. /\ mirror[<<v, q>>] \in Int /\ SumFunctionOnSet(Owed(v, q), Req) \in Int
          /\ SumFunctionOnSet(Totals(v, q), Region) \in Int /\ DeltaOf[x] \in Int
      BY SumsAreInt, Body
    <3> QED BY <1>4, <1>5, <1>6, <2>1, <2>3, <3>1
  <2> QED BY <2>2, <2>3
<1> QED BY <1>4, <1>8 DEF Balanced

\* INCRBY: the mirror grows by what is owed to it less.
LEMMA IncrByMirror ==
  ASSUME Types, Types', Balanced, NEW p \in pipes, IncrBy(p)
  PROVE  Balanced'
<1>1. PICK x \in Req : x = p.req
  BY PipeBody
<1>2. PICK q \in Period : q = p.period
  BY PipeBody
<1>3. PICK v \in User : v = UserOf[x]
  BY Body
<1>4. zset' = zset /\ torn' = torn
  BY DEF IncrBy
<1>5. /\ SumFunctionOnSet(Owed(v, q)', Req) = SumFunctionOnSet(Owed(v, q), Req) - DeltaOf[x]
      /\ \A u \in User, y \in Period : u # v \/ y # q => Owed(u, y)' = Owed(u, y)
  <2>1. PICK c \in {-1, 1} : c = -1
    OBVIOUS
  <2>2. Cardinality(Torn(x, q))' = Cardinality(Torn(x, q)) + c
    <3>1. Cardinality(Torn(x, q))' = Cardinality(Torn(x, q)) - 1
      BY <1>1, <1>2, IncrByTorn
    <3> QED BY <2>1, <3>1, TornFinite
  <2>3. \A r, y : r # x \/ y # q => Torn(r, y)' = Torn(r, y)
    BY <1>1, <1>2, IncrByTorn
  <2>4. /\ SumFunctionOnSet(Owed(UserOf[x], q)', Req)
             = SumFunctionOnSet(Owed(UserOf[x], q), Req) + c * DeltaOf[x]
        /\ \A u \in User, y \in Period : u # UserOf[x] \/ y # q => Owed(u, y)' = Owed(u, y)
    BY <2>2, <2>3, OwedChange
  <2>5. SumFunctionOnSet(Owed(v, q), Req) \in Int /\ DeltaOf[x] \in Int
    BY SumsAreInt, Body
  <2> QED BY <1>3, <2>1, <2>4, <2>5
<1>6. \A u, y : Totals(u, y)' = Totals(u, y)
  BY <1>4 DEF Totals
<1>7. ASSUME torn = 0, NEW u \in User, NEW y \in Period
      PROVE  mirror'[<<u, y>>] + SumFunctionOnSet(Owed(u, y)', Req)
               = SumFunctionOnSet(Totals(u, y)', Region)
  <2>1. mirror[<<u, y>>] + SumFunctionOnSet(Owed(u, y), Req) = SumFunctionOnSet(Totals(u, y), Region)
    BY <1>7 DEF Balanced
  <2>2. mirror'[<<u, y>>] = IF y = q /\ u = v THEN mirror[<<u, y>>] + DeltaOf[x] ELSE mirror[<<u, y>>]
    BY <1>1, <1>2, <1>3, MirrorAfter
  <2>3. CASE u # v \/ y # q
    <3>1. Owed(u, y)' = Owed(u, y)
      BY <1>5, <2>3
    <3> QED BY <1>6, <2>1, <2>2, <2>3, <3>1
  <2>4. CASE u = v /\ y = q
    <3>1. /\ mirror[<<v, q>>] \in Int /\ SumFunctionOnSet(Owed(v, q), Req) \in Int
          /\ SumFunctionOnSet(Totals(v, q), Region) \in Int /\ DeltaOf[x] \in Int
      BY SumsAreInt, Body
    <3> QED BY <1>5, <1>6, <2>1, <2>2, <2>4, <3>1
  <2> QED BY <2>3, <2>4
<1> QED BY <1>4, <1>7 DEF Balanced

\* Nothing adds up to nothing.
LEMMA SumOfZeros ==
  ASSUME NEW S, IsFiniteSet(S), NEW f, \A x \in S : f[x] = 0
  PROVE  SumFunctionOnSet(f, S) = 0
<1>1. {} \in SUBSET S /\ \A x \in S : f[x] \in Int
  OBVIOUS
<1>2. SumFunctionOnSet(f, S) = SumFunctionOnSet(f, {})
  BY <1>1, SumZeros
<1> QED BY <1>2, SumOfNothing

\* At first there is nothing to balance.
LEMMA MirrorInit ==
  ASSUME Init
  PROVE  Balanced
<1> SUFFICES ASSUME NEW u \in User, NEW p \in Period
             PROVE  mirror[<<u, p>>] + SumFunctionOnSet(Owed(u, p), Req)
                      = SumFunctionOnSet(Totals(u, p), Region)
  BY DEF Balanced
<1>1. mirror[<<u, p>>] = 0
  <2>1. <<u, p>> \in User \X Period
    OBVIOUS
  <2> QED BY <2>1 DEF Init
<1>2. PICK f : f = Owed(u, p)
  OBVIOUS
<1>3. \A r \in Req : f[r] = 0
  <2> TAKE r \in Req
  <2>1. Torn(r, p) = {}
    BY DEF Torn, Init
  <2>2. Between(u, p)[r] = 0
    BY <2>1, FS_EmptySet DEF Between
  <2> QED BY <1>2, <2>2, Body DEF Owed
<1>4. PICK h : h = Totals(u, p)
  OBVIOUS
<1>5. \A g \in Region : h[g] = 0
  <2> TAKE g \in Region
  <2>1. <<g, p, u>> \in Region \X Period \X User
    OBVIOUS
  <2> QED BY <1>4, <2>1 DEF Totals, Init
<1>6. SumFunctionOnSet(f, Req) = 0 /\ SumFunctionOnSet(h, Region) = 0
  BY <1>3, <1>5, Finite, SumOfZeros
<1> QED BY <1>1, <1>2, <1>4, <1>6

\* Every step.
LEMMA MirrorStep ==
  ASSUME Types, Types', Balanced, [Next]_vars
  PROVE  Balanced'
<1>1. CASE Tick \/ ChannelLost \/ Restart \/ UNCHANGED vars
  BY <1>1, HandlerMirror
<1>2. ASSUME NEW r \in Req,
             \/ Reject(r) \/ Accept(r) \/ Replied(r) \/ Resend(r) \/ GiveUp(r)
             \/ PublishScoreEvent(r)
      PROVE  Balanced'
  BY <1>2, HandlerMirror
<1>3. ASSUME NEW p \in pipes, ZIncrBy(p) \/ IncrBy(p) \/ Abandoned(p)
      PROVE  Balanced'
  BY <1>3, ZIncrByMirror, IncrByMirror, AbandonedMirror
<1> QED BY <1>1, <1>2, <1>3 DEF Next

(* The score the friends leaderboard reads is the user's score over all    *)
(* regions, up to pipelines between their two commands, for any requests   *)
(* interleaved and sent again in any way, unless a pipeline was cut.       *)
THEOREM MirrorIsTheTotal == Spec => []MirrorAgrees
<1>1. Init => Types /\ Balanced
  BY TypesInit, MirrorInit
<1>2. (Types /\ Balanced) /\ [Next]_vars => (Types /\ Balanced)'
  BY TypesStep, MirrorStep
<1>3. Types /\ Balanced => MirrorAgrees
  BY MirrorIs
<1> QED BY <1>1, <1>2, <1>3, PTL DEF Spec

-----------------------------------------------------------------------------
(* The ledger.                                                             *)

\* A step that increases no score: nobody has scored by it, and without faults nobody is forgotten.
Settled ==
  /\ zset' = zset /\ applied' = applied
  /\ faults' = 0 => faults = 0
  /\ \A r \in Req : \A k \in 1 .. 3 :
       /\ Scored(r, k)' => Scored(r, k)
       /\ faults' = 0 => (Scored(r, k) => Scored(r, k)')
       /\ Scored(r, k) => at'[r] = at[r]

\* What is scored is a request that was accepted.
LEMMA ScoredAccepted ==
  ASSUME Types, NEW r \in Req, NEW k \in 1 .. 3, Scored(r, k)
  PROVE  pc[r] \notin {"new", "rejected"}
<1> SUFFICES ASSUME pc[r] \in {"new", "rejected"} PROVE FALSE
  OBVIOUS
<1>1. step[r] = 1
  BY DEF Types, Requests, ReqOK
<1>2. \A p \in pipes : p.req # r
  BY DEF Types, Pipelines, PipeOK
<1> QED BY <1>1, <1>2 DEF Scored, Done

\* Pipelines of r after which ZINCRBY ran.
Ran(r, k) == \E p \in pipes : p.req = r /\ p.step = k /\ p.next # "zset"

\* Scored, in parts.
LEMMA ScoredIs ==
  ASSUME NEW r, NEW k
  PROVE  /\ Scored(r, k) <=> Done(r, k) \/ (k = step[r] /\ pc[r] = "publish") \/ Ran(r, k)
         /\ Scored(r, k)' <=> Done(r, k)' \/ (k = step'[r] /\ pc'[r] = "publish") \/ Ran(r, k)'
BY DEF Scored, Ran

\* A step by which no request starts or ends publishing, and no ZINCRBY runs.
LEMMA SettledWhen ==
  ASSUME Types, Untouched, zset' = zset, applied' = applied, faults' = 0 => faults = 0,
         \A r \in Req : pc'[r] = "publish" => pc[r] = "publish",
         \A r \in Req : faults' = 0 => (pc[r] = "publish" => pc'[r] = "publish"),
         \A r \in Req : \A k \in 1 .. 3 : Ran(r, k)' => Ran(r, k),
         \A r \in Req : \A k \in 1 .. 3 : faults' = 0 => (Ran(r, k) => Ran(r, k)')
  PROVE  Settled
<1> SUFFICES ASSUME NEW r \in Req, NEW k \in 1 .. 3
             PROVE  /\ Scored(r, k)' => Scored(r, k)
                    /\ faults' = 0 => (Scored(r, k) => Scored(r, k)')
                    /\ Scored(r, k) => at'[r] = at[r]
  BY DEF Settled
<1>1. step'[r] = step[r] /\ (Done(r, k)' <=> Done(r, k))
  BY StillDone DEF Untouched
<1>2. Scored(r, k)' => Scored(r, k)
  BY <1>1, ScoredIs
<1>3. faults' = 0 => (Scored(r, k) => Scored(r, k)')
  BY <1>1, ScoredIs
<1>4. Scored(r, k) => at'[r] = at[r]
  BY ScoredAccepted DEF Untouched
<1> QED BY <1>2, <1>3, <1>4

\* The clock, the failures, and requests turned down, accepted, sent again and given up.
LEMMA CalmSettled ==
  ASSUME Types, \/ Tick \/ ChannelLost \/ Restart \/ UNCHANGED vars
                \/ \E r \in Req : Reject(r) \/ Accept(r) \/ Resend(r) \/ GiveUp(r)
  PROVE  Settled
<1>1. Untouched
  BY NotPublishing
<1>2. faults \in Nat
  BY Bounds DEF Types, Shared
<1>3. CASE Tick \/ UNCHANGED vars
  <2>1. zset' = zset /\ applied' = applied /\ pc' = pc /\ pipes' = pipes /\ faults' = faults
    BY <1>3 DEF Tick, vars
  <2>2. \A r, k : Ran(r, k)' <=> Ran(r, k)
    BY <2>1 DEF Ran
  <2> QED BY <1>1, <2>1, <2>2, SettledWhen
<1>4. CASE ChannelLost \/ Restart
  <2>1. zset' = zset /\ applied' = applied /\ pipes' = pipes /\ faults' # 0
    BY <1>2, <1>4 DEF ChannelLost, Restart
  <2>2. \A r, k : Ran(r, k)' <=> Ran(r, k)
    BY <2>1 DEF Ran
  <2>3. \A r \in Req : pc'[r] = "publish" => pc[r] = "publish"
    BY <1>4 DEF ChannelLost, Restart
  <2> QED BY <1>1, <2>1, <2>2, <2>3, SettledWhen
<1>5. ASSUME NEW r \in Req, Reject(r) \/ GiveUp(r)
      PROVE  Settled
  <2>1. zset' = zset /\ applied' = applied /\ pipes' = pipes /\ (faults' = 0 => faults = 0)
    BY <1>2, <1>5 DEF Reject, GiveUp
  <2>2. \A q, k : Ran(q, k)' <=> Ran(q, k)
    BY <2>1 DEF Ran
  <2>3. pc[r] # "publish" /\ (pc' = [pc EXCEPT ![r] = "rejected"] \/ pc' = [pc EXCEPT ![r] = "failed"])
    BY <1>5 DEF Reject, GiveUp
  <2>4. \A q \in Req : pc'[q] = "publish" <=> pc[q] = "publish"
    BY <2>3 DEF Types, Requests
  <2> QED BY <1>1, <2>1, <2>2, <2>4, SettledWhen
<1>6. ASSUME NEW r \in Req, Accept(r) \/ Resend(r)
      PROVE  Settled
  <2>1. zset' = zset /\ applied' = applied /\ (faults' = 0 => faults = 0)
    BY <1>2, <1>6 DEF Accept, Resend
  <2>2. \E new : pipes' = pipes \cup {new} /\ new.next = "zset"
    BY <1>6, PipeFields DEF Accept, Resend
  <2>3. \A q, k : Ran(q, k)' <=> Ran(q, k)
    BY <2>2 DEF Ran
  <2>4. pc[r] # "publish" /\ (pc' = [pc EXCEPT ![r] = "redis"] \/ pc' = pc)
    BY <1>6 DEF Accept, Resend
  <2>5. \A q \in Req : pc'[q] = "publish" <=> pc[q] = "publish"
    BY <2>4 DEF Types, Requests
  <2> QED BY <1>1, <2>1, <2>3, <2>5, SettledWhen
<1> QED BY <1>3, <1>4, <1>5, <1>6

\* The reply: what ran is now what the handler publishes.
LEMMA RepliedSettled ==
  ASSUME Types, NEW r \in Req, Replied(r)
  PROVE  Settled
<1>1. PICK p \in pipes : p.req = r /\ Latest(p) /\ p.next = "done" /\ pipes' = pipes \ {p}
  BY DEF Replied
<1>2. /\ zset' = zset /\ applied' = applied /\ faults' = faults /\ step' = step /\ at' = at
      /\ pc[r] = "redis" /\ step[r] = p.step /\ pc' = [pc EXCEPT ![r] = "publish"]
  BY <1>1 DEF Replied, Latest
<1>3. pc'[r] = "publish" /\ \A q \in Req \ {r} : pc'[q] = pc[q]
  BY <1>2 DEF Types, Requests
<1>4. Untouched
  BY NotPublishing
<1>5. ASSUME NEW q \in Req, NEW k \in 1 .. 3
      PROVE  Scored(q, k)' <=> Scored(q, k)
  <2>1. Done(q, k)' <=> Done(q, k)
    BY <1>4, StillDone
  <2>2. CASE q # r
    <3>1. Ran(q, k)' <=> Ran(q, k)
      BY <1>1, <2>2 DEF Ran
    <3> QED BY <1>2, <1>3, <2>1, <2>2, <3>1, ScoredIs
  <2>3. CASE q = r /\ k = step[r]
    <3>1. Scored(q, k)'
      BY <1>2, <1>3, <2>3, ScoredIs
    <3>2. Ran(q, k)
      BY <1>1, <1>2, <2>3 DEF Ran
    <3> QED BY <3>1, <3>2, ScoredIs
  <2>4. CASE q = r /\ k # step[r]
    <3>1. Ran(q, k)' <=> Ran(q, k)
      BY <1>1, <1>2, <2>4 DEF Ran
    <3> QED BY <1>2, <2>1, <2>4, <3>1, ScoredIs
  <2> QED BY <2>2, <2>3, <2>4
<1> QED BY <1>2, <1>5 DEF Settled

\* The publishing: the period is done with.
LEMMA PublishSettled ==
  ASSUME Types, NEW r \in Req, PublishScoreEvent(r)
  PROVE  Settled
<1>1. zset' = zset /\ applied' = applied /\ faults' = faults /\ at' = at
  BY DEF PublishScoreEvent
<1>2. pipes' = pipes \/ \E new : pipes' = pipes \cup {new} /\ new.next = "zset"
  BY PipeFields DEF PublishScoreEvent
<1>3. \A q, k : Ran(q, k)' <=> Ran(q, k)
  BY <1>2 DEF Ran
<1>4. /\ pc[r] = "publish" /\ pc' = [pc EXCEPT ![r] = pc'[r]] /\ pc'[r] \in {"redis", "ok"}
      /\ step' = [step EXCEPT ![r] = step'[r]] /\ step[r] \in 1 .. 3
      /\ \A k \in 1 .. 3 : Done(r, k) => k < step[r]
      /\ \A k \in 1 .. 3 : Done(r, k)' <=> k <= step[r]
      /\ \A q \in Req \ {r} : \A k \in 1 .. 3 : Done(q, k)' <=> Done(q, k)
  BY Publishing
<1>5. \A q \in Req \ {r} : pc'[q] = pc[q] /\ step'[q] = step[q]
  BY <1>4 DEF Types, Requests
<1>6. \A k \in 1 .. 3 : Ran(r, k) => k <= step[r]
  BY DEF Ran, Types, Pipelines, PipeOK
<1>7. ASSUME NEW q \in Req, NEW k \in 1 .. 3
      PROVE  Scored(q, k)' <=> Scored(q, k)
  <2>1. CASE q # r
    BY <1>3, <1>4, <1>5, <2>1, ScoredIs
  <2>2. CASE q = r
    <3>1. Scored(r, k)' => k <= step[r]
      BY <1>3, <1>4, <1>6, ScoredIs
    <3>2. k <= step[r] => Scored(r, k)'
      BY <1>4, ScoredIs
    <3>3. Scored(r, k) => k <= step[r]
      BY <1>4, <1>6, ScoredIs
    <3>4. k <= step[r] => Scored(r, k)
      <4>1. k < step[r] => Done(r, k)
        BY DEF Done
      <4> QED BY <1>4, <4>1, ScoredIs
    <3> QED BY <2>2, <3>1, <3>2, <3>3, <3>4
  <2> QED BY <2>1, <2>2
<1> QED BY <1>1, <1>7 DEF Settled

\* INCRBY comes after ZINCRBY.
LEMMA IncrBySettled ==
  ASSUME Types, NEW p \in pipes, IncrBy(p)
  PROVE  Settled
<1>1. PICK new : new = [p EXCEPT !.next = "done"]
  OBVIOUS
<1>2. PipeOK(p) /\ p.next = "mirror" /\ pipes' = (pipes \ {p}) \cup {new}
  BY <1>1 DEF Types, Pipelines, IncrBy
<1>3. new.req = p.req /\ new.step = p.step /\ new.next = "done"
  BY <1>1, <1>2, Advance
<1>4. \A r, k : Ran(r, k)' <=> Ran(r, k)
  BY <1>2, <1>3 DEF Ran
<1>5. Untouched
  BY NotPublishing
<1>6. zset' = zset /\ applied' = applied /\ pc' = pc /\ faults' = faults
  BY DEF IncrBy
<1> QED BY <1>4, <1>5, <1>6, SettledWhen

\* Only faults leave pipelines behind.
LEMMA AbandonedSettled ==
  ASSUME Types, Faultless, NEW p \in pipes, Abandoned(p)
  PROVE  Settled /\ faults' # 0
<1>1. zset' = zset /\ applied' = applied /\ pc' = pc /\ faults' = faults /\ pipes' = pipes \ {p}
  BY DEF Abandoned
<1>2. faults # 0
  BY DEF Faultless, Abandoned
<1>3. \A r, k : Ran(r, k)' => Ran(r, k)
  BY <1>1 DEF Ran
<1>4. Untouched
  BY NotPublishing
<1> QED BY <1>1, <1>2, <1>3, <1>4, SettledWhen

\* Every step that runs no ZINCRBY.
LEMMA SettledStep ==
  ASSUME Types, Faultless, [Next]_vars
  PROVE  Settled \/ \E p \in pipes : ZIncrBy(p)
<1>1. CASE Tick \/ ChannelLost \/ Restart \/ UNCHANGED vars
  BY <1>1, CalmSettled
<1>2. ASSUME NEW r \in Req,
             \/ Reject(r) \/ Accept(r) \/ Replied(r) \/ Resend(r) \/ GiveUp(r)
             \/ PublishScoreEvent(r)
      PROVE  Settled
  BY <1>2, CalmSettled, RepliedSettled, PublishSettled
<1>3. ASSUME NEW p \in pipes, IncrBy(p) \/ Abandoned(p)
      PROVE  Settled
  BY <1>3, IncrBySettled, AbandonedSettled
<1> QED BY <1>1, <1>2, <1>3 DEF Next

\* ZINCRBY: one request has scored one period more, and without faults for the first time.
LEMMA ZIncrByScores ==
  ASSUME Types, Faultless, NEW p \in pipes, ZIncrBy(p)
  PROVE  /\ \A r \in Req : \A k \in 1 .. 3 :
              Scored(r, k)' <=> Scored(r, k) \/ (r = p.req /\ k = p.step)
         /\ faults = 0 => ~ Scored(p.req, p.step)
         /\ at' = at /\ faults' = faults
<1>1. PICK new : new = [p EXCEPT !.next = "mirror"]
  OBVIOUS
<1>2. PipeOK(p) /\ p.next = "zset" /\ pipes' = (pipes \ {p}) \cup {new}
  BY <1>1 DEF Types, Pipelines, ZIncrBy
<1>3. new.req = p.req /\ new.step = p.step /\ new.next = "mirror"
  BY <1>1, <1>2, Advance
<1>4. \A r, k : Ran(r, k)' <=> Ran(r, k) \/ (r = p.req /\ k = p.step)
  BY <1>2, <1>3 DEF Ran
<1>5. at' = at /\ faults' = faults /\ pc' = pc /\ step' = step
  BY DEF ZIncrBy
<1>6. \A r, k : Done(r, k)' <=> Done(r, k)
  BY <1>5 DEF Done
<1>7. \A r \in Req : \A k \in 1 .. 3 : Scored(r, k)' <=> Scored(r, k) \/ (r = p.req /\ k = p.step)
  BY <1>4, <1>5, <1>6, ScoredIs
<1>8. ASSUME faults = 0
      PROVE  ~ Scored(p.req, p.step)
  <2>1. pc[p.req] = "redis" /\ step[p.req] = p.step /\ try[p.req] = p.try
    BY <1>8 DEF Faultless, Latest
  <2>2. p.step \in Nat
    BY <1>2 DEF PipeOK, Types, Requests, ReqOK
  <2>3. ~ Done(p.req, p.step)
    BY <2>1, <2>2 DEF Done
  <2>4. ASSUME NEW q \in pipes, q.req = p.req, q.step = p.step
        PROVE  q.next = "zset"
    <3>1. try[q.req] = q.try
      BY <1>8 DEF Faultless, Latest
    <3>2. q = p
      BY <2>1, <2>4, <3>1 DEF Types, Pipelines
    <3> QED BY <1>2, <3>2
  <2>5. ~ Ran(p.req, p.step)
    BY <2>4 DEF Ran
  <2> QED BY <2>1, <2>3, <2>5, ScoredIs
<1> QED BY <1>5, <1>7, <1>8

\* The numbers of the ledger.
LEMMA Numbers ==
  ASSUME Types, NEW r \in Req, NEW p \in Period
  PROVE  /\ applied[<<r, p>>] \in Nat /\ DeltaOf[r] \in Int /\ faults \in Nat
         /\ IsFiniteSet(Waiting(r, p)) /\ Cardinality(Waiting(r, p)) \in Nat
<1>1. <<r, p>> \in Req \X Period
  OBVIOUS
<1>2. applied[<<r, p>>] \in Nat /\ faults \in Nat
  BY <1>1, Bounds DEF Types, Shared
<1>3. Waiting(r, p) \subseteq pipes /\ IsFiniteSet(pipes)
  BY DEF Waiting, Types, Shared
<1>4. IsFiniteSet(Waiting(r, p))
  BY <1>3, FS_Subset
<1> QED BY <1>2, <1>4, Body, FS_CardinalityType

\* And so they are after a step.
LEMMA NumbersNext ==
  ASSUME Types', NEW r \in Req, NEW p \in Period
  PROVE  /\ applied'[<<r, p>>] \in Nat /\ faults' \in Nat
         /\ IsFiniteSet(Waiting(r, p)') /\ Cardinality(Waiting(r, p)') \in Nat
<1>1. <<r, p>> \in Req \X Period
  OBVIOUS
<1>2. applied'[<<r, p>>] \in Nat /\ faults' \in Nat
  BY <1>1, Bounds DEF Types, Shared
<1>3. Waiting(r, p)' \subseteq pipes' /\ IsFiniteSet(pipes')
  BY DEF Waiting, Types, Shared
<1>4. IsFiniteSet(Waiting(r, p)')
  BY <1>3, FS_Subset
<1> QED BY <1>2, <1>4, FS_CardinalityType

\* What a request has added to a leaderboard.
LEMMA TallyIs ==
  ASSUME Types, NEW g, NEW p \in Period, NEW u, NEW r \in Req
  PROVE  /\ Tally(g, p, u)[r] = IF RegionOf[r] = g /\ UserOf[r] = u
                                THEN applied[<<r, p>>] * DeltaOf[r] ELSE 0
         /\ Tally(g, p, u)[r] \in Int
<1>1. Tally(g, p, u)[r] = IF RegionOf[r] = g /\ UserOf[r] = u
                          THEN applied[<<r, p>>] * DeltaOf[r] ELSE 0
  BY DEF Tally
<1>2. applied[<<r, p>>] \in Nat /\ DeltaOf[r] \in Int
  BY Numbers
<1>3. applied[<<r, p>>] * DeltaOf[r] \in Int
  BY <1>2
<1> QED BY <1>1, <1>3

\* And after a step.
LEMMA TallyNext ==
  ASSUME Types', NEW g, NEW p \in Period, NEW u, NEW r \in Req
  PROVE  /\ Tally(g, p, u)'[r] = IF RegionOf[r] = g /\ UserOf[r] = u
                                 THEN applied'[<<r, p>>] * DeltaOf[r] ELSE 0
         /\ Tally(g, p, u)'[r] \in Int
<1>1. Tally(g, p, u)'[r] = IF RegionOf[r] = g /\ UserOf[r] = u
                           THEN applied'[<<r, p>>] * DeltaOf[r] ELSE 0
  BY DEF Tally
<1>2. applied'[<<r, p>>] \in Nat /\ DeltaOf[r] \in Int
  BY NumbersNext, Body
<1>3. applied'[<<r, p>>] * DeltaOf[r] \in Int
  BY <1>2
<1> QED BY <1>1, <1>3

\* ZINCRBY is counted.
LEMMA AppliedAfter ==
  ASSUME Types, NEW p \in pipes, ZIncrBy(p), NEW r \in Req, NEW q \in Period
  PROVE  applied'[<<r, q>>] = IF r = p.req /\ q = p.period
                              THEN applied[<<r, q>>] + 1 ELSE applied[<<r, q>>]
<1>1. PICK e : e = <<p.req, p.period>>
  OBVIOUS
<1>2. PICK x : x = <<r, q>>
  OBVIOUS
<1>3. x \in DOMAIN applied
  <2>1. <<r, q>> \in Req \X Period
    OBVIOUS
  <2> QED BY <1>2, <2>1 DEF Types, Shared
<1>4. applied' = [applied EXCEPT ![e] = @ + 1]
  BY <1>1 DEF ZIncrBy
<1>5. applied'[x] = IF x = e THEN applied[x] + 1 ELSE applied[x]
  BY <1>3, <1>4
<1>6. x = e <=> r = p.req /\ q = p.period
  BY <1>1, <1>2
<1> QED BY <1>2, <1>5, <1>6

\* The scores after a step without ZINCRBY.
LEMMA TalliedKept ==
  ASSUME Tallied, Settled
  PROVE  Tallied'
<1>1. zset' = zset /\ applied' = applied
  BY DEF Settled
<1>2. \A g, p, u : Tally(g, p, u)' = Tally(g, p, u)
  BY <1>1 DEF Tally
<1> QED BY <1>1, <1>2 DEF Tallied

\* The scores after ZINCRBY.
LEMMA TalliedGrows ==
  ASSUME Types, Types', Tallied, NEW z \in pipes, ZIncrBy(z)
  PROVE  Tallied'
<1> SUFFICES ASSUME NEW g \in Region, NEW p \in Period, NEW u \in User
             PROVE  zset'[<<g, p, u>>] = SumFunctionOnSet(Tally(g, p, u)', Req)
  BY DEF Tallied
<1>1. PICK f : f = Tally(g, p, u)
  OBVIOUS
<1>2. PICK h : h = Tally(g, p, u)'
  OBVIOUS
<1>3. \A r \in Req : f[r] \in Int /\ h[r] \in Int
  BY <1>1, <1>2, TallyIs, TallyNext
<1>4. PICK x \in Req : x = z.req
  BY PipeBody
<1>5. \A r \in Req \ {x} : h[r] = f[r]
  <2> TAKE r \in Req \ {x}
  <2>1. applied'[<<r, p>>] = applied[<<r, p>>]
    BY <1>4, AppliedAfter
  <2> QED BY <1>1, <1>2, <2>1, TallyIs, TallyNext
<1>6. SumFunctionOnSet(h, Req) = SumFunctionOnSet(f, Req) + (h[x] - f[x])
  BY <1>3, <1>5, Finite, SumChange
<1>7. SumFunctionOnSet(f, Req) = zset[<<g, p, u>>] /\ SumFunctionOnSet(f, Req) \in Int
  BY <1>1, <1>3, Finite, SumInt DEF Tallied
<1>8. CASE g = RegionOf[x] /\ p = z.period /\ u = UserOf[x]
  <2>1. PICK n \in Nat : n = applied[<<x, p>>]
    BY Numbers
  <2>2. PICK d \in Int : d = DeltaOf[x]
    BY Body
  <2>3. f[x] = n * d
    BY <1>1, <1>8, <2>1, <2>2, TallyIs
  <2>4. applied'[<<x, p>>] = n + 1
    BY <1>4, <1>8, <2>1, AppliedAfter
  <2>5. h[x] = (n + 1) * d
    BY <1>2, <1>8, <2>2, <2>4, TallyNext
  <2>6. (n + 1) * d = n * d + d
    OBVIOUS
  <2>7. n * d \in Int
    OBVIOUS
  <2>8. h[x] - f[x] = d
    BY <2>3, <2>5, <2>6, <2>7
  <2>9. zset'[<<g, p, u>>] = zset[<<g, p, u>>] + d
    BY <1>4, <1>8, <2>2, ScoresAfter
  <2> QED BY <1>2, <1>6, <1>7, <2>8, <2>9
<1>9. CASE ~ (g = RegionOf[x] /\ p = z.period /\ u = UserOf[x])
  <2>1. zset'[<<g, p, u>>] = zset[<<g, p, u>>]
    BY <1>4, <1>9, ScoresAfter
  <2>2. h[x] = f[x]
    <3>1. CASE p # z.period
      <4>1. applied'[<<x, p>>] = applied[<<x, p>>]
        BY <3>1, AppliedAfter
      <4> QED BY <1>1, <1>2, <4>1, TallyIs, TallyNext
    <3>2. CASE ~ (g = RegionOf[x] /\ u = UserOf[x])
      <4>1. f[x] = 0
        BY <1>1, <3>2, Zenon DEF Tally
      <4>2. h[x] = 0
        BY <1>2, <3>2, Zenon DEF Tally
      <4> QED BY <4>1, <4>2
    <3> QED BY <1>9, <3>1, <3>2
  <2> QED BY <1>2, <1>3, <1>6, <1>7, <2>1, <2>2
<1> QED BY <1>8, <1>9

\* Where a request has scored.
LEMMA ScoredPeriod ==
  ASSUME Types, NEW r \in Req, NEW k \in 1 .. 3, Scored(r, k)
  PROVE  PeriodAt(r, k) \in Period
BY ScoredAccepted, Instant, PeriodIsOne

\* What can be told from the state, after a step without ZINCRBY.
LEMMA CoveredKept ==
  ASSUME Covered, Settled
  PROVE  Covered'
<1> SUFFICES ASSUME NEW r \in Req, NEW k \in 1 .. 3, Scored(r, k)'
             PROVE  applied'[<<r, PeriodAt(r, k)'>>] >= 1
  BY DEF Covered
<1>1. Scored(r, k) /\ at'[r] = at[r] /\ applied' = applied
  BY DEF Settled
<1>2. PeriodAt(r, k)' = PeriodAt(r, k)
  BY <1>1 DEF PeriodAt
<1>3. applied[<<r, PeriodAt(r, k)>>] >= 1
  BY <1>1 DEF Covered
<1> QED BY <1>1, <1>2, <1>3

\* And after ZINCRBY.
LEMMA CoveredGrows ==
  ASSUME Types, Faultless, Covered, NEW z \in pipes, ZIncrBy(z)
  PROVE  Covered'
<1> SUFFICES ASSUME NEW r \in Req, NEW k \in 1 .. 3, Scored(r, k)'
             PROVE  applied'[<<r, PeriodAt(r, k)'>>] >= 1
  BY DEF Covered
<1>1. PICK q : q = PeriodAt(r, k)
  OBVIOUS
<1>2. PeriodAt(r, k)' = q
  BY <1>1, ZIncrByScores DEF PeriodAt
<1>3. Scored(r, k) \/ (r = z.req /\ k = z.step)
  BY ZIncrByScores
<1>4. CASE Scored(r, k)
  <2>1. q \in Period /\ applied[<<r, q>>] >= 1
    BY <1>1, <1>4, ScoredPeriod DEF Covered
  <2>2. applied[<<r, q>>] \in Nat
    BY <2>1, Numbers
  <2>3. applied'[<<r, q>>] >= 1
    BY <2>1, <2>2, AppliedAfter
  <2> QED BY <1>2, <2>3
<1>5. CASE r = z.req /\ k = z.step
  <2>1. q \in Period /\ q = z.period
    BY <1>1, <1>5, PipeBody
  <2>2. applied[<<r, q>>] \in Nat
    BY <2>1, Numbers
  <2>3. applied'[<<r, q>>] = applied[<<r, q>>] + 1
    BY <1>5, <2>1, AppliedAfter
  <2> QED BY <1>2, <2>2, <2>3
<1> QED BY <1>3, <1>4, <1>5

\* A request goes on from where it is.
LEMMA Onward ==
  ASSUME Types, [Next]_vars, NEW r \in Req, pc[r] \notin {"new", "rejected"}
  PROVE  pc'[r] \notin {"new", "rejected"} /\ at'[r] = at[r] /\ step'[r] >= step[r]
<1>0. step[r] \in 1 .. 3
  BY DEF Types, Requests, ReqOK
<1>1. ASSUME Untouched
      PROVE  at'[r] = at[r] /\ step'[r] >= step[r]
  BY <1>0, <1>1 DEF Untouched
<1> USE DEF Types, Requests
<1>2. CASE \/ Tick \/ ChannelLost \/ UNCHANGED vars
           \/ \E p \in pipes : ZIncrBy(p) \/ IncrBy(p) \/ Abandoned(p)
  <2>1. Untouched
    BY <1>2, NotPublishing
  <2>2. pc' = pc
    BY <1>2 DEF Tick, ChannelLost, vars, ZIncrBy, IncrBy, Abandoned
  <2> QED BY <1>1, <2>1, <2>2
<1>3. CASE Restart
  <2>1. Untouched
    BY <1>3, NotPublishing
  <2> QED BY <1>1, <1>3, <2>1 DEF Restart
<1>4. ASSUME NEW q \in Req, Reject(q) \/ Accept(q) \/ Replied(q) \/ Resend(q) \/ GiveUp(q)
      PROVE  pc'[r] \notin {"new", "rejected"} /\ at'[r] = at[r] /\ step'[r] >= step[r]
  <2>1. Untouched
    BY <1>4, NotPublishing
  <2>2. \/ pc[q] = "new" /\ pc' = [pc EXCEPT ![q] = "rejected"]
        \/ pc' = pc
        \/ \E x \in {"redis", "publish", "failed"} : pc' = [pc EXCEPT ![q] = x]
    BY <1>4 DEF Reject, Accept, Replied, Resend, GiveUp
  <2>3. pc'[r] \notin {"new", "rejected"}
    BY <2>2
  <2> QED BY <1>1, <2>1, <2>3
<1>5. ASSUME NEW q \in Req, PublishScoreEvent(q)
      PROVE  pc'[r] \notin {"new", "rejected"} /\ at'[r] = at[r] /\ step'[r] >= step[r]
  <2>1. /\ pc' = [pc EXCEPT ![q] = pc'[q]] /\ at' = at /\ step' = [step EXCEPT ![q] = step'[q]]
        /\ pc'[q] \in {"redis", "ok"}
        /\ step'[q] = step[q] + 1 \/ step'[q] = 3
    BY <1>5, Publishing
  <2>2. CASE q = r
    BY <1>0, <2>1, <2>2
  <2>3. CASE q # r
    BY <1>0, <2>1, <2>3
  <2> QED BY <2>2, <2>3
<1> QED BY <1>2, <1>3, <1>4, <1>5 DEF Next

\* What it has reached stays reached.
LEMMA ReachedStays ==
  ASSUME Types, Types', [Next]_vars, NEW r \in Req, NEW p, Reached(r, p)
  PROVE  Reached(r, p)'
<1>1. PICK k \in 1 .. step[r] : PeriodAt(r, k) = p
  BY DEF Reached
<1>2. pc'[r] \notin {"new", "rejected"} /\ at'[r] = at[r] /\ step'[r] >= step[r]
  BY Onward DEF Reached
<1>3. step[r] \in 1 .. 3 /\ step'[r] \in 1 .. 3
  BY DEF Types, Requests, ReqOK
<1>4. k \in 1 .. step'[r]
  BY <1>2, <1>3
<1>5. PeriodAt(r, k)' = p
  BY <1>1, <1>2 DEF PeriodAt
<1> QED BY <1>2, <1>4, <1>5 DEF Reached
\* No step takes a fault back.
LEMMA FaultsStay ==
  ASSUME Types, [Next]_vars
  PROVE  faults' >= faults /\ (faults' = 0 => faults = 0)
<1>1. faults \in Nat
  BY Bounds DEF Types, Shared
<1> SUFFICES faults' = faults \/ faults' = faults + 1
  BY <1>1
<1>2. CASE UNCHANGED vars
  BY <1>2 DEF vars
<1>3. CASE Tick \/ ChannelLost \/ Restart
  BY <1>3 DEF Tick, ChannelLost, Restart
<1>4. ASSUME NEW r \in Req, Reject(r) \/ Accept(r) \/ Replied(r) \/ PublishScoreEvent(r)
      PROVE  faults' = faults
  BY <1>4 DEF Reject, Accept, Replied, PublishScoreEvent
<1>5. ASSUME NEW r \in Req, Resend(r) \/ GiveUp(r)
      PROVE  faults' = faults + 1
  BY <1>5 DEF Resend, GiveUp
<1>6. ASSUME NEW p \in pipes, ZIncrBy(p) \/ IncrBy(p) \/ Abandoned(p)
      PROVE  faults' = faults
  BY <1>6 DEF ZIncrBy, IncrBy, Abandoned
<1> QED BY <1>2, <1>3, <1>4, <1>5, <1>6 DEF Next

\* There is room for one ZINCRBY per fault and one more.
Room(r, p) == applied[<<r, p>>] + Cardinality(Waiting(r, p)) <= faults + 1

\* A step after which no more are waiting.
LEMMA RoomKept ==
  ASSUME Types, Types', NEW r \in Req, NEW p \in Period, Room(r, p), faults' >= faults,
         applied'[<<r, p>>] = applied[<<r, p>>], Waiting(r, p)' \subseteq Waiting(r, p)
  PROVE  Room(r, p)'
<1>1. PICK W : W = Waiting(r, p)
  OBVIOUS
<1>2. PICK V : V = Waiting(r, p)'
  OBVIOUS
<1>3. V \subseteq W /\ IsFiniteSet(W) /\ Cardinality(W) \in Nat /\ Cardinality(V) \in Nat
  BY <1>1, <1>2, Numbers, NumbersNext
<1>4. Cardinality(V) <= Cardinality(W)
  BY <1>3, FS_Subset
<1>5. PICK n : n = applied[<<r, p>>]
  OBVIOUS
<1>6. n \in Nat /\ faults \in Nat /\ faults' \in Nat /\ n + Cardinality(W) <= faults + 1
  BY <1>1, <1>5, Numbers, NumbersNext DEF Room
<1>7. n + Cardinality(V) <= faults' + 1
  BY <1>3, <1>4, <1>6
<1> QED BY <1>2, <1>5, <1>7 DEF Room

\* A pipeline for a period not reached before is the first.
LEMMA RoomFirst ==
  ASSUME Types, Types', Bounded, NEW r \in Req, NEW p \in Period, ~ Reached(r, p),
         NEW new, pipes' \subseteq pipes \cup {new}, applied' = applied
  PROVE  Room(r, p)'
<1>1. Waiting(r, p) = {}
  <2> SUFFICES ASSUME NEW q \in pipes, q.req = r, q.period = p PROVE FALSE
    BY DEF Waiting
  <2>1. PipeOK(q)
    BY DEF Types, Pipelines
  <2>2. pc[r] \notin {"new", "rejected"} /\ q.step \in 1 .. step[r]
    BY <2>1 DEF PipeOK
  <2>3. q.period = PeriodAt(q.req, q.step)
    BY PipeBody
  <2> QED BY <2>2, <2>3 DEF Reached
<1>2. PICK V : V = Waiting(r, p)'
  OBVIOUS
<1>3. V \subseteq {new}
  BY <1>1, <1>2 DEF Waiting
<1>4. Cardinality(V) \in Nat /\ Cardinality(V) <= 1
  <2>1. IsFiniteSet({new}) /\ Cardinality({new}) = 1
    BY FS_Singleton
  <2> QED BY <1>2, <1>3, <2>1, FS_Subset, NumbersNext
<1>5. applied'[<<r, p>>] = 0
  BY DEF Bounded
<1>6. faults' \in Nat
  BY NumbersNext
<1>7. 0 + Cardinality(V) <= faults' + 1
  BY <1>4, <1>6
<1> QED BY <1>2, <1>5, <1>7 DEF Room

\* A pipeline that a fault makes the client send again.
LEMMA RoomAgain ==
  ASSUME Types, Types', NEW r \in Req, NEW p \in Period, Room(r, p), faults' = faults + 1,
         NEW new, pipes' \subseteq pipes \cup {new}, applied' = applied
  PROVE  Room(r, p)'
<1>1. PICK W : W = Waiting(r, p)
  OBVIOUS
<1>2. PICK V : V = Waiting(r, p)'
  OBVIOUS
<1>3. /\ V \subseteq W \cup {new}
      /\ IsFiniteSet(W) /\ Cardinality(W) \in Nat /\ Cardinality(V) \in Nat
  BY <1>1, <1>2, Numbers, NumbersNext DEF Waiting
<1>4. /\ IsFiniteSet(W \cup {new}) /\ Cardinality(W \cup {new}) \in Nat
      /\ Cardinality(W \cup {new}) <= Cardinality(W) + 1
  <2>1. IsFiniteSet(W \cup {new})
    BY <1>3, FS_AddElement
  <2>2. CASE new \in W
    <3>1. W \cup {new} = W
      BY <2>2
    <3> QED BY <1>3, <2>1, <3>1
  <2>3. CASE new \notin W
    <3>1. Cardinality(W \cup {new}) = Cardinality(W) + 1
      BY <1>3, <2>3, FS_AddElement
    <3> QED BY <1>3, <2>1, <3>1
  <2> QED BY <2>2, <2>3
<1>5. Cardinality(V) <= Cardinality(W \cup {new})
  BY <1>3, <1>4, FS_Subset
<1>6. PICK n : n = applied[<<r, p>>]
  OBVIOUS
<1>7. n \in Nat /\ faults \in Nat /\ n + Cardinality(W) <= faults + 1
  BY <1>1, <1>6, Numbers DEF Room
<1>8. n + Cardinality(V) <= faults' + 1
  BY <1>3, <1>4, <1>5, <1>7
<1> QED BY <1>2, <1>6, <1>8 DEF Room

\* The steps of the handlers.
LEMMA RoomHandler ==
  ASSUME Types, Types', Bounded, [Next]_vars, NEW x \in Req,
         \/ Reject(x) \/ Accept(x) \/ Replied(x) \/ Resend(x) \/ GiveUp(x) \/ PublishScoreEvent(x),
         NEW r \in Req, NEW p \in Period
  PROVE  Room(r, p)'
<1>1. Room(r, p) /\ faults' >= faults /\ faults \in Nat
  BY FaultsStay, Numbers DEF Bounded, Room
<1>2. applied' = applied
  BY DEF Reject, Accept, Replied, Resend, GiveUp, PublishScoreEvent
<1>3. ASSUME pipes' \subseteq pipes
      PROVE  Room(r, p)'
  <2>1. Waiting(r, p)' \subseteq Waiting(r, p)
    BY <1>3 DEF Waiting
  <2> QED BY <1>1, <1>2, <2>1, RoomKept
<1>4. ASSUME NEW new, pipes' \subseteq pipes \cup {new}, new.req = x, r # x
      PROVE  Room(r, p)'
  <2>1. Waiting(r, p)' \subseteq Waiting(r, p)
    BY <1>4 DEF Waiting
  <2> QED BY <1>1, <1>2, <2>1, RoomKept
<1>5. CASE Reject(x) \/ GiveUp(x)
  BY <1>3, <1>5 DEF Reject, GiveUp
<1>6. CASE Replied(x)
  <2>1. pipes' \subseteq pipes
    BY <1>6 DEF Replied
  <2> QED BY <1>3, <2>1
<1>7. CASE Accept(x)
  <2>1. PICK new : new = Pipe(x, 1, 0, now)
    OBVIOUS
  <2>2. new.req = x /\ pc[x] = "new" /\ pipes' = pipes \cup {new}
    BY <1>7, <2>1, PipeFields DEF Accept
  <2>3. CASE r = x
    <3>1. ~ Reached(r, p)
      BY <2>2, <2>3 DEF Reached
    <3> QED BY <1>2, <2>2, <3>1, RoomFirst
  <2> QED BY <1>4, <2>2, <2>3
<1>8. CASE Resend(x)
  <2>1. PICK new : new = Pipe(x, step[x], try[x] + 1, at[x])
    OBVIOUS
  <2>2. pipes' = pipes \cup {new} /\ faults' = faults + 1
    BY <1>8, <2>1 DEF Resend
  <2> QED BY <1>1, <1>2, <2>2, RoomAgain
<1>9. CASE PublishScoreEvent(x)
  <2>1. step[x] \in 1 .. 3
    BY DEF Types, Requests, ReqOK
  <2>2. CASE ~ (step[x] < 3)
    <3>1. pipes' \subseteq pipes
      BY <1>9, <2>2, ThreeTypes DEF PublishScoreEvent
    <3> QED BY <1>3, <3>1
  <2>3. CASE step[x] < 3
    <3>1. PICK new : new = Pipe(x, step[x] + 1, 0, at[x])
      OBVIOUS
    <3>2. pipes' = pipes \cup {new}
      BY <1>9, <2>3, <3>1, ThreeTypes DEF PublishScoreEvent
    <3>3. new.req = x /\ new.period = PeriodAt(x, step[x] + 1)
      BY <3>1 DEF Pipe, PeriodAt
    <3>4. CASE r = x /\ p = new.period
      <4>1. ASSUME NEW k \in 1 .. step[x]
            PROVE  PeriodAt(x, k) # PeriodAt(x, step[x] + 1)
        <5>1. k \in 1 .. 3 /\ step[x] + 1 \in 1 .. 3 /\ k # step[x] + 1
          BY <2>1, <2>3
        <5> QED BY <5>1, PeriodsDiffer
      <4>2. ~ Reached(r, p)
        BY <3>3, <3>4, <4>1 DEF Reached
      <4> QED BY <1>2, <3>2, <4>2, RoomFirst
    <3>5. CASE r = x /\ p # new.period
      <4>1. Waiting(r, p)' \subseteq Waiting(r, p)
        BY <3>2, <3>5 DEF Waiting
      <4> QED BY <1>1, <1>2, <4>1, RoomKept
    <3> QED BY <1>4, <3>2, <3>3, <3>4, <3>5
  <2> QED BY <2>2, <2>3
<1> QED BY <1>5, <1>6, <1>7, <1>8, <1>9

\* ZINCRBY takes the place of a pipeline that waited.
LEMMA RoomZIncrBy ==
  ASSUME Types, Types', Bounded, NEW z \in pipes, ZIncrBy(z), NEW r \in Req, NEW p \in Period
  PROVE  Room(r, p)'
<1>1. PICK new : new = [z EXCEPT !.next = "mirror"]
  OBVIOUS
<1>2. PipeOK(z) /\ z.next = "zset" /\ pipes' = (pipes \ {z}) \cup {new} /\ faults' = faults
  BY <1>1 DEF Types, Pipelines, ZIncrBy
<1>3. new.next = "mirror"
  BY <1>1, <1>2, Advance
<1>4. Waiting(r, p)' = Waiting(r, p) \ {z}
  BY <1>2, <1>3 DEF Waiting
<1>5. Room(r, p) /\ faults \in Nat
  BY Numbers DEF Bounded, Room
<1>6. CASE r = z.req /\ p = z.period
  <2>1. PICK W : W = Waiting(r, p)
    OBVIOUS
  <2>2. z \in W /\ IsFiniteSet(W) /\ Cardinality(W) \in Nat
    BY <1>2, <1>6, <2>1, Numbers DEF Waiting
  <2>3. Cardinality(W \ {z}) = Cardinality(W) - 1
    BY <2>2, FS_RemoveElement
  <2>4. PICK n : n = applied[<<r, p>>]
    OBVIOUS
  <2>5. n \in Nat /\ n + Cardinality(W) <= faults + 1
    BY <1>5, <2>1, <2>4, Numbers DEF Room
  <2>6. applied'[<<r, p>>] = n + 1
    BY <1>6, <2>4, AppliedAfter
  <2>7. (n + 1) + (Cardinality(W) - 1) <= faults + 1
    BY <1>5, <2>2, <2>5
  <2> QED BY <1>2, <1>4, <2>1, <2>3, <2>6, <2>7 DEF Room
<1>7. CASE ~ (r = z.req /\ p = z.period)
  <2>1. applied'[<<r, p>>] = applied[<<r, p>>]
    BY <1>7, AppliedAfter
  <2>2. faults' >= faults
    BY <1>2, <1>5
  <2> QED BY <1>4, <1>5, <2>1, <2>2, RoomKept
<1> QED BY <1>6, <1>7

\* Every step.
LEMMA RoomStep ==
  ASSUME Types, Types', Bounded, [Next]_vars, NEW r \in Req, NEW p \in Period
  PROVE  Room(r, p)'
<1>1. Room(r, p) /\ faults' >= faults
  BY FaultsStay DEF Bounded, Room
<1>2. ASSUME applied' = applied, \A q \in pipes' \ pipes : q.next = "done"
      PROVE  Room(r, p)'
  <2>1. Waiting(r, p)' \subseteq Waiting(r, p)
    BY <1>2 DEF Waiting
  <2> QED BY <1>1, <1>2, <2>1, RoomKept
<1>3. CASE Tick \/ ChannelLost \/ Restart \/ UNCHANGED vars
  BY <1>2, <1>3 DEF Tick, ChannelLost, Restart, vars
<1>4. ASSUME NEW x \in Req,
             \/ Reject(x) \/ Accept(x) \/ Replied(x) \/ Resend(x) \/ GiveUp(x)
             \/ PublishScoreEvent(x)
      PROVE  Room(r, p)'
  BY <1>4, RoomHandler
<1>5. ASSUME NEW z \in pipes, ZIncrBy(z)
      PROVE  Room(r, p)'
  BY <1>5, RoomZIncrBy
<1>6. ASSUME NEW z \in pipes, IncrBy(z)
      PROVE  Room(r, p)'
  <2>1. PICK new : new = [z EXCEPT !.next = "done"]
    OBVIOUS
  <2>2. PipeOK(z) /\ pipes' = (pipes \ {z}) \cup {new} /\ applied' = applied
    BY <1>6, <2>1 DEF Types, Pipelines, IncrBy
  <2>3. new.next = "done"
    BY <2>1, <2>2, Advance
  <2> QED BY <1>2, <2>2, <2>3
<1>7. ASSUME NEW z \in pipes, Abandoned(z)
      PROVE  Room(r, p)'
  BY <1>2, <1>7 DEF Abandoned
<1> QED BY <1>3, <1>4, <1>5, <1>6, <1>7 DEF Next

\* Nothing is added too early, or too often, after any step.
LEMMA BoundedStep ==
  ASSUME Types, Types', Faultless, Bounded, [Next]_vars
  PROVE  Bounded'
<1> SUFFICES ASSUME NEW r \in Req, NEW p \in Period
             PROVE  /\ applied'[<<r, p>>] # 0 => Reached(r, p)'
                    /\ faults' = 0 /\ applied'[<<r, p>>] # 0 =>
                         \E k \in 1 .. 3 : Scored(r, k)' /\ PeriodAt(r, k)' = p
  BY RoomStep DEF Bounded, Room
<1> SUFFICES ASSUME applied'[<<r, p>>] # 0
             PROVE  /\ Reached(r, p)'
                    /\ faults' = 0 => \E k \in 1 .. 3 : Scored(r, k)' /\ PeriodAt(r, k)' = p
  OBVIOUS
<1>1. CASE Settled
  <2>1. applied[<<r, p>>] # 0
    BY <1>1 DEF Settled
  <2>2. Reached(r, p)'
    BY <2>1, ReachedStays DEF Bounded
  <2>3. ASSUME faults' = 0
        PROVE  \E k \in 1 .. 3 : Scored(r, k)' /\ PeriodAt(r, k)' = p
    <3>1. PICK k \in 1 .. 3 : Scored(r, k) /\ PeriodAt(r, k) = p
      BY <1>1, <2>1, <2>3 DEF Bounded, Settled
    <3>2. Scored(r, k)' /\ at'[r] = at[r]
      BY <1>1, <2>3, <3>1 DEF Settled
    <3>3. PeriodAt(r, k)' = p
      BY <3>1, <3>2 DEF PeriodAt
    <3> QED BY <3>2, <3>3
  <2> QED BY <2>2, <2>3
<1>2. ASSUME NEW z \in pipes, ZIncrBy(z)
      PROVE  /\ Reached(r, p)'
             /\ faults' = 0 => \E k \in 1 .. 3 : Scored(r, k)' /\ PeriodAt(r, k)' = p
  <2>1. at' = at /\ faults' = faults
    BY <1>2, ZIncrByScores
  <2>2. \A k : PeriodAt(r, k)' = PeriodAt(r, k)
    BY <2>1 DEF PeriodAt
  <2>3. CASE r = z.req /\ p = z.period
    <3>1. z.step \in 1 .. 3 /\ p = PeriodAt(r, z.step)
      BY <2>3, PipeBody
    <3>2. Scored(r, z.step)'
      BY <1>2, <2>3, <3>1, ZIncrByScores
    <3>3. PipeOK(z)
      BY DEF Types, Pipelines
    <3>4. pc[r] \notin {"new", "rejected"} /\ z.step \in 1 .. step[r]
      BY <2>3, <3>3 DEF PipeOK
    <3>5. Reached(r, p)
      BY <3>1, <3>4 DEF Reached
    <3>6. Reached(r, p)'
      BY <3>5, ReachedStays
    <3> QED BY <2>2, <3>1, <3>2, <3>6
  <2>4. CASE ~ (r = z.req /\ p = z.period)
    <3>1. applied[<<r, p>>] # 0
      BY <1>2, <2>4, AppliedAfter
    <3>2. Reached(r, p)'
      BY <3>1, ReachedStays DEF Bounded
    <3>3. ASSUME faults' = 0
          PROVE  \E k \in 1 .. 3 : Scored(r, k)' /\ PeriodAt(r, k)' = p
      <4>1. PICK k \in 1 .. 3 : Scored(r, k) /\ PeriodAt(r, k) = p
        BY <2>1, <3>1, <3>3 DEF Bounded
      <4>2. Scored(r, k)'
        BY <1>2, <4>1, ZIncrByScores
      <4> QED BY <2>2, <4>1, <4>2
    <3> QED BY <3>2, <3>3
  <2> QED BY <2>3, <2>4
<1> QED BY <1>1, <1>2, SettledStep

\* Without faults the handler waits for every pipeline there is.
LEMMA AllWaitedFor ==
  ASSUME Types, Types', Faultless, [Next]_vars, faults' = 0
  PROVE  \A q \in pipes' : Latest(q)'
<1>1. faults = 0 /\ faults \in Nat /\ faults' = faults
  BY FaultsStay, Bounds DEF Types, Shared
<1>2. \A q \in pipes : Latest(q) /\ PipeOK(q)
  BY <1>1 DEF Faultless, Types, Pipelines
<1>3. CASE Tick \/ UNCHANGED vars
  BY <1>2, <1>3 DEF Tick, vars, Latest
<1>4. CASE ChannelLost \/ Restart \/ \E r \in Req : Resend(r) \/ GiveUp(r)
  BY <1>1, <1>4 DEF ChannelLost, Restart, Resend, GiveUp
<1>5. ASSUME NEW r \in Req, Reject(r)
      PROVE  \A q \in pipes' : Latest(q)'
  <2>1. \A q \in pipes : q.req # r /\ q.req \in Req
    BY <1>2, <1>5 DEF Reject, Latest, PipeOK
  <2> QED BY <1>2, <1>5, <2>1 DEF Reject, Latest, Types, Requests
<1>6. ASSUME NEW r \in Req, Accept(r)
      PROVE  \A q \in pipes' : Latest(q)'
  <2>1. \A q \in pipes : q.req # r /\ q.req \in Req
    BY <1>2, <1>6 DEF Accept, Latest, PipeOK
  <2>2. PICK new : new = Pipe(r, 1, 0, now)
    OBVIOUS
  <2>3. new.req = r /\ new.step = 1 /\ new.try = 0 /\ pipes' = pipes \cup {new}
    BY <1>6, <2>2, PipeFields DEF Accept
  <2>4. pc' = [pc EXCEPT ![r] = "redis"] /\ step' = step /\ try' = try /\ pc[r] = "new"
    BY <1>6 DEF Accept
  <2>5. step[r] = 1 /\ try[r] = 0
    BY <2>4 DEF Types, Requests, ReqOK
  <2>6. Latest(new)'
    BY <2>3, <2>4, <2>5 DEF Latest, Types, Requests
  <2>7. \A q \in pipes : Latest(q)'
    BY <1>2, <2>1, <2>4 DEF Latest, Types, Requests
  <2> QED BY <2>3, <2>6, <2>7
<1>7. ASSUME NEW r \in Req, Replied(r)
      PROVE  \A q \in pipes' : Latest(q)'
  <2>1. PICK p \in pipes : p.req = r /\ Latest(p) /\ pipes' = pipes \ {p}
    BY <1>7 DEF Replied
  <2>2. pc' = [pc EXCEPT ![r] = "publish"] /\ step' = step /\ try' = try
    BY <1>7 DEF Replied
  <2>3. ASSUME NEW q \in pipes'
        PROVE  q \in pipes /\ q.req # r /\ q.req \in Req
    <3>1. q \in pipes /\ q # p
      BY <2>1
    <3>2. q.req \in Req
      BY <1>2, <3>1 DEF PipeOK
    <3>3. ~ (q.req = p.req /\ q.step = p.step /\ q.try = p.try)
      BY <3>1 DEF Types, Pipelines
    <3>4. Latest(q) /\ Latest(p)
      BY <1>2, <3>1
    <3>5. q.req # p.req
      BY <3>3, <3>4 DEF Latest
    <3> QED BY <2>1, <3>1, <3>2, <3>5
  <2>4. \A x \in Req : x # r => pc'[x] = pc[x]
    BY <2>2 DEF Types, Requests
  <2> QED BY <1>2, <2>2, <2>3, <2>4 DEF Latest
<1>8. ASSUME NEW r \in Req, PublishScoreEvent(r)
      PROVE  \A q \in pipes' : Latest(q)'
  <2>1. pc[r] = "publish"
    BY <1>8 DEF PublishScoreEvent
  <2>2. \A q \in pipes : q.req # r /\ q.req \in Req
    BY <1>2, <2>1 DEF Latest, PipeOK
  <2>3. PICK new : new = Pipe(r, step[r] + 1, 0, at[r])
    OBVIOUS
  <2>4. new.req = r /\ new.step = step[r] + 1 /\ new.try = 0
    BY <2>3, PipeFields
  <2>5. \/ /\ step' = [step EXCEPT ![r] = @ + 1] /\ try' = [try EXCEPT ![r] = 0]
           /\ pipes' = pipes \cup {new} /\ pc' = [pc EXCEPT ![r] = "redis"]
        \/ step' = step /\ try' = try /\ pipes' = pipes /\ pc' = [pc EXCEPT ![r] = "ok"]
    BY <1>8, <2>3 DEF PublishScoreEvent
  <2>6. \A x \in Req : x # r => pc'[x] = pc[x] /\ step'[x] = step[x] /\ try'[x] = try[x]
    BY <2>5 DEF Types, Requests
  <2>7. \A q \in pipes : Latest(q)'
    BY <1>2, <2>2, <2>6 DEF Latest
  <2>8. pipes' = pipes \cup {new} => Latest(new)' \/ pipes' = pipes
    BY <2>4, <2>5 DEF Latest, Types, Requests
  <2> QED BY <2>5, <2>7, <2>8
<1>9. ASSUME NEW p \in pipes, Abandoned(p)
      PROVE  FALSE
  BY <1>2, <1>9 DEF Abandoned
<1>10. ASSUME NEW p \in pipes, NEW x, pipes' = (pipes \ {p}) \cup {[p EXCEPT !.next = x]},
              pc' = pc, step' = step, try' = try
       PROVE  \A q \in pipes' : Latest(q)'
  <2>1. PICK new : new = [p EXCEPT !.next = x]
    OBVIOUS
  <2>2. new.req = p.req /\ new.step = p.step /\ new.try = p.try
    BY <1>2, <2>1, Advance
  <2>3. Latest(new)'
    BY <1>2, <1>10, <2>2 DEF Latest
  <2> QED BY <1>2, <1>10, <2>1, <2>3 DEF Latest
<1>11. ASSUME NEW p \in pipes, ZIncrBy(p) \/ IncrBy(p)
       PROVE  \A q \in pipes' : Latest(q)'
  <2>1. pc' = pc /\ step' = step /\ try' = try
    BY <1>11 DEF ZIncrBy, IncrBy
  <2>2. \E x : pipes' = (pipes \ {p}) \cup {[p EXCEPT !.next = x]}
    BY <1>11 DEF ZIncrBy, IncrBy
  <2> QED BY <1>10, <2>1, <2>2
<1> QED BY <1>3, <1>4, <1>5, <1>6, <1>7, <1>8, <1>9, <1>11 DEF Next

\* Without faults every period that is done with has its event.
LEMMA AllPublished ==
  ASSUME Types, Events, Faultless, [Next]_vars, faults' = 0, channel = "open",
         NEW r \in Req, NEW k \in 1 .. 3, Done(r, k)'
  PROVE  \E i \in DOMAIN sent'[r] : sent'[r][i].period = PeriodAt(r, k)'
<1>1. faults = 0
  BY FaultsStay
<1>2. ASSUME Done(r, k)
      PROVE  \E i \in DOMAIN sent[r] : sent[r][i].period = PeriodAt(r, k)
  BY <1>1, <1>2 DEF Faultless
<1>3. CASE Untouched
  <2>1. Done(r, k) /\ sent' = sent
    BY <1>3, StillDone DEF Untouched
  <2>2. pc[r] # "new"
    BY <2>1 DEF Done, Types, Requests, ReqOK
  <2>3. PeriodAt(r, k)' = PeriodAt(r, k)
    BY <1>3, <2>2 DEF Untouched, PeriodAt
  <2> QED BY <1>2, <2>1, <2>3
<1>4. ASSUME NEW q \in Req, PublishScoreEvent(q)
      PROVE  \E i \in DOMAIN sent'[r] : sent'[r][i].period = PeriodAt(r, k)'
  <2>1. PICK e : e = [period |-> PeriodAt(q, step[q]), delta |-> DeltaOf[q], timestamp |-> at[q]]
    OBVIOUS
  <2>2. sent' = [sent EXCEPT ![q] = Append(@, e)]
    BY <1>4, <2>1 DEF PublishScoreEvent
  <2>3. at' = at /\ e.period = PeriodAt(q, step[q])
    BY <1>4, <2>1, Publishing
  <2>4. PeriodAt(r, k)' = PeriodAt(r, k)
    BY <2>3 DEF PeriodAt
  <2>5. CASE r # q
    <3>1. Done(r, k) /\ sent'[r] = sent[r]
      BY <1>4, <2>2, <2>5, Publishing DEF Events
    <3> QED BY <1>2, <2>4, <3>1
  <2>6. CASE r = q
    <3>1. PICK s \in Seq(Event) : s = sent[r]
      BY DEF Events
    <3>2. sent'[r] = Append(s, e)
      BY <2>2, <2>6, <3>1 DEF Events
    <3>3. /\ DOMAIN sent'[r] = 1 .. Len(s) + 1 /\ Len(s) \in Nat /\ DOMAIN s = 1 .. Len(s)
          /\ sent'[r][Len(s) + 1] = e
          /\ \A i \in 1 .. Len(s) : sent'[r][i] = s[i]
      BY <3>1, <3>2
    <3>4. CASE k = step[r]
      BY <2>3, <2>4, <2>6, <3>3, <3>4
    <3>5. CASE k # step[r]
      <4>1. k <= step[r] /\ step[r] \in 1 .. 3
        BY <1>4, <2>6, Publishing
      <4>2. Done(r, k)
        BY <3>5, <4>1 DEF Done
      <4>3. PICK i \in DOMAIN s : s[i].period = PeriodAt(r, k)
        BY <1>2, <3>1, <4>2
      <4> QED BY <2>4, <3>3, <4>3
    <3> QED BY <3>4, <3>5
  <2> QED BY <2>5, <2>6
<1> QED BY <1>3, <1>4, Either

\* Without faults nothing is given up.
LEMMA FaultlessStep ==
  ASSUME Types, Types', Events, Faultless, [Next]_vars
  PROVE  Faultless'
<1> SUFFICES ASSUME faults' = 0
             PROVE  /\ channel' = "open"
                    /\ \A q \in pipes' : Latest(q)'
                    /\ \A r \in Req : /\ pc'[r] \notin {"failed", "aborted"}
                                      /\ \A k \in 1 .. 3 : Done(r, k)' =>
                                           \E i \in DOMAIN sent'[r] :
                                             sent'[r][i].period = PeriodAt(r, k)'
  BY DEF Faultless
<1>1. faults = 0 /\ faults' = faults /\ faults \in Nat
  BY FaultsStay, Bounds DEF Types, Shared
<1>2. /\ channel = "open" /\ \A r \in Req : pc[r] \notin {"failed", "aborted"}
  BY <1>1 DEF Faultless
<1>3. channel' = channel /\ \A r \in Req : pc'[r] = pc[r] \/ pc'[r] \notin {"failed", "aborted"}
  <2> USE DEF Types, Requests
  <2>1. CASE Tick \/ UNCHANGED vars
    BY <2>1 DEF Tick, vars
  <2>2. CASE ChannelLost \/ Restart \/ \E r \in Req : Resend(r) \/ GiveUp(r)
    BY <1>1, <2>2 DEF ChannelLost, Restart, Resend, GiveUp
  <2>3. ASSUME NEW r \in Req, Reject(r) \/ Accept(r) \/ Replied(r) \/ PublishScoreEvent(r)
        PROVE  /\ channel' = channel
               /\ \A q \in Req : pc'[q] = pc[q] \/ pc'[q] \notin {"failed", "aborted"}
    <3>1. channel' = channel
      BY <2>3 DEF Reject, Accept, Replied, PublishScoreEvent
    <3>2. \E x \in {"rejected", "redis", "publish", "ok"} : pc' = [pc EXCEPT ![r] = x]
      BY <2>3 DEF Reject, Accept, Replied, PublishScoreEvent
    <3> QED BY <3>1, <3>2
  <2>4. ASSUME NEW p \in pipes, ZIncrBy(p) \/ IncrBy(p) \/ Abandoned(p)
        PROVE  channel' = channel /\ pc' = pc
    BY <2>4 DEF ZIncrBy, IncrBy, Abandoned
  <2> QED BY <2>1, <2>2, <2>3, <2>4 DEF Next
<1>4. \A q \in pipes' : Latest(q)'
  BY AllWaitedFor
<1>5. \A r \in Req : \A k \in 1 .. 3 : Done(r, k)' =>
        \E i \in DOMAIN sent'[r] : sent'[r][i].period = PeriodAt(r, k)'
  BY <1>2, AllPublished
<1> QED BY <1>2, <1>3, <1>4, <1>5

\* At first nobody has scored.
LEMMA LedgerInit ==
  ASSUME Init
  PROVE  Events /\ Faultless /\ Ledger
<1>1. \A r \in Req : \A k \in 1 .. 3 : ~ Scored(r, k) /\ ~ Done(r, k)
  BY DEF Init, Scored, Done
<1>2. Events
  BY DEF Init, Events, SentOK
<1>3. Faultless
  <2>1. \A r \in Req : pc[r] = "new"
    BY DEF Init
  <2>2. channel = "open" /\ pipes = {}
    BY DEF Init
  <2> QED BY <1>1, <2>1, <2>2 DEF Faultless
<1>4. Tallied
  <2> SUFFICES ASSUME NEW g \in Region, NEW p \in Period, NEW u \in User
               PROVE  zset[<<g, p, u>>] = SumFunctionOnSet(Tally(g, p, u), Req)
    BY DEF Tallied
  <2>1. PICK f : f = Tally(g, p, u)
    OBVIOUS
  <2>2. \A r \in Req : f[r] = 0
    <3> TAKE r \in Req
    <3>1. <<r, p>> \in Req \X Period
      OBVIOUS
    <3>2. applied[<<r, p>>] = 0 /\ 0 * DeltaOf[r] = 0
      BY <3>1, Body DEF Init
    <3> QED BY <2>1, <3>2 DEF Tally
  <2>3. <<g, p, u>> \in Region \X Period \X User
    OBVIOUS
  <2>4. zset[<<g, p, u>>] = 0
    BY <2>3 DEF Init
  <2> QED BY <2>1, <2>2, <2>4, Finite, SumOfZeros
<1>5. Covered
  BY <1>1 DEF Covered
<1>6. Bounded
  <2> SUFFICES ASSUME NEW r \in Req, NEW p \in Period
               PROVE  applied[<<r, p>>] = 0 /\ 0 + Cardinality(Waiting(r, p)) <= faults + 1
    BY DEF Bounded
  <2>1. <<r, p>> \in Req \X Period
    OBVIOUS
  <2>2. applied[<<r, p>>] = 0 /\ faults = 0 /\ Waiting(r, p) = {}
    BY <2>1 DEF Init, Waiting
  <2> QED BY <2>2, FS_EmptySet
<1> QED BY <1>2, <1>3, <1>4, <1>5, <1>6 DEF Ledger

\* The ledger is an invariant.
LEMMA LedgerStep ==
  ASSUME Accounts, [Next]_vars
  PROVE  Accounts'
<1>1. Types'
  BY TypesStep DEF Accounts
<1>2. Events'
  BY Either, EventsKept, EventsPublish DEF Accounts
<1>3. Faultless'
  BY <1>1, FaultlessStep DEF Accounts
<1>4. Tallied'
  BY <1>1, SettledStep, TalliedKept, TalliedGrows DEF Accounts, Ledger
<1>5. Covered'
  BY SettledStep, CoveredKept, CoveredGrows DEF Accounts, Ledger
<1>6. Bounded'
  BY <1>1, BoundedStep DEF Accounts, Ledger
<1> QED BY <1>1, <1>2, <1>3, <1>4, <1>5, <1>6 DEF Accounts, Ledger

-----------------------------------------------------------------------------
(* What the ledger says.                                                   *)

\* The events of a request for a period.
Named(r, p) == {i \in DOMAIN sent[r] : sent[r][i].period = p}

\* There is one at most, and one only if the request is done with the period.
LEMMA NamedOnce ==
  ASSUME Accounts, NEW r \in Req, NEW p
  PROVE  /\ Cardinality(Named(r, p)) = IF Named(r, p) = {} THEN 0 ELSE 1
         /\ Named(r, p) # {} => \E k \in 1 .. 3 : PeriodAt(r, k) = p /\ Done(r, k)
         /\ faults = 0 /\ (\E k \in 1 .. 3 : PeriodAt(r, k) = p /\ Done(r, k)) => Named(r, p) # {}
<1>1. SentOK(r) /\ sent[r] \in Seq(Event)
  BY DEF Accounts, Events
<1>2. ASSUME NEW i \in Named(r, p)
      PROVE  \E k \in 1 .. 3 : PeriodAt(r, k) = p /\ Done(r, k)
  BY <1>1, <1>2 DEF Named, SentOK
<1>3. ASSUME NEW i \in Named(r, p), NEW j \in Named(r, p)
      PROVE  i = j
  <2>1. PICK k \in 1 .. 3 : PeriodAt(r, k) = p
    BY <1>2, <1>3
  <2>2. i \in Nat /\ j \in Nat
    BY <1>1 DEF Named
  <2>3. ~ (i < j) /\ ~ (j < i)
    BY <1>1, <2>1 DEF Named, SentOK
  <2> QED BY <2>2, <2>3
<1>4. Cardinality(Named(r, p)) = IF Named(r, p) = {} THEN 0 ELSE 1
  <2>1. CASE Named(r, p) = {}
    BY <2>1, FS_EmptySet
  <2>2. CASE Named(r, p) # {}
    <3>1. PICK i \in Named(r, p) : TRUE
      BY <2>2
    <3>2. Named(r, p) = {i}
      BY <1>3, <3>1
    <3> QED BY <2>2, <3>2, FS_Singleton
  <2> QED BY <2>1, <2>2
<1>5. ASSUME faults = 0, NEW k \in 1 .. 3, PeriodAt(r, k) = p, Done(r, k)
      PROVE  Named(r, p) # {}
  BY <1>5 DEF Accounts, Faultless, Named
<1> QED BY <1>2, <1>4, <1>5

\* What the requests add to a leaderboard without faults.
Share(g, p, u) ==
  [r \in Req |-> IF /\ RegionOf[r] = g /\ UserOf[r] = u
                    /\ \E k \in 1 .. 3 : Scored(r, k) /\ PeriodAt(r, k) = p
                 THEN DeltaOf[r] ELSE 0]

\* The share of a request on a leaderboard.
LEMMA ShareIs ==
  ASSUME NEW g, NEW p, NEW u, NEW r \in Req
  PROVE  /\ Share(g, p, u)[r] = IF /\ RegionOf[r] = g /\ UserOf[r] = u
                                   /\ \E k \in 1 .. 3 : Scored(r, k) /\ PeriodAt(r, k) = p
                                THEN DeltaOf[r] ELSE 0
         /\ Share(g, p, u)[r] \in Int
<1>1. Share(g, p, u)[r] = IF /\ RegionOf[r] = g /\ UserOf[r] = u
                             /\ \E k \in 1 .. 3 : Scored(r, k) /\ PeriodAt(r, k) = p
                          THEN DeltaOf[r] ELSE 0
  BY DEF Share
<1>2. DeltaOf[r] \in Int
  BY Body
<1> QED BY <1>1, <1>2

\* Without faults every increment is made once.
LEMMA TallyShare ==
  ASSUME Accounts, faults = 0, NEW g, NEW p \in Period, NEW u, NEW r \in Req
  PROVE  Tally(g, p, u)[r] = Share(g, p, u)[r]
<1>1. PICK n : n = applied[<<r, p>>]
  OBVIOUS
<1>2. PICK d : d = DeltaOf[r]
  OBVIOUS
<1>3. n \in Nat /\ d \in Int
  BY <1>1, <1>2, Numbers DEF Accounts
<1>4. n <= 1
  <2>1. n + Cardinality(Waiting(r, p)) <= faults + 1 /\ Cardinality(Waiting(r, p)) \in Nat
    BY <1>1, Numbers DEF Accounts, Ledger, Bounded
  <2> QED BY <1>3, <2>1
<1>5. Tally(g, p, u)[r] = IF RegionOf[r] = g /\ UserOf[r] = u THEN n * d ELSE 0
  BY <1>1, <1>2, TallyIs DEF Accounts
<1>6. CASE n = 0
  <2>1. ASSUME NEW k \in 1 .. 3, Scored(r, k), PeriodAt(r, k) = p
        PROVE  FALSE
    <3>1. applied[<<r, PeriodAt(r, k)>>] >= 1
      BY <2>1 DEF Accounts, Ledger, Covered
    <3>2. n >= 1
      BY <1>1, <2>1, <3>1
    <3> QED BY <1>6, <3>2
  <2>2. Share(g, p, u)[r] = 0
    BY <2>1, ShareIs
  <2>3. n * d = 0
    BY <1>3, <1>6
  <2> QED BY <1>5, <2>2, <2>3
<1>7. CASE n = 1
  <2>1. \E k \in 1 .. 3 : Scored(r, k) /\ PeriodAt(r, k) = p
    <3>1. applied[<<r, p>>] # 0
      BY <1>1, <1>7
    <3>2. Bounded
      BY DEF Accounts, Ledger
    <3> QED BY <3>1, <3>2 DEF Bounded
  <2>2. n * d = d
    BY <1>3, <1>7
  <2> QED BY <1>2, <1>5, <2>1, <2>2, ShareIs
<1> QED BY <1>3, <1>4, <1>6, <1>7

\* The events of a request replayed on a leaderboard.
Replayed(g, p, u) ==
  [r \in Req |-> IF RegionOf[r] = g /\ UserOf[r] = u /\ Named(r, p) # {} THEN DeltaOf[r] ELSE 0]

\* The replay is their sum.
LEMMA ReplayIs ==
  ASSUME Accounts, NEW g, NEW p, NEW u
  PROVE  /\ Replay(Req, g, p, u) = SumFunctionOnSet(Replayed(g, p, u), Req)
         /\ \A r \in Req : Replayed(g, p, u)[r] \in Int
<1>1. PICK n : n = [r \in Req |-> IF RegionOf[r] = g /\ UserOf[r] = u
                                  THEN Cardinality(Named(r, p)) ELSE 0]
  OBVIOUS
<1>2. Replay(Req, g, p, u) = SumDelta(n)
  <2>1. n = [r \in Req |-> IF r \in Req /\ RegionOf[r] = g /\ UserOf[r] = u
                           THEN Cardinality({i \in DOMAIN sent[r] : sent[r][i].period = p}) ELSE 0]
    BY <1>1 DEF Named
  <2> QED BY <2>1 DEF Replay
<1>3. \A r \in Req : n[r] \in {0, 1} /\ (n[r] = 1 <=> RegionOf[r] = g /\ UserOf[r] = u /\ Named(r, p) # {})
  BY <1>1, NamedOnce
<1>4. n \in [Req -> Int]
  BY <1>1, <1>3
<1>5. PICK w : w = [r \in Req |-> n[r] * DeltaOf[r]]
  OBVIOUS
<1>6. PICK v : v = Replayed(g, p, u)
  OBVIOUS
<1>7. \A r \in Req : v[r] = w[r] /\ v[r] \in Int
  <2> TAKE r \in Req
  <2>1. DeltaOf[r] \in Int
    BY Body
  <2>2. v[r] = IF n[r] = 1 THEN DeltaOf[r] ELSE 0
    BY <1>3, <1>6 DEF Replayed
  <2>3. w[r] = n[r] * DeltaOf[r]
    BY <1>5
  <2>4. 1 * DeltaOf[r] = DeltaOf[r] /\ 0 * DeltaOf[r] = 0
    BY <2>1
  <2> QED BY <1>3, <2>1, <2>2, <2>3, <2>4
<1>8. SumDelta(n) = SumFunctionOnSet(w, Req)
  BY <1>4, <1>5, SumDeltaIs
<1>9. SumFunctionOnSet(v, Req) = SumFunctionOnSet(w, Req)
  BY <1>7, Finite, SumAgree
<1> QED BY <1>2, <1>6, <1>7, <1>8, <1>9

\* What has an event was scored.
LEMMA ReplayedShare ==
  ASSUME Accounts, NEW g, NEW p, NEW u, NEW r \in Req
  PROVE  /\ Replayed(g, p, u)[r] # 0 => Replayed(g, p, u)[r] = Share(g, p, u)[r]
         /\ faults = 0 /\ pc[r] \in Answers => Replayed(g, p, u)[r] = Share(g, p, u)[r]
<1>1. Replayed(g, p, u)[r] = IF RegionOf[r] = g /\ UserOf[r] = u /\ Named(r, p) # {}
                             THEN DeltaOf[r] ELSE 0
  BY DEF Replayed
<1>2. ASSUME Named(r, p) # {}
      PROVE  \E k \in 1 .. 3 : Scored(r, k) /\ PeriodAt(r, k) = p
  BY <1>2, NamedOnce DEF Scored
<1>3. ASSUME faults = 0, pc[r] \in Answers, NEW k \in 1 .. 3, Scored(r, k), PeriodAt(r, k) = p
      PROVE  Named(r, p) # {}
  <2>1. \A q \in pipes : Latest(q)
    BY <1>3 DEF Accounts, Faultless
  <2>2. pc[r] # "redis" /\ pc[r] # "publish"
    BY <1>3 DEF Answers
  <2>3. \A q \in pipes : q.req # r
    BY <2>1, <2>2 DEF Latest
  <2>4. Done(r, k)
    BY <1>3, <2>2, <2>3 DEF Scored
  <2> QED BY <1>3, <2>4, NamedOnce
<1> QED BY <1>1, <1>2, <1>3, ShareIs

\* The scores of one leaderboard without faults.
LEMMA ShareSum ==
  ASSUME Accounts, faults = 0, NEW g \in Region, NEW p \in Period, NEW u \in User
  PROVE  SumFunctionOnSet(Share(g, p, u), Req) = zset[<<g, p, u>>]
<1>1. PICK f : f = Share(g, p, u)
  OBVIOUS
<1>2. PICK h : h = Tally(g, p, u)
  OBVIOUS
<1>3. \A r \in Req : f[r] = h[r]
  BY <1>1, <1>2, TallyShare
<1>4. SumFunctionOnSet(f, Req) = SumFunctionOnSet(h, Req)
  BY <1>3, Finite, SumAgree
<1> QED BY <1>1, <1>2, <1>4 DEF Accounts, Ledger, Tallied

\* What was published was added before.
LEMMA ReplayImplied ==
  ASSUME Accounts
  PROVE  ReplayNeverAhead
<1>1. ASSUME NEW g \in Region, NEW p \in Period, NEW u \in User
      PROVE  zset[<<g, p, u>>] =
               SumDelta([r \in Req |->
                 IF RegionOf[r] = g /\ UserOf[r] = u THEN applied[<<r, p>>] ELSE 0])
  <2>1. PICK n : n = [r \in Req |->
                       IF RegionOf[r] = g /\ UserOf[r] = u THEN applied[<<r, p>>] ELSE 0]
    OBVIOUS
  <2>2. \A r \in Req : applied[<<r, p>>] \in Nat
    BY Numbers DEF Accounts
  <2>3. n \in [Req -> Int]
    BY <2>1, <2>2
  <2>4. PICK w : w = [r \in Req |-> n[r] * DeltaOf[r]]
    OBVIOUS
  <2>5. PICK h : h = Tally(g, p, u)
    OBVIOUS
  <2>6. \A r \in Req : w[r] = h[r]
    <3> TAKE r \in Req
    <3>1. DeltaOf[r] \in Int /\ 0 * DeltaOf[r] = 0
      BY Body
    <3>2. h[r] = IF RegionOf[r] = g /\ UserOf[r] = u
                 THEN applied[<<r, p>>] * DeltaOf[r] ELSE 0
      BY <2>5, TallyIs DEF Accounts
    <3>3. w[r] = n[r] * DeltaOf[r]
      BY <2>4
    <3> QED BY <2>1, <3>1, <3>2, <3>3
  <2>7. SumDelta(n) = SumFunctionOnSet(w, Req)
    BY <2>3, <2>4, SumDeltaIs
  <2>8. SumFunctionOnSet(w, Req) = SumFunctionOnSet(h, Req)
    BY <2>6, Finite, SumAgree
  <2>9. zset[<<g, p, u>>] = SumFunctionOnSet(h, Req)
    BY <2>5 DEF Accounts, Ledger, Tallied
  <2> QED BY <2>1, <2>7, <2>8, <2>9
<1>2. ASSUME NEW r \in Req, NEW p \in Period
      PROVE  Cardinality(Named(r, p)) <= applied[<<r, p>>]
  <2>1. applied[<<r, p>>] \in Nat
    BY Numbers DEF Accounts
  <2>2. Cardinality(Named(r, p)) = IF Named(r, p) = {} THEN 0 ELSE 1
    BY NamedOnce
  <2>3. CASE Named(r, p) # {}
    <3>1. PICK k \in 1 .. 3 : PeriodAt(r, k) = p /\ Done(r, k)
      BY <2>3, NamedOnce
    <3>2. Scored(r, k)
      BY <3>1 DEF Scored
    <3>3. applied[<<r, p>>] >= 1
      BY <3>1, <3>2 DEF Accounts, Ledger, Covered
    <3> QED BY <2>1, <2>2, <2>3, <3>3
  <2> QED BY <2>1, <2>2, <2>3
<1> QED BY <1>1, <1>2 DEF ReplayNeverAhead, Named

\* The requests answered 200, and what they asked for on a leaderboard.
Counting(g, p, u) == {r \in Req : Answered200(r, g, p, u)}

\* Their deltas, summed over all requests.
LEMMA AnsweredIs ==
  ASSUME Accounts, NEW g, NEW p, NEW u, NEW w,
         w = [r \in Req |-> IF r \in Counting(g, p, u) THEN DeltaOf[r] ELSE 0]
  PROVE  /\ SumFunctionOnSet(DeltaOf, Counting(g, p, u)) = SumFunctionOnSet(w, Req)
         /\ \A r \in Req : w[r] \in Int
<1>1. PICK A : A = Counting(g, p, u)
  OBVIOUS
<1>2. A \in SUBSET Req
  BY <1>1 DEF Counting
<1>3. \A r \in Req : w[r] \in Int
  BY Body
<1>4. \A r \in A : DeltaOf[r] = w[r]
  BY <1>1, <1>2
<1>5. \A r \in Req \ A : w[r] = 0
  BY <1>1
<1>6. IsFiniteSet(A)
  BY <1>2, Finite, FS_Subset
<1>7. SumFunctionOnSet(DeltaOf, A) = SumFunctionOnSet(w, A)
  BY <1>4, <1>6, SumAgree
<1>8. SumFunctionOnSet(w, Req) = SumFunctionOnSet(w, A)
  BY <1>2, <1>3, <1>5, Finite, SumZeros
<1> QED BY <1>1, <1>3, <1>7, <1>8

\* A request answered 200 has scored; without faults nobody else has.
LEMMA AnsweredShare ==
  ASSUME Accounts, NEW g, NEW p, NEW u, NEW r \in Req
  PROVE  /\ r \in Counting(g, p, u) => Share(g, p, u)[r] = DeltaOf[r]
         /\ faults = 0 /\ pc[r] \in Answers /\ r \notin Counting(g, p, u) => Share(g, p, u)[r] = 0
<1>1. ASSUME r \in Counting(g, p, u)
      PROVE  Share(g, p, u)[r] = DeltaOf[r]
  <2>1. PICK k \in 1 .. 3 : PeriodAt(r, k) = p
    BY <1>1, ThreeTypes DEF Counting, Answered200
  <2>2. pc[r] = "ok" /\ RegionOf[r] = g /\ UserOf[r] = u
    BY <1>1 DEF Counting, Answered200
  <2>3. Scored(r, k)
    BY <2>2 DEF Scored, Done
  <2> QED BY <2>1, <2>2, <2>3, ShareIs
<1>2. ASSUME faults = 0, pc[r] \in Answers, Share(g, p, u)[r] # 0
      PROVE  r \in Counting(g, p, u)
  <2>1. PICK k \in 1 .. 3 : Scored(r, k) /\ PeriodAt(r, k) = p /\ RegionOf[r] = g /\ UserOf[r] = u
    BY <1>2, ShareIs
  <2>2. pc[r] \notin {"failed", "aborted"}
    BY <1>2 DEF Accounts, Faultless
  <2>3. pc[r] # "rejected"
    BY <2>1, ScoredAccepted DEF Accounts
  <2>4. pc[r] = "ok"
    BY <1>2, <2>2, <2>3 DEF Answers
  <2> QED BY <2>1, <2>4, ThreeTypes DEF Counting, Answered200
<1> QED BY <1>1, <1>2

\* Who was told 200 has been counted.
LEMMA OkImplied ==
  ASSUME Accounts
  PROVE  OkMeansScored
<1> SUFFICES ASSUME NEW r \in Req, pc[r] = "ok", NEW k \in 1 .. 3
             PROVE  applied[<<r, PeriodAt(r, k)>>] \in 1 .. faults + 1
  BY ThreeTypes DEF OkMeansScored
<1>1. PICK p : p = PeriodAt(r, k)
  OBVIOUS
<1>2. Scored(r, k)
  BY DEF Scored, Done
<1>3. p \in Period
  BY <1>1, <1>2, ScoredPeriod DEF Accounts
<1>4. applied[<<r, p>>] >= 1
  BY <1>1, <1>2 DEF Accounts, Ledger, Covered
<1>5. /\ applied[<<r, p>>] \in Nat /\ faults \in Nat /\ Cardinality(Waiting(r, p)) \in Nat
      /\ applied[<<r, p>>] + Cardinality(Waiting(r, p)) <= faults + 1
  BY <1>3, Numbers DEF Accounts, Ledger, Bounded
<1>6. applied[<<r, p>>] \in 1 .. faults + 1
  BY <1>4, <1>5
<1> QED BY <1>1, <1>6

\* Without faults the scores are what was asked for, and the replay of the events.
LEMMA ExactImplied ==
  ASSUME Accounts
  PROVE  ExactWithoutFaults
<1> SUFFICES ASSUME faults = 0, \A r \in Req : pc[r] \in Answers,
                    NEW g \in Region, NEW p \in Period, NEW u \in User
             PROVE  /\ Replay(Req, g, p, u) = zset[<<g, p, u>>]
                    /\ zset[<<g, p, u>>] = SumFunctionOnSet(DeltaOf, Counting(g, p, u))
  BY DEF ExactWithoutFaults, Counting
<1>1. PICK f : f = Share(g, p, u)
  OBVIOUS
<1>2. SumFunctionOnSet(f, Req) = zset[<<g, p, u>>]
  BY <1>1, ShareSum
<1>3. Replay(Req, g, p, u) = SumFunctionOnSet(f, Req)
  <2>1. PICK v : v = Replayed(g, p, u)
    OBVIOUS
  <2>2. \A r \in Req : v[r] = f[r]
    BY <1>1, <2>1, ReplayedShare
  <2>3. SumFunctionOnSet(v, Req) = SumFunctionOnSet(f, Req)
    BY <2>2, Finite, SumAgree
  <2> QED BY <2>1, <2>3, ReplayIs
<1>4. SumFunctionOnSet(DeltaOf, Counting(g, p, u)) = SumFunctionOnSet(f, Req)
  <2>1. PICK w : w = [r \in Req |-> IF r \in Counting(g, p, u) THEN DeltaOf[r] ELSE 0]
    OBVIOUS
  <2>2. \A r \in Req : w[r] = f[r]
    BY <1>1, <2>1, AnsweredShare
  <2>3. SumFunctionOnSet(w, Req) = SumFunctionOnSet(f, Req)
    BY <2>2, Finite, SumAgree
  <2> QED BY <2>1, <2>3, AnsweredIs
<1> QED BY <1>2, <1>3, <1>4

\* The ledger holds in every behaviour.
LEMMA AccountsKept == Spec => []Accounts
<1>1. Init => Accounts
  BY TypesInit, LedgerInit DEF Accounts
<1>2. Accounts /\ [Next]_vars => Accounts'
  BY LedgerStep
<1> QED BY <1>1, <1>2, PTL DEF Spec

(* A leaderboard holds the increments Redis ran for it and nothing else,   *)
(* and publishScoreEvent comes after IncrementScore succeeded: however     *)
(* often pipelines are sent again and wherever the process stops, no       *)
(* replay of the published events credits a request with more increments   *)
(* than Redis has run for it, for deltas of both signs.                    *)
THEOREM ReplayIsNeverAhead == Spec => []ReplayNeverAhead
<1>1. Accounts => ReplayNeverAhead
  BY ReplayImplied
<1> QED BY <1>1, AccountsKept, PTL

(* A request answered 200 has been counted on the three leaderboards of    *)
(* its instant, whatever was resent, lost or restarted meanwhile, and on   *)
(* each at most once more than there were faults, for deltas of both signs. *)
THEOREM OkIsScored == Spec => []OkMeansScored
<1>1. Accounts => OkMeansScored
  BY OkImplied
<1> QED BY <1>1, AccountsKept, PTL

(* Without faults, once the requests are answered, every leaderboard is    *)
(* exactly what was asked for, and the events of the requests replay to    *)
(* it, for deltas of any sign.                                             *)
THEOREM ExactAccounts == Spec => []ExactWithoutFaults
<1>1. Accounts => ExactWithoutFaults
  BY ExactImplied
<1> QED BY <1>1, AccountsKept, PTL
=============================================================================
