-------------------------- MODULE AggregatorProofs --------------------------
(***************************************************************************)
(* The aggregator for every finite set of users, every finite set of       *)
(* regions, every cut-off with perRegionN >= globalTopN and score changes  *)
(* of either sign, however many updates there are and whatever fails.      *)
(***************************************************************************)
EXTENDS Aggregator, RabbitProofs, FiniteSetTheorems, WellFoundedInduction

-----------------------------------------------------------------------------
(* Numbers and sets.                                                       *)

\* A set of numbers that is not empty has a least one.
LEMMA Least ==
  ASSUME NEW S, S \subseteq Nat, S # {}
  PROVE  \E x \in S : \A y \in S : x <= y
<1>1. \E x \in S : \A y \in S : ~ (<<y, x>> \in OpToRel(<, Nat))
  BY WFMin, NatLessThanWellFounded, Zenon
<1>2. PICK x \in S : \A y \in S : ~ (<<y, x>> \in OpToRel(<, Nat))
  BY <1>1, Zenon
<1>3. \A y \in S : ~ (y < x)
  <2> TAKE y \in S
  <2> y \in Nat /\ x \in Nat
    OBVIOUS
  <2> QED BY <1>2, Zenon DEF OpToRel
<1> QED BY <1>3

\* A part of a finite set has no more members, and with as many is the whole.
LEMMA Within ==
  ASSUME NEW T, IsFiniteSet(T), NEW S, S \subseteq T
  PROVE  /\ IsFiniteSet(S)
         /\ Cardinality(S) \in Nat /\ Cardinality(T) \in Nat
         /\ Cardinality(S) <= Cardinality(T)
         /\ S # T => Cardinality(S) < Cardinality(T)
<1>1. IsFiniteSet(S) /\ Cardinality(T) \in Nat /\ Cardinality(S) \in Nat
  BY FS_Subset, FS_CardinalityType
<1>2. /\ Cardinality(S) <= Cardinality(T)
      /\ Cardinality(S) = Cardinality(T) => S = T
  BY FS_Subset
<1> QED BY <1>1, <1>2

\* A finite set of integers that is not empty has a greatest one: the one that the
\* fewest exceed.
LEMMA Greatest ==
  ASSUME NEW S, S \subseteq Int, IsFiniteSet(S), S # {}
  PROVE  \E x \in S : \A y \in S : y <= x
<1> DEFINE Above(x) == {y \in S : y > x}
<1> DEFINE C == {Cardinality(Above(x)) : x \in S}
<1>1. \A x \in S : Cardinality(Above(x)) \in Nat
  <2> SUFFICES ASSUME NEW x \in S PROVE Cardinality(Above(x)) \in Nat
    OBVIOUS
  <2> Above(x) \subseteq S
    OBVIOUS
  <2> HIDE DEF Above
  <2> QED BY Within
<1>2. \E c \in C : \A d \in C : c <= d
  <2>1. C \subseteq Nat
    BY <1>1
  <2>2. C # {}
    <3> PICK x \in S : TRUE
      OBVIOUS
    <3> Cardinality(Above(x)) \in C
      OBVIOUS
    <3> QED OBVIOUS
  <2> HIDE DEF C
  <2> QED BY <2>1, <2>2, Least, Zenon
<1>3. PICK x \in S : \A y \in S : Cardinality(Above(x)) <= Cardinality(Above(y))
  <2> HIDE DEF Above
  <2> QED BY <1>2
<1>4. ASSUME NEW y \in S, ~ (y <= x) PROVE FALSE
  <2>1. x \in Int /\ y \in Int /\ y > x
    BY <1>4
  <2>2. Above(y) \subseteq Above(x)
    <3> SUFFICES ASSUME NEW w \in Above(y) PROVE w \in Above(x)
      OBVIOUS
    <3> w \in S /\ w \in Int /\ w > y
      OBVIOUS
    <3> w > x
      BY <2>1
    <3> QED OBVIOUS
  <2>3. y \in Above(x) /\ y \notin Above(y)
    BY <2>1
  <2>4. IsFiniteSet(Above(x))
    <3> Above(x) \subseteq S
      OBVIOUS
    <3> HIDE DEF Above
    <3> QED BY Within
  <2>5. Cardinality(Above(y)) < Cardinality(Above(x))
    <3> Above(y) # Above(x)
      BY <2>3
    <3> HIDE DEF Above
    <3> QED BY <2>2, <2>4, Within
  <2>6. /\ Cardinality(Above(x)) <= Cardinality(Above(y))
        /\ Cardinality(Above(x)) \in Nat /\ Cardinality(Above(y)) \in Nat
    BY <1>1, <1>3
  <2> HIDE DEF Above
  <2> QED BY <2>5, <2>6
<1> QED BY <1>4

\* The limits are numbers.
LEMMA Limits ==
  /\ GlobalTopN \in Nat /\ GlobalTopN > 0 /\ PerRegionN \in Nat /\ PerRegionN >= GlobalTopN
  /\ Prefetch \in Nat
BY ConstantsAssumption

-----------------------------------------------------------------------------
(* Boards and rankings.                                                    *)

\* The ZSETs of users.
Board == UNION {[S -> Int] : S \in SUBSET User}

\* What a ZSET of users is.
LEMMA BoardLemma ==
  /\ \A z : z \in Board <=> IsBoard(z)
  /\ \A z \in Board : \A u \in DOMAIN z : u \in User /\ u \in Int /\ z[u] \in Int
  /\ \A z \in Board : /\ DOMAIN z \subseteq User /\ IsFiniteSet(DOMAIN z)
                      /\ Cardinality(DOMAIN z) \in Nat
<1>1. ASSUME NEW z PROVE z \in Board <=> IsBoard(z)
  <2>1. z \in Board => IsBoard(z)
    BY DEF Board, IsBoard
  <2>2. IsBoard(z) => z \in Board
    BY DEF Board, IsBoard
  <2> QED BY <2>1, <2>2
<1>2. \A z \in Board : \A u \in DOMAIN z : u \in User /\ u \in Int /\ z[u] \in Int
  BY <1>1, ConstantsAssumption DEF IsBoard
<1>3. \A z \in Board : DOMAIN z \subseteq User
  BY <1>1 DEF IsBoard
<1> QED BY <1>1, <1>2, <1>3, Within, ConstantsAssumption

\* The board that nobody is on.
LEMMA EmptyLemma ==
  /\ NoMembers \in Board /\ DOMAIN NoMembers = {} /\ IsFiniteSet({}) /\ Cardinality({}) = 0
  /\ NoScores \in [Region -> Board] /\ \A g \in Region : NoScores[g] = NoMembers
<1>1. DOMAIN NoMembers = {}
  BY DEF NoMembers
<1>2. NoMembers \in [{} -> Int]
  BY <1>1 DEF NoMembers
<1>3. NoMembers \in Board
  BY <1>2 DEF Board
<1> QED BY <1>1, <1>3, FS_EmptySet DEF NoScores

\* The best score over the regions is one of them, and none is higher.
LEMMA BestLemma ==
  ASSUME NEW z \in [Region -> Board]
  PROVE  /\ BestOf(z) \in Board
         /\ \A g \in Region : \A u \in DOMAIN z[g] :
              u \in DOMAIN BestOf(z) /\ z[g][u] <= BestOf(z)[u]
         /\ \A u \in DOMAIN BestOf(z) : \E g \in Region : u \in DOMAIN z[g] /\ z[g][u] = BestOf(z)[u]
<1> DEFINE D == UNION {DOMAIN z[g] : g \in Region}
<1>1. BestOf(z) = [u \in D |-> CHOOSE s \in ScoresOf(z, u) : \A t \in ScoresOf(z, u) : t <= s]
  BY DEF BestOf
<1>2. D \subseteq User
  BY BoardLemma
<1>3. ASSUME NEW u \in D
      PROVE  /\ BestOf(z)[u] \in ScoresOf(z, u) /\ ScoresOf(z, u) \subseteq Int
             /\ \A t \in ScoresOf(z, u) : t <= BestOf(z)[u]
  <2> DEFINE R == {h \in Region : u \in DOMAIN z[h]}
  <2> DEFINE S == {z[g][u] : g \in R}
  <2>1. S = ScoresOf(z, u)
    BY DEF ScoresOf
  <2>2. S \subseteq Int
    BY BoardLemma
  <2>3. S # {}
    <3> PICK g \in Region : u \in DOMAIN z[g]
      OBVIOUS
    <3> z[g][u] \in S
      OBVIOUS
    <3> QED OBVIOUS
  <2>4. IsFiniteSet(S)
    <3>1. IsFiniteSet(R)
      <4> R \subseteq Region
        OBVIOUS
      <4> HIDE DEF R
      <4> QED BY Within, ConstantsAssumption
    <3> DEFINE f == [g \in R |-> z[g][u]]
    <3>2. f \in Surjection(R, S)
      BY DEF Surjection
    <3> HIDE DEF f, R, S
    <3> QED BY <3>1, <3>2, FS_Surjection
  <2> HIDE DEF S, R, D
  <2>5. \E s \in S : \A t \in S : t <= s
    BY <2>2, <2>3, <2>4, Greatest
  <2>6. BestOf(z)[u] = CHOOSE s \in S : \A t \in S : t <= s
    BY <1>1, <1>3, <2>1
  <2>7. BestOf(z)[u] \in S /\ \A t \in S : t <= BestOf(z)[u]
    BY <2>5, <2>6
  <2> QED BY <2>1, <2>2, <2>7
<1>4. BestOf(z) \in Board
  <2>1. BestOf(z) \in [D -> Int]
    <3> HIDE DEF D
    <3> QED BY <1>1, <1>3
  <2> HIDE DEF D
  <2> QED BY <1>2, <2>1 DEF Board
<1>5. DOMAIN BestOf(z) = D
  BY <1>1
<1>6. \A g \in Region : \A u \in DOMAIN z[g] : u \in D /\ z[g][u] \in ScoresOf(z, u)
  BY DEF ScoresOf
<1>7. \A u \in D : \A s \in ScoresOf(z, u) : \E g \in Region : u \in DOMAIN z[g] /\ z[g][u] = s
  BY DEF ScoresOf
<1> HIDE DEF D
<1> QED BY <1>3, <1>4, <1>5, <1>6, <1>7

\* Who is ahead of u in the ZSET z; ZREVRANK counts them.
Ahead(z, u) == {v \in DOMAIN z : Beats(z, v, u)}

\* Whoever is ahead of u has fewer ahead of it than u has.
LEMMA AheadLemma ==
  ASSUME NEW z \in Board, NEW u \in DOMAIN z, NEW v \in Ahead(z, u)
  PROVE  Cardinality(Ahead(z, v)) < Cardinality(Ahead(z, u))
<1>1. /\ v \in DOMAIN z /\ Beats(z, v, u)
      /\ \A w \in DOMAIN z : w \in Int /\ z[w] \in Int
  BY BoardLemma DEF Ahead
<1>2. Ahead(z, v) \subseteq Ahead(z, u)
  <2> SUFFICES ASSUME NEW w \in Ahead(z, v) PROVE w \in Ahead(z, u)
    OBVIOUS
  <2> w \in DOMAIN z /\ Beats(z, w, v)
    BY DEF Ahead
  <2> Beats(z, w, u)
    BY <1>1 DEF Beats
  <2> QED BY DEF Ahead
<1>3. v \notin Ahead(z, v)
  BY <1>1 DEF Ahead, Beats
<1>4. IsFiniteSet(Ahead(z, u))
  <2>1. Ahead(z, u) \subseteq DOMAIN z
    BY DEF Ahead
  <2> QED BY <2>1, BoardLemma, Within
<1> QED BY <1>2, <1>3, <1>4, Within

\* Where the first n leave out u, n of them have at least the score of u.
LEMMA TopFull ==
  ASSUME NEW z \in Board, NEW n \in Nat, NEW u \in DOMAIN z, u \notin Leaders(z, n)
  PROVE  \E A \in SUBSET Leaders(z, n) : Cardinality(A) >= n /\ \A v \in A : z[v] >= z[u]
<1> DEFINE Out == DOMAIN z \ Leaders(z, n)
<1>0. /\ \A v \in DOMAIN z : v \in Leaders(z, n) <=> Cardinality(Ahead(z, v)) < n
      /\ \A v \in DOMAIN z : Cardinality(Ahead(z, v)) \in Nat
      /\ Leaders(z, n) \subseteq DOMAIN z
  <2>1. \A v : Ahead(z, v) \subseteq DOMAIN z
    BY DEF Ahead
  <2>2. \A v : Cardinality(Ahead(z, v)) \in Nat
    BY <2>1, BoardLemma, Within
  <2> QED BY <2>2 DEF Leaders, RevRank, Ahead
<1>1. \E w \in Out : \A v \in Out : Cardinality(Ahead(z, w)) <= Cardinality(Ahead(z, v))
  <2> DEFINE C == {Cardinality(Ahead(z, v)) : v \in Out}
  <2>1. u \in Out
    OBVIOUS
  <2>2. C \subseteq Nat
    BY <1>0
  <2>3. C # {}
    <3> Cardinality(Ahead(z, u)) \in C
      BY <2>1
    <3> QED OBVIOUS
  <2>4. \E x \in C : \A y \in C : x <= y
    <3> HIDE DEF C
    <3> QED BY <2>2, <2>3, Least, Zenon
  <2> QED BY <2>4
<1>2. PICK w \in Out : \A v \in Out : Cardinality(Ahead(z, w)) <= Cardinality(Ahead(z, v))
  BY <1>1, Zenon
<1>3. Cardinality(Ahead(z, w)) >= n
  BY <1>0, <1>2
<1>4. Ahead(z, w) \subseteq Leaders(z, n)
  <2> SUFFICES ASSUME NEW v \in Ahead(z, w), v \notin Leaders(z, n) PROVE FALSE
    OBVIOUS
  <2>1. v \in DOMAIN z
    BY DEF Ahead
  <2>2. Cardinality(Ahead(z, v)) < Cardinality(Ahead(z, w))
    BY <1>2, AheadLemma
  <2> QED BY <1>0, <1>2, <2>1, <2>2
<1>5. \A v \in Ahead(z, w) : z[v] >= z[u]
  <2> SUFFICES ASSUME NEW v \in Ahead(z, w), ~ (z[v] >= z[u]) PROVE FALSE
    OBVIOUS
  <2>1. /\ v \in DOMAIN z /\ v \in Leaders(z, n)
        /\ z[u] \in Int /\ z[v] \in Int
    BY <1>0, <1>4, BoardLemma
  <2>2. u \in Ahead(z, v)
    BY <2>1 DEF Ahead, Beats
  <2>3. Cardinality(Ahead(z, u)) < Cardinality(Ahead(z, v))
    BY <2>1, <2>2, AheadLemma
  <2> QED BY <1>0, <2>1, <2>3
<1> QED BY <1>3, <1>4, <1>5

\* What a ranking keeps of the ZSET that it ranks.
LEMMA RankingLemma ==
  ASSUME NEW z \in Board, NEW n \in Nat, NEW r \in Rankings(z, n)
  PROVE  /\ r \in Board
         /\ \A u \in DOMAIN r : u \in DOMAIN z /\ r[u] = z[u]
         /\ Cardinality(DOMAIN r) <= n
<1>1. PICK S \in SUBSET DOMAIN z :
        /\ Cardinality(S) = IF Cardinality(DOMAIN z) < n THEN Cardinality(DOMAIN z) ELSE n
        /\ r = [u \in S |-> z[u]]
  BY DEF Rankings
<1>2. DOMAIN r = S /\ \A u \in S : r[u] = z[u]
  BY <1>1
<1>3. r \in [S -> Int] /\ S \subseteq User
  BY <1>1, BoardLemma
<1>4. r \in Board
  BY <1>3 DEF Board
<1>5. Cardinality(DOMAIN z) \in Nat
  BY BoardLemma
<1>6. Cardinality(S) <= n
  BY <1>1, <1>5
<1> QED BY <1>1, <1>2, <1>4, <1>6

\* m is a merge of the first perRegionN entries of each of the ZSETs z.
IsMerge(m, z) ==
  /\ m \in Board
  /\ \A g \in Region : \A u \in Leaders(z[g], PerRegionN) : u \in DOMAIN m /\ z[g][u] <= m[u]
  /\ \A u \in DOMAIN m : \E g \in Region : u \in DOMAIN z[g] /\ m[u] = z[g][u]

\* The ZSET m has the score of u in b.
Agree(m, b, u) == u \in DOMAIN m /\ m[u] = b[u]

\* A merge gives nobody more than its best score; if it gives u less or nothing, it
\* gives at least that to globalTopN others.
LEMMA MergeLemma ==
  ASSUME NEW z \in [Region -> Board], NEW m, IsMerge(m, z)
  PROVE  /\ DOMAIN m \subseteq DOMAIN BestOf(z)
         /\ \A u \in DOMAIN m : m[u] <= BestOf(z)[u]
         /\ \A u \in DOMAIN BestOf(z) : ~ Agree(m, BestOf(z), u) =>
              \E A \in SUBSET DOMAIN m :
                Cardinality(A) >= GlobalTopN /\ \A v \in A : m[v] >= BestOf(z)[u]
<1> DEFINE b == BestOf(z)
<1>1. /\ b \in Board
      /\ \A g \in Region : \A u \in DOMAIN z[g] : u \in DOMAIN b /\ z[g][u] <= b[u]
      /\ \A u \in DOMAIN b : \E g \in Region : u \in DOMAIN z[g] /\ z[g][u] = b[u]
  BY BestLemma
<1> HIDE DEF b
<1>2. m \in Board /\ DOMAIN m \subseteq DOMAIN b /\ \A u \in DOMAIN m : m[u] <= b[u]
  BY <1>1 DEF IsMerge
<1>3. ASSUME NEW u \in DOMAIN b, ~ Agree(m, b, u)
      PROVE  \E A \in SUBSET DOMAIN m : Cardinality(A) >= GlobalTopN /\ \A v \in A : m[v] >= b[u]
  <2>1. PICK g \in Region : u \in DOMAIN z[g] /\ z[g][u] = b[u]
    BY <1>1
  <2>2. z[g] \in Board /\ b[u] \in Int
    BY <1>1, BoardLemma
  <2>3. u \notin Leaders(z[g], PerRegionN)
    <3> SUFFICES ASSUME u \in Leaders(z[g], PerRegionN) PROVE FALSE
      OBVIOUS
    <3>1. u \in DOMAIN m /\ b[u] <= m[u] /\ m[u] <= b[u] /\ m[u] \in Int
      BY <1>2, <2>1, BoardLemma DEF IsMerge
    <3> QED BY <1>3, <2>2, <3>1 DEF Agree
  <2>4. PICK A \in SUBSET Leaders(z[g], PerRegionN) :
          Cardinality(A) >= PerRegionN /\ \A v \in A : z[g][v] >= z[g][u]
    BY <2>1, <2>2, <2>3, TopFull, Limits
  <2>5. \A v \in A : v \in DOMAIN m /\ m[v] >= b[u]
    <3> SUFFICES ASSUME NEW v \in A PROVE v \in DOMAIN m /\ m[v] >= b[u]
      OBVIOUS
    <3>1. v \in DOMAIN m /\ z[g][v] <= m[v] /\ z[g][v] >= b[u]
      BY <2>1, <2>4 DEF IsMerge
    <3>2. v \in DOMAIN z[g]
      BY <2>4 DEF Leaders
    <3>3. z[g][v] \in Int /\ m[v] \in Int
      BY <1>2, <2>2, <3>1, <3>2, BoardLemma
    <3> QED BY <2>2, <3>1, <3>3
  <2>6. Cardinality(A) \in Nat
    BY <1>2, <2>5, BoardLemma, Within
  <2>7. Cardinality(A) >= GlobalTopN
    BY <2>4, <2>6, Limits
  <2> QED BY <2>5, <2>7
<1> QED BY <1>2, <1>3 DEF b

\* The top of a merge is the top of the regions: their first perRegionN entries are enough.
LEMMA MergeIsEnough ==
  ASSUME NEW z \in [Region -> Board], NEW m, IsMerge(m, z),
         NEW r \in Rankings(m, GlobalTopN)
  PROVE  r \in Rankings(BestOf(z), GlobalTopN)
<1> DEFINE b == BestOf(z)
<1> DEFINE n == GlobalTopN
<1>0. n \in Nat
  BY Limits
<1>1. PICK S \in SUBSET DOMAIN m :
        /\ Cardinality(S) = IF Cardinality(DOMAIN m) < n THEN Cardinality(DOMAIN m) ELSE n
        /\ \A u \in S, v \in DOMAIN m \ S : m[u] >= m[v]
        /\ r = [u \in S |-> m[u]]
  BY DEF Rankings
<1>2. /\ m \in Board /\ b \in Board /\ DOMAIN m \subseteq DOMAIN b
      /\ \A u \in DOMAIN m : m[u] \in Int /\ m[u] <= b[u]
      /\ \A u \in DOMAIN b : b[u] \in Int
  <2>1. m \in Board /\ b \in Board
    BY BestLemma DEF IsMerge
  <2> QED BY <2>1, MergeLemma, BoardLemma
\* A user whose best score the merge lacks: the merge has n users ahead of it.
<1>3. ASSUME NEW v \in DOMAIN b, ~ Agree(m, b, v)
      PROVE  \E A \in SUBSET DOMAIN m : Cardinality(A) >= n /\ \A w \in A : m[w] >= b[v]
  BY <1>3, MergeLemma
<1> HIDE DEF b, n
<1>4. /\ IsFiniteSet(DOMAIN m) /\ IsFiniteSet(DOMAIN b) /\ IsFiniteSet(S)
      /\ Cardinality(S) \in Nat /\ Cardinality(S) <= n
      /\ Cardinality(DOMAIN m) \in Nat /\ Cardinality(DOMAIN b) \in Nat
      /\ Cardinality(DOMAIN m) <= Cardinality(DOMAIN b)
  <2>1. IsFiniteSet(DOMAIN m) /\ IsFiniteSet(DOMAIN b)
    BY <1>2, BoardLemma
  <2>2. IsFiniteSet(S) /\ Cardinality(S) \in Nat
    BY <2>1, Within
  <2>3. /\ Cardinality(DOMAIN m) \in Nat /\ Cardinality(DOMAIN b) \in Nat
        /\ Cardinality(DOMAIN m) <= Cardinality(DOMAIN b)
    BY <1>2, <2>1, Within
  <2> QED BY <1>0, <1>1, <2>1, <2>2, <2>3
<1>5. ASSUME NEW v \in DOMAIN b, ~ Agree(m, b, v)
      PROVE  Cardinality(S) = n /\ Cardinality(DOMAIN m) >= n
  <2>1. PICK A \in SUBSET DOMAIN m : Cardinality(A) >= n
    BY <1>3, <1>5
  <2>2. Cardinality(A) \in Nat /\ Cardinality(A) <= Cardinality(DOMAIN m)
    BY <1>4, Within
  <2>3. Cardinality(DOMAIN m) >= n
    BY <1>0, <1>4, <2>1, <2>2
  <2> QED BY <1>0, <1>1, <1>4, <2>3
<1>6. ASSUME NEW u \in S PROVE m[u] = b[u]
  <2> SUFFICES ASSUME m[u] # b[u] PROVE FALSE
    OBVIOUS
  <2>0. u \in DOMAIN m /\ u \in DOMAIN b /\ ~ Agree(m, b, u)
    BY <1>2 DEF Agree
  <2>1. PICK A \in SUBSET DOMAIN m : Cardinality(A) >= n /\ \A w \in A : m[w] >= b[u]
    BY <1>3, <2>0
  <2>2. A \subseteq S
    <3> SUFFICES ASSUME NEW w \in A, w \notin S PROVE FALSE
      OBVIOUS
    <3>1. m[u] >= m[w] /\ m[w] >= b[u] /\ w \in DOMAIN m
      BY <1>1, <2>1
    <3> QED BY <1>2, <2>0, <3>1
  <2>3. u \notin A
    BY <1>2, <2>0, <2>1
  <2>4. Cardinality(A) < Cardinality(S) /\ Cardinality(A) \in Nat
    <3>1. A # S
      BY <2>3
    <3> QED BY <1>4, <2>2, <3>1, Within
  <2> QED BY <1>0, <1>4, <2>1, <2>4
<1>7. Cardinality(S) = IF Cardinality(DOMAIN b) < n THEN Cardinality(DOMAIN b) ELSE n
  <2>1. CASE \A v \in DOMAIN b : Agree(m, b, v)
    <3>1. DOMAIN m = DOMAIN b
      BY <1>2, <2>1 DEF Agree
    <3> QED BY <1>1, <3>1
  <2>2. CASE \E v \in DOMAIN b : ~ Agree(m, b, v)
    <3>1. Cardinality(S) = n /\ Cardinality(DOMAIN m) >= n
      BY <1>5, <2>2
    <3> QED BY <1>0, <1>4, <3>1
  <2> QED BY <2>1, <2>2
<1>8. ASSUME NEW u \in S, NEW v \in DOMAIN b \ S PROVE b[u] >= b[v]
  <2>0. u \in DOMAIN m /\ m[u] = b[u]
    BY <1>6
  <2>1. CASE Agree(m, b, v)
    BY <1>1, <1>8, <2>0, <2>1 DEF Agree
  <2>2. CASE ~ Agree(m, b, v)
    <3>1. PICK A \in SUBSET DOMAIN m : Cardinality(A) >= n /\ \A w \in A : m[w] >= b[v]
      BY <1>3, <2>2
    <3>2. Cardinality(S) = n
      BY <1>5, <2>2
    <3>3. PICK w \in A : w = u \/ w \notin S
      <4> SUFFICES ASSUME \A w \in A : w # u /\ w \in S PROVE FALSE
        OBVIOUS
      <4>1. A \subseteq S /\ A # S
        OBVIOUS
      <4>2. Cardinality(A) < Cardinality(S) /\ Cardinality(A) \in Nat
        BY <1>4, <4>1, Within
      <4> QED BY <1>0, <3>1, <3>2, <4>2
    <3>4. w \in DOMAIN m /\ m[u] >= m[w] /\ m[w] >= b[v]
      BY <1>1, <1>2, <2>0, <3>1, <3>3
    <3> QED BY <1>2, <2>0, <3>4
  <2> QED BY <2>1, <2>2
<1>9. r = [u \in S |-> b[u]]
  BY <1>1, <1>6
<1>10. S \in SUBSET DOMAIN b
  BY <1>2
<1>11. r \in Rankings(b, n)
  BY <1>7, <1>8, <1>9, <1>10 DEF Rankings
<1> QED BY <1>11 DEF b, n

-----------------------------------------------------------------------------
(* The inductive invariant.                                                *)

Cycles == [at : {"idle", "read", "zadd"}, left : SUBSET Region, merged : Board, ranked : Board,
           seen : [Region -> Board], had : [User -> SUBSET Int]]

\* What the messages and the process are.
Broker ==
  /\ owed \in [Region -> Nat]
  /\ bodies \in Seq(Region \cup {Garbage})
  /\ queue \in Queues(DOMAIN bodies) /\ WellFormed(queue) /\ Len(queue.unacked) <= Prefetch
  /\ tracker \subseteq Region
  /\ ~up => ~consuming /\ tracker = {} /\ cycle = Idle

\* What the scores are.
Values ==
  /\ zset \in [Region -> Board]
  /\ global \in Board /\ Cardinality(DOMAIN global) <= GlobalTopN
  /\ cycle \in Cycles

\* A cycle knows of every score that a region has, or had when it was read.
Credited ==
  cycle.at # "idle" =>
    \A g \in Region : /\ \A u \in DOMAIN zset[g] : zset[g][u] \in cycle.had[u]
                      /\ \A u \in DOMAIN cycle.seen[g] : cycle.seen[g][u] \in cycle.had[u]

\* While it reads, a cycle has merged what it has seen.
Merging ==
  cycle.at = "read" => /\ IsMerge(cycle.merged, cycle.seen)
                       /\ \A g \in cycle.left : cycle.seen[g] = NoMembers

IInv == Broker /\ Values /\ Credited /\ Merging /\ MergeExact

\* A process without a cycle.
LEMMA IdleLemma == Idle \in Cycles /\ Idle.at = "idle"
BY EmptyLemma DEF Idle, Cycles

\* The properties follow from the invariant.
LEMMA Implied ==
  ASSUME IInv
  PROVE  TypeOK /\ MergeExact
<1>1. DOMAIN zset = Region /\ \A g \in Region : IsBoard(zset[g])
  BY BoardLemma DEF IInv, Values
<1>2. IsBoard(global)
  BY BoardLemma DEF IInv, Values
<1>3. TypeOK
  BY <1>1, <1>2 DEF IInv, Broker, Values, TypeOK, Cycles
<1> QED BY <1>3 DEF IInv

-----------------------------------------------------------------------------
(* The steps.                                                              *)

\* At the start.
LEMMA Initially == Init => IInv
<1> SUFFICES ASSUME Init PROVE IInv
  OBVIOUS
<1>1. Broker
  <2>1. <<>> \in Seq(Region \cup {Garbage}) /\ queue = NoQueue /\ bodies = <<>>
    BY EmptySeq DEF Init
  <2>2. queue \in Queues(DOMAIN bodies) /\ WellFormed(queue)
    BY <2>1, NoQueueLemma
  <2>3. Len(queue.unacked) <= Prefetch
    BY <2>1, Limits, EmptySeq DEF NoQueue
  <2> QED BY <2>1, <2>2, <2>3 DEF Init, Broker
<1>2. Values
  BY EmptyLemma, IdleLemma, Limits DEF Init, Values
<1>3. Credited /\ Merging /\ MergeExact
  BY IdleLemma DEF Init, Credited, Merging, MergeExact
<1> QED BY <1>1, <1>2, <1>3 DEF IInv

\* A step that leaves the scores alone, and the cycle alone or ends it.
LEMMA CycleKept ==
  ASSUME IInv, UNCHANGED <<zset, global>>, cycle' = cycle \/ cycle' = Idle, Broker'
  PROVE  IInv'
<1>1. CASE cycle' = cycle
  BY <1>1 DEF IInv, Values, Credited, Merging, MergeExact
<1>2. CASE cycle' = Idle
  <2>1. Values'
    BY <1>2, IdleLemma DEF IInv, Values
  <2>2. Credited' /\ Merging' /\ MergeExact'
    BY <1>2, IdleLemma DEF Credited, Merging, MergeExact
  <2> QED BY <2>1, <2>2 DEF IInv
<1> QED BY <1>1, <1>2

\* ZINCRBY changes the score of one member.
LEMMA ZIncrByLemma ==
  ASSUME NEW z \in Board, NEW w \in User, NEW d \in Int
  PROVE  /\ ZIncrBy(z, w, d) \in Board
         /\ \A u \in DOMAIN ZIncrBy(z, w, d) : u # w => u \in DOMAIN z /\ ZIncrBy(z, w, d)[u] = z[u]
<1> DEFINE y == ZIncrBy(z, w, d)
<1>1. y = [v \in DOMAIN z \cup {w} |->
             (IF v \in DOMAIN z THEN z[v] ELSE 0) + (IF v = w THEN d ELSE 0)]
  BY DEF ZIncrBy
<1>2. \A v \in DOMAIN z : z[v] \in Int
  BY BoardLemma
<1> HIDE DEF y
<1>3. ASSUME NEW u \in DOMAIN y
      PROVE  y[u] \in Int /\ (u # w => u \in DOMAIN z /\ y[u] = z[u])
  BY <1>1, <1>2, <1>3
<1>4. y \in [DOMAIN y -> Int] /\ DOMAIN y = DOMAIN z \cup {w}
  BY <1>1, <1>3
<1>5. DOMAIN y \subseteq User
  BY <1>4, BoardLemma
<1>6. y \in Board
  BY <1>4, <1>5 DEF Board
<1> QED BY <1>3, <1>6 DEF y

\* A score rises or falls.
LEMMA ScoreStep ==
  ASSUME IInv, NEW h \in Region, NEW w \in User, Score(h, w)
  PROVE  IInv'
<1>1. PICK d \in Deltas : zset' = [zset EXCEPT ![h] = ZIncrBy(@, w, d)]
  BY DEF Score
<1>2. /\ owed' = [owed EXCEPT ![h] = @ + 1]
      /\ cycle' = IF cycle.at = "idle" THEN cycle
                  ELSE [cycle EXCEPT !.had[w] = @ \cup {zset'[h][w]}]
      /\ UNCHANGED <<global, bodies, queue, up, consuming, tracker>>
  BY DEF Score
<1>3. d \in Int /\ zset \in [Region -> Board] /\ cycle \in Cycles
  BY ConstantsAssumption DEF IInv, Values
<1>4. /\ zset' \in [Region -> Board]
      /\ \A g \in Region : g # h => zset'[g] = zset[g]
      /\ \A u \in DOMAIN zset'[h] : u # w => u \in DOMAIN zset[h] /\ zset'[h][u] = zset[h][u]
  BY <1>1, <1>3, ZIncrByLemma
<1>5. w \in DOMAIN zset'[h] /\ zset'[h][w] \in Int
  <2>1. w \in DOMAIN zset'[h]
    BY <1>1, <1>3 DEF ZIncrBy
  <2> QED BY <1>4, <2>1, BoardLemma
<1>6. CASE cycle.at = "idle"
  <2>1. cycle' = cycle
    BY <1>2, <1>6
  <2>2. Values' /\ Credited' /\ Merging' /\ MergeExact'
    BY <1>2, <1>4, <1>6, <2>1 DEF IInv, Values, Credited, Merging, MergeExact
  <2>3. Broker'
    BY <1>2, <2>1 DEF IInv, Broker
  <2> QED BY <2>2, <2>3 DEF IInv
<1>7. CASE cycle.at # "idle"
  <2>1. cycle' = [cycle EXCEPT !.had = [cycle.had EXCEPT ![w] = @ \cup {zset'[h][w]}]]
    BY <1>2, <1>7
  <2>2. /\ cycle' \in Cycles
        /\ cycle'.at = cycle.at /\ cycle'.left = cycle.left /\ cycle'.merged = cycle.merged
        /\ cycle'.ranked = cycle.ranked /\ cycle'.seen = cycle.seen
    BY <1>3, <1>5, <2>1 DEF Cycles
  <2>3. \A u \in User : /\ cycle.had[u] \subseteq cycle'.had[u]
                        /\ u = w => zset'[h][w] \in cycle'.had[u]
    <3>1. cycle.had \in [User -> SUBSET Int]
      BY <1>3 DEF Cycles
    <3>2. cycle'.had = [cycle.had EXCEPT ![w] = @ \cup {zset'[h][w]}]
      BY <1>3, <2>1 DEF Cycles
    <3> QED BY <3>1, <3>2
  <2>4. Values'
    BY <1>2, <1>4, <2>2 DEF IInv, Values
  <2>5. Credited'
    <3> SUFFICES ASSUME NEW g \in Region
                 PROVE  /\ \A u \in DOMAIN zset'[g] : zset'[g][u] \in cycle'.had[u]
                        /\ \A u \in DOMAIN cycle'.seen[g] : cycle'.seen[g][u] \in cycle'.had[u]
      BY DEF Credited
    <3>1. /\ \A u \in DOMAIN zset[g] : zset[g][u] \in cycle.had[u]
          /\ \A u \in DOMAIN cycle.seen[g] : cycle.seen[g][u] \in cycle.had[u]
      BY <1>7 DEF IInv, Credited
    <3>2. zset'[g] \in Board /\ zset[g] \in Board /\ cycle.seen[g] \in Board
      BY <1>3, <1>4 DEF Cycles
    <3>3. \A u \in DOMAIN zset'[g] : zset'[g][u] \in cycle'.had[u]
      BY <1>4, <2>3, <3>1, <3>2, BoardLemma
    <3> QED BY <2>2, <2>3, <3>1, <3>2, <3>3, BoardLemma
  <2>6. Merging' /\ MergeExact'
    BY <2>2 DEF IInv, Merging, MergeExact
  <2>7. Broker'
    BY <1>2, <1>7, IdleLemma DEF IInv, Broker
  <2> QED BY <2>4, <2>5, <2>6, <2>7 DEF IInv
<1> QED BY <1>6, <1>7

\* Something is published.
LEMMA AppendBody ==
  ASSUME Broker, NEW b \in Region \cup {Garbage}, bodies' = Append(bodies, b),
         queue' = Publish(queue, Len(bodies) + 1)
  PROVE  /\ bodies' \in Seq(Region \cup {Garbage})
         /\ queue' \in Queues(DOMAIN bodies') /\ WellFormed(queue')
         /\ Len(queue'.unacked) <= Prefetch
<1>1. /\ bodies \in Seq(Region \cup {Garbage}) /\ queue \in Queues(DOMAIN bodies)
      /\ WellFormed(queue) /\ Len(queue.unacked) <= Prefetch
  BY DEF Broker
<1>2. /\ bodies' \in Seq(Region \cup {Garbage}) /\ Len(bodies) \in Nat
      /\ DOMAIN bodies = 1 .. Len(bodies) /\ DOMAIN bodies' = 1 .. Len(bodies) + 1
  BY <1>1, AppendProperties
<1>3. queue \in Queues(DOMAIN bodies')
  <2>1. DOMAIN bodies \subseteq DOMAIN bodies'
    BY <1>2
  <2> QED BY <1>1, <2>1, QueuesMonotonic
<1>4. Len(bodies) + 1 \in DOMAIN bodies' /\ Len(bodies) + 1 \notin Held(queue)
  <2>1. Held(queue) \subseteq DOMAIN bodies
    BY <1>1 DEF Held, Queues, Range
  <2> QED BY <1>2, <2>1
<1>5. /\ queue' \in Queues(DOMAIN bodies') /\ WellFormed(queue')
      /\ queue'.unacked = queue.unacked
  BY <1>1, <1>3, <1>4, PublishLemma
<1> QED BY <1>1, <1>2, <1>5

\* The API publishes, or fails to; somebody else does.
LEMMA PublishStep ==
  ASSUME IInv, (\E g \in Region : PublishEvent(g) \/ LosePublish(g)) \/ PublishGarbage
  PROVE  IInv'
<1>1. UNCHANGED <<zset, global, up, consuming, tracker, cycle>>
  BY DEF PublishEvent, LosePublish, PublishGarbage
<1>2. /\ bodies' \in Seq(Region \cup {Garbage})
      /\ queue' \in Queues(DOMAIN bodies') /\ WellFormed(queue')
      /\ Len(queue'.unacked) <= Prefetch
  <2>1. CASE UNCHANGED <<bodies, queue>>
    BY <2>1 DEF IInv, Broker
  <2>2. CASE \E b \in Region \cup {Garbage} :
               bodies' = Append(bodies, b) /\ queue' = Publish(queue, Len(bodies) + 1)
    BY <2>2, AppendBody DEF IInv
  <2> QED BY <2>1, <2>2 DEF PublishEvent, LosePublish, PublishGarbage
<1>3. owed' \in [Region -> Nat]
  <2>1. owed \in [Region -> Nat]
    BY DEF IInv, Broker
  <2>2. CASE owed' = owed
    BY <2>1, <2>2
  <2>3. CASE \E g \in Region : owed[g] > 0 /\ owed' = [owed EXCEPT ![g] = @ - 1]
    BY <2>1, <2>3
  <2> QED BY <2>2, <2>3 DEF PublishEvent, LosePublish, PublishGarbage
<1>4. Broker'
  BY <1>1, <1>2, <1>3 DEF IInv, Broker
<1> QED BY <1>1, <1>4, CycleKept

\* The process starts, loses its connection, or crashes.
LEMMA ProcessStep ==
  ASSUME IInv, Start \/ ConsumerLost \/ Crash
  PROVE  IInv'
<1>1. /\ queue \in Queues(DOMAIN bodies) /\ WellFormed(queue) /\ Len(queue.unacked) <= Prefetch
      /\ owed \in [Region -> Nat] /\ bodies \in Seq(Region \cup {Garbage}) /\ tracker \subseteq Region
      /\ ~up => ~consuming /\ tracker = {} /\ cycle = Idle
  BY DEF IInv, Broker
<1>2. UNCHANGED <<zset, global, owed, bodies>>
  BY DEF Start, ConsumerLost, Crash
<1>3. /\ queue' \in Queues(DOMAIN bodies) /\ WellFormed(queue')
      /\ queue'.unacked = queue.unacked \/ queue'.unacked = <<>>
  <2>1. CASE Start
    BY <1>1, <2>1, DeclareLemma DEF Start
  <2>2. CASE ConsumerLost \/ Crash
    BY <1>1, <2>2, ConsumerGoneLemma DEF ConsumerLost, Crash
  <2> QED BY <2>1, <2>2
<1>4. Len(queue'.unacked) <= Prefetch
  BY <1>1, <1>3, Limits, EmptySeq
<1>5. /\ cycle' = cycle \/ cycle' = Idle
      /\ tracker' \subseteq Region
      /\ ~up' => ~consuming' /\ tracker' = {} /\ cycle' = Idle
  BY <1>1 DEF Start, ConsumerLost, Crash
<1>6. Broker'
  BY <1>1, <1>2, <1>3, <1>4, <1>5 DEF Broker
<1> QED BY <1>2, <1>5, <1>6, CycleKept

\* A message is delivered, dropped, or noted.
LEMMA ConsumeStep ==
  ASSUME IInv, NEW m \in DOMAIN bodies, DeliverEvent(m) \/ DropMalformed(m) \/ MarkActive(m)
  PROVE  IInv'
<1>1. /\ queue \in Queues(DOMAIN bodies) /\ WellFormed(queue) /\ Len(queue.unacked) <= Prefetch
      /\ bodies \in Seq(Region \cup {Garbage}) /\ tracker \subseteq Region
      /\ ~up => ~consuming
  BY DEF IInv, Broker
<1>2. /\ UNCHANGED <<zset, global, owed, bodies, up, consuming, cycle>>
      /\ consuming
  BY DEF DeliverEvent, DropMalformed, MarkActive, Handling
<1>3. /\ queue' \in Queues(DOMAIN bodies) /\ WellFormed(queue') /\ Len(queue'.unacked) <= Prefetch
  <2>1. CASE DeliverEvent(m)
    <3>1. m \in queue.ready /\ Len(queue.unacked) < Prefetch /\ queue' = Deliver(queue, m)
      BY <2>1 DEF DeliverEvent, CanDeliver, Oldest
    <3>2. /\ queue' \in Queues(DOMAIN bodies) /\ WellFormed(queue')
          /\ Len(queue'.unacked) = Len(queue.unacked) + 1
      BY <1>1, <3>1, DeliverLemma
    <3>3. Len(queue.unacked) \in Nat
      BY <1>1, LenProperties DEF Queues
    <3> QED BY <3>1, <3>2, <3>3, Limits
  <2>2. CASE DropMalformed(m) \/ MarkActive(m)
    <3>1. queue.unacked # <<>> /\ queue' = Ack(queue)
      BY <1>1, <2>2, NackDropLemma DEF DropMalformed, MarkActive, Handling
    <3>2. /\ queue' \in Queues(DOMAIN bodies) /\ WellFormed(queue')
          /\ Len(queue'.unacked) = Len(queue.unacked) - 1
      BY <1>1, <3>1, AckLemma
    <3>3. Len(queue.unacked) \in Nat
      BY <1>1, LenProperties DEF Queues
    <3> QED BY <1>1, <3>2, <3>3, Limits
  <2> QED BY <2>1, <2>2
<1>4. tracker' \subseteq Region
  <2>1. bodies[m] \in Region \cup {Garbage}
    BY <1>1
  <2>2. tracker' = tracker \/ (bodies[m] # Garbage /\ tracker' = tracker \cup {bodies[m]})
    BY DEF DeliverEvent, DropMalformed, MarkActive
  <2> QED BY <1>1, <2>1, <2>2
<1>5. Broker'
  BY <1>1, <1>2, <1>3, <1>4 DEF IInv, Broker
<1> QED BY <1>2, <1>5, CycleKept

\* The steps of a cycle leave the messages and the process alone.
LEMMA InCycleLemma ==
  ASSUME IInv, InCycle, up
  PROVE  Broker'
BY DEF IInv, Broker, InCycle

\* A cycle is of a process that runs.
LEMMA CycleUp ==
  ASSUME IInv, cycle.at # "idle"
  PROVE  up
BY DEF IInv, Broker, Idle

\* A cycle begins with nothing seen and nothing merged.
LEMMA TickStep ==
  ASSUME IInv, Tick
  PROVE  IInv'
<1>1. /\ up /\ InCycle /\ UNCHANGED <<global, zset>>
      /\ cycle' = [at |-> "read", left |-> tracker, merged |-> NoMembers, ranked |-> NoMembers,
                   seen |-> NoScores, had |-> [u \in User |-> ScoresOf(zset, u)]]
  BY DEF Tick, InCycle, Idle
<1>2. /\ zset \in [Region -> Board] /\ tracker \subseteq Region
      /\ \A g \in Region : \A u \in DOMAIN zset[g] : u \in User /\ zset[g][u] \in Int
  BY BoardLemma DEF IInv, Values, Broker
<1>3. [u \in User |-> ScoresOf(zset, u)] \in [User -> SUBSET Int]
  BY <1>2 DEF ScoresOf
<1>4. Values'
  <2>1. cycle' \in Cycles
    BY <1>1, <1>2, <1>3, EmptyLemma DEF Cycles
  <2> QED BY <1>1, <2>1 DEF IInv, Values
<1>5. Credited'
  <2> SUFFICES ASSUME NEW g \in Region
               PROVE  /\ \A u \in DOMAIN zset'[g] : zset'[g][u] \in cycle'.had[u]
                      /\ \A u \in DOMAIN cycle'.seen[g] : cycle'.seen[g][u] \in cycle'.had[u]
    BY DEF Credited
  <2>1. \A u \in DOMAIN zset[g] : u \in User /\ zset[g][u] \in ScoresOf(zset, u)
    BY <1>2 DEF ScoresOf
  <2>2. /\ cycle'.had = [u \in User |-> ScoresOf(zset, u)] /\ cycle'.seen = NoScores
        /\ zset' = zset
    BY <1>1
  <2>3. DOMAIN cycle'.seen[g] = {}
    BY <2>2, EmptyLemma
  <2> QED BY <2>1, <2>2, <2>3
<1>6. Merging'
  <2>1. Leaders(NoMembers, PerRegionN) = {}
    BY EmptyLemma DEF Leaders
  <2>2. IsMerge(NoMembers, NoScores)
    BY <2>1, EmptyLemma DEF IsMerge
  <2>3. /\ cycle'.merged = NoMembers /\ cycle'.seen = NoScores /\ cycle'.left \subseteq Region
    BY <1>1, <1>2
  <2> QED BY <2>2, <2>3, EmptyLemma DEF Merging
<1>7. MergeExact'
  BY <1>1 DEF MergeExact
<1> QED BY <1>1, <1>4, <1>5, <1>6, <1>7, InCycleLemma DEF IInv

\* What a region adds to a merge.
LEMMA MergeStep ==
  ASSUME NEW z \in [Region -> Board], NEW m, IsMerge(m, z),
         NEW g \in Region, z[g] = NoMembers, zset \in [Region -> Board]
  PROVE  /\ Merge(m, g) \in Board
         /\ IsMerge(Merge(m, g), [z EXCEPT ![g] = zset[g]])
<1> DEFINE n == Merge(m, g)
<1> DEFINE y == [z EXCEPT ![g] = zset[g]]
<1> DEFINE T == Leaders(zset[g], PerRegionN)
<1> DEFINE H == {u \in T : u \in DOMAIN m => zset[g][u] > m[u]}
<1>1. n = [u \in DOMAIN m \cup H |-> IF u \in H THEN zset[g][u] ELSE m[u]]
  BY DEF Merge
<1>2. /\ m \in Board /\ zset[g] \in Board /\ T \subseteq DOMAIN zset[g]
      /\ y[g] = zset[g] /\ \A h \in Region : h # g => y[h] = z[h]
  BY DEF IsMerge, Leaders
<1>3. /\ \A u \in DOMAIN m : m[u] \in Int /\ u \in User
      /\ \A u \in T : zset[g][u] \in Int /\ u \in User
  BY <1>2, BoardLemma
<1>4. DOMAIN n = DOMAIN m \cup T
  <2>1. \A u \in T : u \in DOMAIN m \/ u \in H
    OBVIOUS
  <2>2. DOMAIN n = DOMAIN m \cup H /\ H \subseteq T
    BY <1>1
  <2> HIDE DEF n, H, T
  <2> QED BY <2>1, <2>2
<1>5. \A u \in DOMAIN m \cup T :
        /\ n[u] \in Int
        /\ u \in DOMAIN m => n[u] >= m[u]
        /\ u \in T => n[u] >= zset[g][u]
        /\ (u \in T /\ n[u] = zset[g][u]) \/ (u \in DOMAIN m /\ n[u] = m[u])
  <2> SUFFICES ASSUME NEW u \in DOMAIN m \cup T
               PROVE  /\ n[u] \in Int
                      /\ u \in DOMAIN m => n[u] >= m[u]
                      /\ u \in T => n[u] >= zset[g][u]
                      /\ (u \in T /\ n[u] = zset[g][u]) \/ (u \in DOMAIN m /\ n[u] = m[u])
    OBVIOUS
  <2>1. CASE u \in H
    <3>1. n[u] = zset[g][u] /\ u \in T /\ (u \in DOMAIN m => zset[g][u] > m[u])
      BY <1>1, <2>1
    <3> HIDE DEF n, T, H
    <3> QED BY <1>3, <3>1
  <2>2. CASE u \notin H
    <3>1. u \in DOMAIN m /\ (u \in T => ~ (zset[g][u] > m[u]))
      BY <2>2
    <3>2. n[u] = m[u]
      BY <1>1, <2>2, <3>1
    <3> HIDE DEF n, T, H
    <3> QED BY <1>3, <3>1, <3>2
  <2> QED BY <2>1, <2>2
<1>6. n \in Board
  <2>1. n \in [DOMAIN m \cup T -> Int]
    <3>1. n = [u \in DOMAIN n |-> n[u]]
      BY <1>1
    <3> HIDE DEF n, T, H
    <3> QED BY <1>4, <1>5, <3>1
  <2>2. DOMAIN m \cup T \subseteq User
    BY <1>3
  <2> HIDE DEF n, T, H
  <2> QED BY <2>1, <2>2 DEF Board
<1>7. ASSUME NEW h \in Region, NEW u \in Leaders(y[h], PerRegionN)
      PROVE  u \in DOMAIN n /\ y[h][u] <= n[u]
  <2>1. CASE h = g
    <3>1. y[h] = zset[g] /\ u \in T
      BY <1>2, <2>1
    <3> HIDE DEF n, y, T, H
    <3> QED BY <1>3, <1>4, <1>5, <3>1
  <2>2. CASE h # g
    <3>1. y[h] = z[h] /\ u \in Leaders(z[h], PerRegionN)
      BY <1>2, <2>2
    <3>2. u \in DOMAIN z[h] /\ u \in DOMAIN m /\ z[h][u] <= m[u]
      BY <3>1 DEF IsMerge, Leaders
    <3>3. z[h][u] \in Int
      BY <3>2, BoardLemma
    <3> HIDE DEF n, y, T, H
    <3> QED BY <1>3, <1>4, <1>5, <3>1, <3>2, <3>3
  <2> QED BY <2>1, <2>2
<1>8. ASSUME NEW u \in DOMAIN n PROVE \E h \in Region : u \in DOMAIN y[h] /\ n[u] = y[h][u]
  <2>1. CASE u \in T /\ n[u] = zset[g][u]
    BY <1>2, <2>1
  <2>2. CASE u \in DOMAIN m /\ n[u] = m[u]
    <3>1. PICK h \in Region : u \in DOMAIN z[h] /\ m[u] = z[h][u]
      BY <2>2 DEF IsMerge
    <3>2. h # g
      BY <3>1, EmptyLemma
    <3>3. y[h] = z[h]
      BY <1>2, <3>2
    <3> QED BY <2>2, <3>1, <3>3
  <2>3. u \in DOMAIN m \cup T
    BY <1>4, <1>8
  <2> HIDE DEF n, y, T, H
  <2> QED BY <1>5, <2>1, <2>2, <2>3
<1> HIDE DEF n, y, T, H
<1>9. IsMerge(n, y)
  BY <1>6, <1>7, <1>8 DEF IsMerge
<1> QED BY <1>6, <1>9 DEF n, y

\* A region is read, or cannot be.
LEMMA ReadStep ==
  ASSUME IInv, NEW g \in Region, ReadRegion(g) \/ ReadFails(g)
  PROVE  IInv'
<1>1. /\ cycle.at = "read" /\ g \in cycle.left /\ InCycle
      /\ UNCHANGED <<global, zset, up>>
  BY DEF ReadRegion, ReadFails, InCycle
<1>2. /\ cycle \in Cycles /\ cycle.left \subseteq Region
      /\ cycle.seen \in [Region -> Board] /\ zset \in [Region -> Board]
      /\ IsMerge(cycle.merged, cycle.seen) /\ \A h \in cycle.left : cycle.seen[h] = NoMembers
  BY <1>1 DEF IInv, Values, Cycles, Merging
<1>3. /\ Merge(cycle.merged, g) \in Board
      /\ IsMerge(Merge(cycle.merged, g), [cycle.seen EXCEPT ![g] = zset[g]])
  BY <1>1, <1>2, MergeStep
<1>4. /\ cycle'.at = "read" /\ cycle'.left = cycle.left \ {g} /\ cycle' \in Cycles
      /\ cycle'.had = cycle.had
      /\ \/ cycle'.merged = cycle.merged /\ cycle'.seen = cycle.seen
         \/ /\ cycle'.merged = Merge(cycle.merged, g)
            /\ cycle'.seen = [cycle.seen EXCEPT ![g] = zset[g]]
  <2>1. CASE ReadRegion(g)
    <3>1. cycle' = [cycle EXCEPT !.left = @ \ {g}, !.merged = Merge(@, g), !.seen[g] = zset[g]]
      BY <2>1 DEF ReadRegion
    <3>2. [cycle.seen EXCEPT ![g] = zset[g]] \in [Region -> Board]
      BY <1>1, <1>2
    <3> QED BY <1>1, <1>2, <1>3, <3>1, <3>2 DEF Cycles
  <2>2. CASE ReadFails(g)
    BY <1>1, <1>2, <2>2 DEF ReadFails, Cycles
  <2> QED BY <2>1, <2>2
<1>5. Values'
  BY <1>1, <1>4 DEF IInv, Values
<1>6. Credited'
  <2> SUFFICES ASSUME NEW h \in Region
               PROVE  /\ \A u \in DOMAIN zset'[h] : zset'[h][u] \in cycle'.had[u]
                      /\ \A u \in DOMAIN cycle'.seen[h] : cycle'.seen[h][u] \in cycle'.had[u]
    BY DEF Credited
  <2>1. /\ \A u \in DOMAIN zset[h] : zset[h][u] \in cycle.had[u]
        /\ \A u \in DOMAIN cycle.seen[h] : cycle.seen[h][u] \in cycle.had[u]
    BY <1>1 DEF IInv, Credited
  <2>2. cycle'.seen[h] = cycle.seen[h] \/ cycle'.seen[h] = zset[h]
    BY <1>2, <1>4
  <2> QED BY <1>1, <1>4, <2>1, <2>2
<1>7. Merging'
  <2>1. IsMerge(cycle'.merged, cycle'.seen)
    BY <1>2, <1>3, <1>4, Zenon
  <2>2. \A h \in cycle'.left : cycle'.seen[h] = NoMembers
    BY <1>1, <1>2, <1>4
  <2> QED BY <2>1, <2>2 DEF Merging
<1>8. MergeExact'
  BY <1>4 DEF MergeExact
<1>9. up
  BY <1>1, CycleUp
<1> QED BY <1>1, <1>5, <1>6, <1>7, <1>8, <1>9, InCycleLemma DEF IInv

\* All is read: what will be written is fixed, and the global leaderboard goes.
LEMMA DelStep ==
  ASSUME IInv, Del
  PROVE  IInv'
<1>1. PICK r \in Rankings(cycle.merged, GlobalTopN) :
        cycle' = [cycle EXCEPT !.at = "zadd", !.merged = NoMembers, !.ranked = r]
  BY DEF Del
<1>2. /\ cycle.at = "read" /\ InCycle /\ global' = NoMembers
      /\ UNCHANGED <<zset, up>>
  BY DEF Del, InCycle
<1>3. /\ cycle \in Cycles /\ cycle.seen \in [Region -> Board]
      /\ IsMerge(cycle.merged, cycle.seen) /\ cycle.merged \in Board
  BY <1>2 DEF IInv, Values, Cycles, Merging
<1>4. r \in Board
  BY <1>3, RankingLemma, Limits
<1>5. /\ cycle' \in Cycles /\ cycle'.at = "zadd" /\ cycle'.ranked = r
      /\ cycle'.seen = cycle.seen /\ cycle'.had = cycle.had
  BY <1>1, <1>3, <1>4, EmptyLemma DEF Cycles
<1>6. Values'
  BY <1>2, <1>5, EmptyLemma, Limits DEF IInv, Values
<1>7. Credited'
  BY <1>2, <1>5 DEF IInv, Credited
<1>8. Merging'
  BY <1>5 DEF Merging
<1>9. MergeExact'
  <2>1. r \in Rankings(BestOf(cycle.seen), GlobalTopN)
    BY <1>3, MergeIsEnough
  <2> QED BY <1>5, <2>1 DEF MergeExact
<1>10. up
  BY <1>2, CycleUp
<1> QED BY <1>2, <1>6, <1>7, <1>8, <1>9, <1>10, InCycleLemma DEF IInv

\* What a cycle is about to write are scores that their users had since it began.
LEMMA RankedHad ==
  ASSUME IInv, cycle.at = "zadd"
  PROVE  /\ cycle.ranked \in Board /\ Cardinality(DOMAIN cycle.ranked) <= GlobalTopN
         /\ \A u \in DOMAIN cycle.ranked : cycle.ranked[u] \in cycle.had[u]
<1> DEFINE b == BestOf(cycle.seen)
<1>1. cycle.seen \in [Region -> Board] /\ cycle.ranked \in Rankings(b, GlobalTopN)
  BY DEF IInv, Values, Cycles, MergeExact
<1>2. /\ b \in Board
      /\ \A u \in DOMAIN b : \E g \in Region : u \in DOMAIN cycle.seen[g] /\ cycle.seen[g][u] = b[u]
  BY <1>1, BestLemma
<1>3. /\ cycle.ranked \in Board /\ Cardinality(DOMAIN cycle.ranked) <= GlobalTopN
      /\ \A u \in DOMAIN cycle.ranked : u \in DOMAIN b /\ cycle.ranked[u] = b[u]
  <2> HIDE DEF b
  <2> QED BY <1>1, <1>2, RankingLemma, Limits
<1>4. \A g \in Region : \A u \in DOMAIN cycle.seen[g] : cycle.seen[g][u] \in cycle.had[u]
  BY DEF IInv, Credited
<1> HIDE DEF b
<1> QED BY <1>2, <1>3, <1>4

\* The ranking is written.
LEMMA ZAddStep ==
  ASSUME IInv, ZAdd
  PROVE  IInv'
<1>1. /\ cycle.at = "zadd" /\ InCycle /\ global' = cycle.ranked /\ cycle' = Idle
      /\ UNCHANGED <<zset, up>>
  BY DEF ZAdd, InCycle
<1>2. Values'
  BY <1>1, RankedHad, IdleLemma DEF IInv, Values
<1>3. Credited' /\ Merging' /\ MergeExact'
  BY <1>1, IdleLemma DEF Credited, Merging, MergeExact
<1>4. up
  BY <1>1, CycleUp
<1> QED BY <1>1, <1>2, <1>3, <1>4, InCycleLemma DEF IInv

\* The replacement fails.
LEMMA ReplaceFailsStep ==
  ASSUME IInv, ReplaceFails
  PROVE  IInv'
<1>1. /\ cycle' = Idle /\ InCycle /\ UNCHANGED <<zset, global>> /\ cycle.at # "idle"
  BY DEF ReplaceFails, InCycle
<1>2. Broker'
  BY <1>1, CycleUp, InCycleLemma
<1> QED BY <1>1, <1>2, CycleKept

\* Every step keeps the invariant.
LEMMA Inductive == IInv /\ [Next]_vars => IInv'
<1> SUFFICES ASSUME IInv, [Next]_vars PROVE IInv'
  OBVIOUS
<1>1. CASE Next
  <2>1. CASE \E g \in Region, u \in User : Score(g, u)
    BY <2>1, ScoreStep
  <2>2. CASE (\E g \in Region : PublishEvent(g) \/ LosePublish(g)) \/ PublishGarbage
    BY <2>2, PublishStep
  <2>3. CASE \E g \in Region : ReadRegion(g) \/ ReadFails(g)
    BY <2>3, ReadStep
  <2>4. CASE Start \/ ConsumerLost \/ Crash
    BY <2>4, ProcessStep
  <2>5. CASE \E m \in DOMAIN bodies : DeliverEvent(m) \/ DropMalformed(m) \/ MarkActive(m)
    BY <2>5, ConsumeStep
  <2>6. CASE Tick \/ Del \/ ZAdd \/ ReplaceFails
    BY <2>6, TickStep, DelStep, ZAddStep, ReplaceFailsStep
  <2> QED BY <1>1, <2>1, <2>2, <2>3, <2>4, <2>5, <2>6 DEF Next
<1>2. CASE UNCHANGED vars
  <2>1. /\ UNCHANGED <<zset, global>> /\ cycle' = cycle
        /\ UNCHANGED <<owed, bodies, queue, tracker, up, consuming>>
    BY <1>2 DEF vars
  <2>2. Broker'
    BY <2>1 DEF IInv, Broker
  <2> QED BY <2>1, <2>2, CycleKept
<1> QED BY <1>1, <1>2

\* The inductive invariant holds of every behaviour.
LEMMA Invariant == Spec => []IInv
BY Initially, Inductive, PTL DEF Spec

-----------------------------------------------------------------------------
(* The theorems.                                                           *)

(* Types; the consumer never holds more than its prefetch, the global ZSET *)
(* never more than globalTopN entries, and what is in memory goes with the *)
(* process.                                                                *)
THEOREM TypeCorrect == Spec => []TypeOK
<1>1. IInv => TypeOK
  BY Implied
<1> QED BY <1>1, Invariant, PTL

(* A score that runCycle writes to the global leaderboard is one the user  *)
(* had in some region since the cycle began, whatever rises, falls or      *)
(* fails while it reads region after region.                               *)
THEOREM NothingIsInvented == Spec => NeverInvents
<1> DEFINE Backed == \A u \in DOMAIN global' : global' # global => global'[u] \in cycle.had[u]
<1>1. ASSUME IInv, [Next]_vars PROVE [Backed]_vars
  <2>1. CASE global' = global
    BY <2>1
  <2>2. CASE Del
    <3>1. DOMAIN global' = {}
      BY <2>2, EmptyLemma DEF Del
    <3> QED BY <3>1
  <2>3. CASE ZAdd
    <3>1. cycle.at = "zadd" /\ global' = cycle.ranked
      BY <2>3 DEF ZAdd
    <3> QED BY <1>1, <3>1, RankedHad
  <2>4. global' = global \/ Del \/ ZAdd
    BY <1>1 DEF vars, Next, Score, PublishEvent, LosePublish, PublishGarbage, Start, ConsumerLost,
       Crash, DeliverEvent, DropMalformed, MarkActive, Tick, ReadRegion, ReadFails, ReplaceFails
  <2> QED BY <2>1, <2>2, <2>3, <2>4
<1> QED BY <1>1, Invariant, PTL DEF Spec, NeverInvents

(* What ReplaceZSet is given is the exact top of the regions as runCycle   *)
(* read them: the first perRegionN entries of each are enough for a global *)
(* top of no more than perRegionN.                                         *)
THEOREM TopIsExact == Spec => []MergeExact
<1>1. IInv => MergeExact
  BY Implied
<1> QED BY <1>1, Invariant, PTL
=============================================================================
