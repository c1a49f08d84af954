-------------------------- MODULE LeaderboardProofs --------------------------
(***************************************************************************)
(* What cmd/api answers from a leaderboard and keeps of it.  Snapshots and *)
(* the history, for every set of users and of requests, every top_n and    *)
(* limit, however long the clock runs and whatever fails.  Below them the  *)
(* requests of Reads, for every finite set of users, every set of requests *)
(* and of counts, and however many commands the writers send.              *)
(***************************************************************************)
EXTENDS Snapshots, Reads, FiniteSetTheorems, SequenceTheorems, WellFoundedInduction, TLAPS

-----------------------------------------------------------------------------
(* Numbers.                                                                *)

\* A set of numbers that is not empty has a least one.
LEMMA Smallest ==
  ASSUME NEW S, S \subseteq Nat, S # {}
  PROVE  \E x \in S : \A y \in S : x <= y
<1>1. \E x \in S : \A y \in S : ~ (<<y, x>> \in OpToRel(<, Nat))
  BY WFMin, NatLessThanWellFounded, Zenon
<1>2. PICK x \in S : \A y \in S : ~ (<<y, x>> \in OpToRel(<, Nat))
  BY <1>1, Zenon
<1>3. \A y \in S : ~ (y < x)
  <2> TAKE y \in S
  <2> y \in Nat /\ x \in Nat
    OBVIOUS
  <2> QED BY <1>2, Zenon DEF OpToRel
<1> QED BY <1>3

\* A set of numbers that is not empty and has a bound has a greatest one.
LEMMA Greatest ==
  ASSUME NEW b \in Nat, NEW S, S \subseteq 0 .. b, S # {}
  PROVE  \E x \in S : \A y \in S : y <= x
<1> DEFINE R == {b - x : x \in S}
<1>1. R \subseteq Nat
  OBVIOUS
<1>2. R # {}
  <2> PICK x \in S : TRUE
    OBVIOUS
  <2> b - x \in R
    OBVIOUS
  <2> QED OBVIOUS
<1>3. \E r \in R : \A y \in R : r <= y
  <2> HIDE DEF R
  <2> QED BY <1>1, <1>2, Smallest, Zenon
<1>4. PICK r \in R : \A y \in R : r <= y
  BY <1>3, Zenon
<1>5. PICK x \in S : r = b - x
  OBVIOUS
<1>6. \A y \in S : r <= b - y
  BY <1>4
<1> QED BY <1>5, <1>6

\* The limits are numbers.
LEMMA Limits == TopNRows \in Nat /\ Limit \in Nat /\ MaxNow \in Nat
BY ConstantsAssumption

\* The column rounds up, and never beyond the clock's count of half seconds.
LEMMA SecondLemma ==
  ASSUME NEW t \in Nat, t >= 1
  PROVE  Second(t) \in Nat /\ 1 <= Second(t) /\ Second(t) <= t
BY DEF Second

\* Numbers that only grow and leave out none are 1, 2, 3 and so on.
LEMMA Consecutive ==
  ASSUME NEW k \in Nat, NEW n \in Nat, NEW p \in [1 .. k -> 1 .. n],
         \A i, j \in 1 .. k : i < j => p[i] < p[j],
         \A i \in 1 .. k : \A j \in 1 .. p[i] - 1 : \E l \in 1 .. k : p[l] = j
  PROVE  \A i \in 1 .. k : p[i] = i
<1> DEFINE Wrong == {i \in 1 .. k : p[i] # i}
<1> SUFFICES ASSUME Wrong # {} PROVE FALSE
  OBVIOUS
<1>1. \E i \in Wrong : \A j \in Wrong : i <= j
  <2>1. Wrong \subseteq Nat
    OBVIOUS
  <2> HIDE DEF Wrong
  <2> QED BY <2>1, Smallest, Zenon
<1>2. PICK i \in Wrong : \A j \in Wrong : i <= j
  BY <1>1, Zenon
<1>3. i \in 1 .. k /\ p[i] # i /\ p[i] \in 1 .. n
  OBVIOUS
<1>4. \A j \in 1 .. i - 1 : p[j] = j
  <2> SUFFICES ASSUME NEW j \in 1 .. i - 1, p[j] # j PROVE FALSE
    OBVIOUS
  <2>1. j \in Wrong
    BY <1>3
  <2> HIDE DEF Wrong
  <2> QED BY <1>2, <1>3, <2>1
<1>5. p[i] > i
  <2> SUFFICES ASSUME p[i] < i PROVE FALSE
    BY <1>3
  <2>1. p[i] \in 1 .. i - 1 /\ p[i] \in 1 .. k
    BY <1>3
  <2>2. p[p[i]] = p[i]
    BY <1>4, <2>1
  <2>3. p[p[i]] < p[i]
    BY <1>3, <2>1
  <2> QED BY <2>1, <2>2, <2>3
<1>6. PICK l \in 1 .. k : p[l] = i
  <2>1. i \in 1 .. p[i] - 1
    BY <1>3, <1>5
  <2> QED BY <1>3, <2>1
<1>7. CASE l < i
  <2>1. l \in 1 .. i - 1
    BY <1>3, <1>7
  <2> QED BY <1>3, <1>4, <1>6, <1>7, <2>1
<1>8. CASE l >= i
  <2>1. CASE l = i
    BY <1>3, <1>6, <2>1
  <2>2. CASE i < l
    <3>1. p[i] < p[l]
      BY <1>3, <2>2
    <3>2. p[i] < i
      BY <1>6, <3>1
    <3> QED BY <1>3, <1>5, <3>2
  <2> QED BY <1>3, <1>8, <2>1, <2>2
<1> QED BY <1>3, <1>7, <1>8

-----------------------------------------------------------------------------
(* The inductive invariant.                                                *)

\* The rows of the snapshot s, and those that are committed.
RowAt(s, i) ==
  [snapshot_at |-> Second(snap[s].stamp), place |-> i, entry |-> snap[s].rows[i], of |-> s]
Rows(s, k) == {RowAt(s, i) : i \in 1 .. k}
Whole(s) == Rows(s, Len(snap[s].rows))
Written(s) == {r \in table : r.of = s}

\* What exists when: the clock, the leaderboard, the table.
World ==
  /\ now \in Nat /\ now >= 1 /\ IsFiniteSet(DOMAIN zset)
  /\ IsFiniteSet(table)
  /\ \A r \in table : r.of \in Snap /\ r.snapshot_at \in 1 .. now

\* A snapshot keeps its rows in the transaction until they are all committed or none is.
SnapOK(s) ==
  /\ snap[s] = [at |-> snap[s].at, rows |-> snap[s].rows, stamp |-> snap[s].stamp,
                inserted |-> snap[s].inserted, tx |-> snap[s].tx]
  /\ snap[s].at \in {"new", "read", "insert", "ok", "error"}
  /\ snap[s].rows \in Seq(Range(snap[s].rows))
  /\ snap[s].inserted \in 0 .. Len(snap[s].rows)
  /\ snap[s].at \in {"new", "read"} => snap[s].inserted = 0 /\ snap[s].tx = {}
  /\ snap[s].at \in {"new", "read", "insert"} => Written(s) = {}
  /\ snap[s].at = "insert" => /\ snap[s].tx = Rows(s, snap[s].inserted)
                              /\ snap[s].stamp \in 1 .. now
  /\ snap[s].at = "ok" => snap[s].tx = Whole(s)
  /\ snap[s].at = "error" => snap[s].tx \in {{}, Whole(s)}
  /\ snap[s].at \in {"ok", "error"} => Written(s) = snap[s].tx
  /\ IsFiniteSet(snap[s].tx)

Snaps == snap = [s \in Snap |-> snap[s]] /\ \A s \in Snap : SnapOK(s)

\* A history request goes by a snapshot that is there, if there is one.
ReaderOK(h) ==
  /\ reader[h] = [at |-> reader[h].at, latest |-> reader[h].latest, rows |-> reader[h].rows]
  /\ reader[h].at \in {"new", "found", "done"} /\ reader[h].latest \in Nat
  /\ reader[h].at = "new" => before[h] = {}
  /\ reader[h].at = "found" => reader[h].latest # 0
  /\ reader[h].at # "done" => reader[h].rows = <<>>
  /\ reader[h].at = "done" => (reader[h].rows # <<>> <=> reader[h].latest # 0 /\ Limit > 0)
  /\ reader[h].at # "new" /\ reader[h].latest # 0 => reader[h].latest \in Seconds(table)

Readers ==
  /\ reader = [h \in Reader |-> reader[h]] /\ before = [h \in Reader |-> before[h]]
  /\ \A h \in Reader : ReaderOK(h)

\* The requests that were done before another began found nothing later.
Ordered ==
  \A h \in Reader : \A k \in before[h] :
    k \in Reader /\ reader[k].at = "done" /\ reader[k].latest <= reader[h].latest

\* An answer is of one snapshot if its second has only one.
Answered ==
  \A h \in Reader : reader[h].at = "done" /\ reader[h].rows # <<>> =>
    \A s \in Snap : Of(reader[h].latest) = {s} =>
      [i \in DOMAIN reader[h].rows |-> reader[h].rows[i].entry] = Beginning(s)

IInv == World /\ Snaps /\ Readers /\ Ordered /\ Answered

-----------------------------------------------------------------------------
(* What the rows of a snapshot are.                                        *)

\* A snapshot has as many rows as entries were read.
LEMMA RowsLemma ==
  ASSUME NEW s \in Snap, NEW k \in Nat
  PROVE  /\ IsFiniteSet(Rows(s, k)) /\ Cardinality(Rows(s, k)) = k
         /\ \A i \in 1 .. k : RowAt(s, i) \in Rows(s, k) /\ RowAt(s, i).place = i
         /\ \A r \in Rows(s, k) : r.place \in 1 .. k /\ r = RowAt(s, r.place)
         /\ \A r \in Rows(s, k) : r.of = s /\ r.snapshot_at = Second(snap[s].stamp)
<1> DEFINE f == [i \in 1 .. k |-> RowAt(s, i)]
<1>1. \A i \in 1 .. k : RowAt(s, i).place = i /\ RowAt(s, i).of = s
                        /\ RowAt(s, i).snapshot_at = Second(snap[s].stamp)
  BY DEF RowAt
<1>2. f \in Bijection(1 .. k, Rows(s, k))
  <2>1. f \in [1 .. k -> Rows(s, k)]
    BY DEF Rows
  <2>2. \A i, j \in 1 .. k : f[i] = f[j] => i = j
    BY <1>1
  <2>3. \A r \in Rows(s, k) : \E i \in 1 .. k : f[i] = r
    BY DEF Rows
  <2> HIDE DEF f
  <2> QED BY <2>1, <2>2, <2>3 DEF Bijection, Injection, Surjection, IsInjective
<1>3. IsFiniteSet(1 .. k) /\ Cardinality(1 .. k) = k
  BY FS_Interval
<1>4. IsFiniteSet(Rows(s, k)) /\ Cardinality(Rows(s, k)) = k
  BY <1>2, <1>3, FS_Bijection DEF ExistsBijection
<1>5. \A i \in 1 .. k : RowAt(s, i) \in Rows(s, k)
  BY DEF Rows
<1>6. \A r \in Rows(s, k) : \E i \in 1 .. k : r = RowAt(s, i)
  BY DEF Rows
<1> HIDE DEF f
<1> QED BY <1>1, <1>4, <1>5, <1>6

\* Reading the top gives a sequence.
LEMMA TopNLemma ==
  ASSUME IsFiniteSet(DOMAIN zset)
  PROVE  TopN(zset, TopNRows) \in Seq(Range(TopN(zset, TopNRows)))
<1> DEFINE size == Cardinality(DOMAIN zset)
<1> DEFINE stop == (IF TopNRows > 0 THEN TopNRows ELSE 10) - 1
<1> DEFINE last == IF stop < 0 THEN size + stop ELSE IF stop < size THEN stop ELSE size - 1
<1> DEFINE n == last - 0 + 1
<1> DEFINE e(i) == LET u == CHOOSE v \in DOMAIN zset : RevRank(zset, v) = 0 + i - 1
                   IN  [user |-> u, score |-> zset[u]]
<1>1. size \in Nat
  BY FS_CardinalityType
<1>2. stop \in Nat
  BY Limits
<1>3. n \in Nat
  <2> HIDE DEF size, stop
  <2> QED BY <1>1, <1>2
<1>4. TopN(zset, TopNRows) = [i \in 1 .. n |-> e(i)]
  BY DEF TopN, RevRange
<1> HIDE DEF n, e
<1> DEFINE q == [i \in 1 .. n |-> e(i)]
<1>5. q \in [1 .. n -> Range(q)]
  BY DEF Range
<1> HIDE DEF q
<1>6. q \in Seq(Range(q))
  BY <1>3, <1>5, SeqDef
<1> QED BY <1>4, <1>6 DEF q

\* The latest snapshot_at is in the table, and none is later.
LEMMA LatestLemma ==
  ASSUME World
  PROVE  /\ Latest \in Nat
         /\ table = {} => Latest = 0
         /\ table # {} => Latest # 0 /\ Latest \in Seconds(table)
         /\ \A t \in Seconds(table) : t <= Latest
<1>1. CASE table = {}
  BY <1>1 DEF Latest, Seconds
<1>2. CASE table # {}
  <2>1. Seconds(table) \subseteq 0 .. now /\ Seconds(table) \subseteq 1 .. now /\ now \in Nat
    BY DEF World, Seconds
  <2>2. Seconds(table) # {}
    <3> PICK r \in table : TRUE
      BY <1>2
    <3> r.snapshot_at \in Seconds(table)
      BY DEF Seconds
    <3> QED OBVIOUS
  <2>3. \E t \in Seconds(table) : \A v \in Seconds(table) : v <= t
    BY <2>1, <2>2, Greatest, Zenon
  <2>4. Latest \in Seconds(table) /\ \A v \in Seconds(table) : v <= Latest
    BY <1>2, <2>3, Zenon DEF Latest
  <2> QED BY <1>2, <2>1, <2>4
<1> QED BY <1>1, <1>2

-----------------------------------------------------------------------------
(* What an answer is.                                                      *)

\* An answer has rows if there are any to be had.
LEMMA AnswerSize ==
  ASSUME NEW R, IsFiniteSet(R), NEW a \in Answers(R)
  PROVE  /\ a \in [1 .. (IF Limit < Cardinality(R) THEN Limit ELSE Cardinality(R)) -> R]
         /\ a # <<>> <=> R # {} /\ Limit > 0
<1> DEFINE size == IF Limit < Cardinality(R) THEN Limit ELSE Cardinality(R)
<1>1. a \in [1 .. size -> R]
  BY DEF Answers
<1>2. Cardinality(R) \in Nat /\ Limit \in Nat /\ (Cardinality(R) = 0 <=> R = {})
  BY FS_CardinalityType, FS_EmptySet, Limits
<1>3. size \in Nat /\ (size # 0 <=> R # {} /\ Limit > 0)
  BY <1>2
<1>4. DOMAIN a = 1 .. size
  BY <1>1
<1>5. a \in Seq(R)
  <2> HIDE DEF size
  <2> QED BY <1>1, <1>3, SeqDef
<1>6. a # <<>> <=> size # 0
  <2> HIDE DEF size
  <2>1. Len(a) = size
    BY <1>3, <1>4, <1>5, LenProperties
  <2> QED BY <1>5, <2>1, EmptySeq
<1> QED BY <1>1, <1>3, <1>6

\* Of the rows of one snapshot the answer has the first, in order.
LEMMA OneSnapshot ==
  ASSUME NEW s \in Snap, SnapOK(s), NEW a \in Answers(Whole(s))
  PROVE  [i \in DOMAIN a |-> a[i].entry] = Beginning(s)
<1> DEFINE n == Len(snap[s].rows)
<1> DEFINE k == IF Limit < n THEN Limit ELSE n
<1>1. n \in Nat /\ Limit \in Nat /\ k \in Nat /\ k <= n
  <2>1. n \in Nat
    BY LenProperties DEF SnapOK
  <2> HIDE DEF n
  <2> QED BY <2>1, Limits
<1>2. /\ IsFiniteSet(Whole(s)) /\ Cardinality(Whole(s)) = n
      /\ \A i \in 1 .. n : RowAt(s, i) \in Whole(s) /\ RowAt(s, i).place = i
      /\ \A r \in Whole(s) : r.place \in 1 .. n /\ r = RowAt(s, r.place)
  <2> HIDE DEF k
  <2> QED BY <1>1, RowsLemma DEF Whole
<1>3. /\ a \in [1 .. k -> Whole(s)] /\ IsInjective(a)
      /\ \A i, j \in 1 .. k : i < j => a[i].place <= a[j].place
      /\ \A r \in Whole(s) \ ToSet(a) : \A i \in 1 .. k : a[i].place <= r.place
  <2>1. a \in [1 .. k -> Whole(s)]
    BY <1>2, AnswerSize
  <2>2. DOMAIN a = 1 .. k
    BY <2>1
  <2> HIDE DEF n, k
  <2> QED BY <2>1, <2>2 DEF Answers
<1> DEFINE p == [i \in 1 .. k |-> a[i].place]
<1>4. p \in [1 .. k -> 1 .. n] /\ \A i \in 1 .. k : a[i] = RowAt(s, p[i])
  <2> HIDE DEF n, k
  <2> QED BY <1>2, <1>3
<1>5. \A i, j \in 1 .. k : i < j => p[i] < p[j]
  <2> HIDE DEF n, k
  <2> SUFFICES ASSUME NEW i \in 1 .. k, NEW j \in 1 .. k, i < j PROVE p[i] < p[j]
    OBVIOUS
  <2>1. p[i] <= p[j] /\ p[i] \in Nat /\ p[j] \in Nat
    BY <1>1, <1>3, <1>4
  <2>2. a[i] # a[j]
    BY <1>1, <1>3 DEF IsInjective
  <2>3. p[i] # p[j]
    BY <1>4, <2>2
  <2> QED BY <2>1, <2>3
<1>6. \A i \in 1 .. k : \A j \in 1 .. p[i] - 1 : \E l \in 1 .. k : p[l] = j
  <2> SUFFICES ASSUME NEW i \in 1 .. k, NEW j \in 1 .. p[i] - 1 PROVE \E l \in 1 .. k : p[l] = j
    OBVIOUS
  <2>1. p[i] \in 1 .. n /\ j \in 1 .. n /\ j < p[i] /\ p[i] = a[i].place
    <3>1. p[i] \in 1 .. n
      BY <1>4
    <3> HIDE DEF n, k
    <3> QED BY <1>1, <3>1
  <2>2. RowAt(s, j) \in ToSet(a)
    <3>1. RowAt(s, j) \in Whole(s) /\ RowAt(s, j).place = j
      BY <1>2, <2>1
    <3> HIDE DEF n, k, p
    <3>2. ~ (a[i].place <= j)
      BY <1>1, <2>1
    <3> QED BY <1>3, <3>1, <3>2
  <2>3. PICK l \in 1 .. k : a[l] = RowAt(s, j)
    <3> HIDE DEF n, k, p
    <3> QED BY <1>3, <2>2 DEF ToSet
  <2> QED BY <1>2, <2>1, <2>3
<1>7. \A i \in 1 .. k : p[i] = i
  <2> HIDE DEF n, k, p
  <2>1. k \in Nat /\ n \in Nat /\ p \in [1 .. k -> 1 .. n]
    BY <1>1, <1>4
  <2> QED BY <2>1, <1>5, <1>6, Consecutive, Zenon
<1>8. \A i \in 1 .. k : a[i].entry = snap[s].rows[i]
  <2> HIDE DEF n, k, p
  <2> SUFFICES ASSUME NEW i \in 1 .. k PROVE a[i].entry = snap[s].rows[i]
    OBVIOUS
  <2>1. a[i] = RowAt(s, i)
    BY <1>4, <1>7
  <2> QED BY <2>1 DEF RowAt
<1>9. Beginning(s) = [i \in 1 .. k |-> snap[s].rows[i]]
  <2>1. snap[s].rows \in Seq(Range(snap[s].rows))
    BY DEF SnapOK
  <2>2. Beginning(s) = SubSeq(snap[s].rows, 1, k)
    BY DEF Beginning
  <2> HIDE DEF k, n, p
  <2> QED BY <1>1, <2>1, <2>2
<1>10. DOMAIN a = 1 .. k
  BY <1>3
<1> HIDE DEF k
<1> QED BY <1>8, <1>9, <1>10

-----------------------------------------------------------------------------
(* The steps.                                                              *)

\* At the start.
LEMMA Initially == Init => IInv
<1> SUFFICES ASSUME Init PROVE IInv
  OBVIOUS
<1>1. World
  <2>1. now = 1 /\ zset = <<>> /\ table = {}
    BY DEF Init, NoMembers
  <2>2. DOMAIN zset = {}
    BY <2>1
  <2> QED BY <2>1, <2>2, FS_EmptySet DEF World
<1>2. Snaps
  <2>1. snap = [s \in Snap |-> snap[s]] /\ \A s \in Snap : snap[s] = NewSnap
    BY DEF Init
  <2>2. ASSUME NEW s \in Snap PROVE SnapOK(s)
    <3>1. snap[s] = [at |-> "new", rows |-> <<>>, stamp |-> 0, inserted |-> 0, tx |-> {}]
      BY <2>1 DEF NewSnap
    <3>2. snap[s].rows \in Seq(Range(snap[s].rows)) /\ Len(snap[s].rows) = 0
      BY <3>1, EmptySeq
    <3>3. Written(s) = {}
      BY DEF Init, Written
    <3> QED BY <3>1, <3>2, <3>3, FS_EmptySet DEF SnapOK
  <2> QED BY <2>1, <2>2 DEF Snaps
<1>3. Readers
  BY DEF Init, Readers, ReaderOK, NewReader
<1>4. Ordered /\ Answered
  BY DEF Init, Ordered, Answered, NewReader
<1> QED BY <1>1, <1>2, <1>3, <1>4 DEF IInv

\* A snapshot that a step leaves alone.
LEMMA SameSnap ==
  ASSUME NEW q \in Snap, SnapOK(q), snap'[q] = snap[q], Written(q)' = Written(q),
         now \in Nat, now' \in Nat, now' >= now
  PROVE  SnapOK(q)'
<1>1. \A i : RowAt(q, i)' = RowAt(q, i)
  BY DEF RowAt
<1>2. \A k : Rows(q, k)' = Rows(q, k)
  BY <1>1 DEF Rows
<1>3. Whole(q)' = Whole(q) /\ Rows(q, snap[q].inserted)' = Rows(q, snap[q].inserted)
  BY <1>2 DEF Whole
<1>4. snap[q].stamp \in 1 .. now => snap'[q].stamp \in 1 .. now'
  OBVIOUS
<1> QED BY <1>3, <1>4 DEF SnapOK

\* The history does not change while rows are added.
LEMMA ReadersKept ==
  ASSUME IInv, UNCHANGED <<reader, before>>, table \subseteq table',
         \A s \in Snap : Written(s) # {} => snap'[s].rows = snap[s].rows
  PROVE  Readers' /\ Ordered' /\ Answered'
<1>1. Seconds(table) \subseteq Seconds(table')
  BY DEF Seconds
<1>2. Readers'
  <2> SUFFICES ASSUME NEW h \in Reader PROVE ReaderOK(h)'
    BY DEF IInv, Readers
  <2>1. ReaderOK(h)
    BY DEF IInv, Readers
  <2>2. (reader[h].at # "new" /\ reader[h].latest # 0 => reader[h].latest \in Seconds(table))'
    BY <1>1, <2>1 DEF ReaderOK
  <2> QED BY <2>1, <2>2 DEF ReaderOK
<1>3. Ordered'
  BY DEF IInv, Ordered
<1>4. Answered'
  <2> SUFFICES ASSUME NEW h \in Reader, reader[h].at = "done", reader[h].rows # <<>>,
                      NEW s \in Snap, Of(reader[h].latest)' = {s}
               PROVE  [i \in DOMAIN reader[h].rows |-> reader[h].rows[i].entry] = Beginning(s)'
    BY DEF Answered
  <2> DEFINE t == reader[h].latest
  <2>1. t \in Seconds(table)
    BY DEF IInv, Readers, ReaderOK
  <2>2. PICK r \in table : r.snapshot_at = t
    BY <2>1 DEF Seconds
  <2>3. Of(t) \subseteq Of(t)' /\ r.of \in Of(t)
    BY <2>2 DEF Of
  <2>4. Of(t) = {s} /\ r.of = s
    BY <2>3
  <2>5. Written(s) # {}
    BY <2>4 DEF Written
  <2>6. Beginning(s)' = Beginning(s)
    BY <2>5 DEF Beginning
  <2> QED BY <2>4, <2>6 DEF IInv, Answered
<1> QED BY <1>2, <1>3, <1>4

\* A step of the clock or of the leaderboard.
LEMMA WorldStep ==
  ASSUME IInv, Tick \/ \E u \in User : Write(u)
  PROVE  IInv'
<1>1. /\ UNCHANGED <<table, snap, reader, before>>
      /\ now \in Nat /\ now' \in Nat /\ now' >= now /\ now >= 1
  BY DEF Tick, Write, IInv, World
<1>2. IsFiniteSet(DOMAIN zset')
  <2>1. IsFiniteSet(DOMAIN zset)
    BY DEF IInv, World
  <2>2. CASE Tick
    BY <2>1, <2>2 DEF Tick
  <2>3. ASSUME NEW u \in User, Write(u) PROVE IsFiniteSet(DOMAIN zset')
    <3>1. DOMAIN zset' = DOMAIN zset \cup {u}
      BY <2>3 DEF Write, Rescored, ZIncrBy
    <3> QED BY <2>1, <3>1, FS_AddElement
  <2> QED BY <2>2, <2>3
<1>3. World'
  <2>1. \A r \in table : r.of \in Snap /\ r.snapshot_at \in 1 .. now
    BY DEF IInv, World
  <2>2. \A r \in table : r.of \in Snap /\ r.snapshot_at \in 1 .. now'
    BY <1>1, <2>1
  <2> QED BY <1>1, <1>2, <2>2 DEF IInv, World
<1>4. Snaps'
  <2>1. \A s \in Snap : SnapOK(s) /\ snap'[s] = snap[s] /\ Written(s)' = Written(s)
    BY <1>1 DEF IInv, Snaps, Written
  <2>2. \A s \in Snap : SnapOK(s)'
    BY <1>1, <2>1, SameSnap
  <2> QED BY <1>1, <2>2 DEF IInv, Snaps
<1>5. Readers' /\ Ordered' /\ Answered'
  BY <1>1, ReadersKept
<1> QED BY <1>3, <1>4, <1>5 DEF IInv

\* A step of the snapshot s, but for what it does to s.
LEMMA SnapStep ==
  ASSUME IInv, NEW s \in Snap, Others, snap' = [snap EXCEPT ![s] = snap'[s]], SnapOK(s)', World',
         table \subseteq table', \A r \in table' \ table : r.of = s,
         Written(s) # {} => snap'[s].rows = snap[s].rows
  PROVE  IInv'
<1>1. /\ UNCHANGED <<zset, now, reader, before>> /\ now \in Nat
      /\ snap = [q \in Snap |-> snap[q]]
      /\ \A q \in Snap : SnapOK(q)
  BY DEF IInv, World, Snaps, Others
<1>2. \A q \in Snap \ {s} : snap'[q] = snap[q]
  BY <1>1
<1>3. snap' = [q \in Snap |-> snap'[q]]
  BY <1>1
<1>4. \A q \in Snap \ {s} : Written(q)' = Written(q)
  BY DEF Written
<1>5. \A q \in Snap : SnapOK(q)'
  <2> SUFFICES ASSUME NEW q \in Snap, q # s PROVE SnapOK(q)'
    OBVIOUS
  <2>1. snap'[q] = snap[q] /\ Written(q)' = Written(q) /\ SnapOK(q) /\ now' = now
    BY <1>1, <1>2, <1>4
  <2> QED BY <1>1, <2>1, SameSnap
<1>6. Readers' /\ Ordered' /\ Answered'
  <2>1. \A q \in Snap : Written(q) # {} => snap'[q].rows = snap[q].rows
    BY <1>2
  <2> QED BY <1>1, <2>1, ReadersKept
<1> QED BY <1>3, <1>5, <1>6 DEF IInv, Snaps

\* The top is read, then the clock.
LEMMA BeginStep ==
  ASSUME IInv, NEW s \in Snap, ReadTop(s) \/ Stamp(s)
  PROVE  IInv'
<1>1. /\ Others /\ UNCHANGED <<faults, table>> /\ SnapOK(s) /\ World
      /\ snap = [q \in Snap |-> snap[q]] /\ now' = now
  BY DEF ReadTop, Stamp, IInv, Snaps, Others
<1>2. Written(s)' = Written(s) /\ Written(s) = {}
  BY <1>1 DEF Written, SnapOK, ReadTop, Stamp
<1>3. SnapOK(s)' /\ snap' = [snap EXCEPT ![s] = snap'[s]]
  <2>1. CASE ReadTop(s)
    <3>1. snap[s].at = "new" /\ snap[s].inserted = 0 /\ snap[s].tx = {}
      BY <1>1, <2>1 DEF ReadTop, SnapOK
    <3>2. snap'[s] = [at |-> "read", rows |-> TopN(zset, TopNRows), stamp |-> snap[s].stamp,
                      inserted |-> 0, tx |-> {}]
      BY <1>1, <2>1, <3>1 DEF ReadTop, SnapOK
    <3>3. snap'[s].rows \in Seq(Range(snap'[s].rows))
      BY <1>1, <3>2, TopNLemma DEF World
    <3>4. Len(snap'[s].rows) \in Nat
      BY <3>3, LenProperties
    <3>5. SnapOK(s)'
      BY <1>2, <3>2, <3>3, <3>4, FS_EmptySet DEF SnapOK
    <3>6. snap' = [snap EXCEPT ![s] = snap'[s]]
      BY <1>1, <2>1 DEF ReadTop
    <3> QED BY <3>5, <3>6
  <2>2. CASE Stamp(s)
    <3>1. snap[s].at = "read" /\ snap[s].inserted = 0 /\ snap[s].tx = {}
      BY <1>1, <2>2 DEF Stamp, SnapOK
    <3>2. snap'[s] = [at |-> "insert", rows |-> snap[s].rows, stamp |-> now,
                      inserted |-> 0, tx |-> {}]
      BY <1>1, <2>2, <3>1 DEF Stamp, SnapOK
    <3>3. snap[s].rows \in Seq(Range(snap[s].rows)) /\ Len(snap[s].rows) \in Nat
      BY <1>1, LenProperties DEF SnapOK
    <3>4. Rows(s, snap[s].inserted)' = {}
      BY <3>2 DEF Rows
    <3>5. now \in 1 .. now
      BY <1>1 DEF World
    <3>6. SnapOK(s)'
      BY <1>1, <1>2, <3>2, <3>3, <3>4, <3>5, FS_EmptySet DEF SnapOK
    <3>7. snap' = [snap EXCEPT ![s] = snap'[s]]
      BY <1>1, <2>2 DEF Stamp
    <3> QED BY <3>6, <3>7
  <2> QED BY <2>1, <2>2
<1>4. World'
  BY <1>1 DEF World, Others
<1> QED BY <1>1, <1>2, <1>3, <1>4, SnapStep

\* A row is inserted in the transaction.
LEMMA InsertStep ==
  ASSUME IInv, NEW s \in Snap, Insert(s)
  PROVE  IInv'
<1>1. /\ Others /\ UNCHANGED <<faults, table>> /\ SnapOK(s) /\ World
      /\ snap = [q \in Snap |-> snap[q]] /\ now' = now
      /\ snap[s].at = "insert" /\ snap[s].inserted < Len(snap[s].rows)
      /\ snap' = [snap EXCEPT ![s].inserted = @ + 1, ![s].tx = @ \cup {Row(s)}]
  BY DEF Insert, Inserting, IInv, Snaps, Others
<1>2. /\ Written(s)' = Written(s) /\ Written(s) = {}
      /\ snap[s].rows \in Seq(Range(snap[s].rows)) /\ Len(snap[s].rows) \in Nat
      /\ snap[s].inserted \in 0 .. Len(snap[s].rows)
      /\ snap[s].tx = Rows(s, snap[s].inserted) /\ IsFiniteSet(snap[s].tx)
      /\ snap[s].stamp \in 1 .. now
  BY <1>1, LenProperties DEF Written, SnapOK
<1>3. snap'[s] = [at |-> "insert", rows |-> snap[s].rows, stamp |-> snap[s].stamp,
                  inserted |-> snap[s].inserted + 1, tx |-> snap[s].tx \cup {Row(s)}]
  BY <1>1 DEF SnapOK
<1>4. Row(s) = RowAt(s, snap[s].inserted + 1)
  BY DEF Row, RowAt
<1>5. Rows(s, snap[s].inserted + 1) = snap[s].tx \cup {Row(s)}
  <2>1. 1 .. snap[s].inserted + 1 = (1 .. snap[s].inserted) \cup {snap[s].inserted + 1}
    BY <1>2
  <2> QED BY <1>2, <1>4, <2>1 DEF Rows
<1>6. snap'[s].tx = Rows(s, snap[s].inserted)'
  <2>1. Rows(s, snap[s].inserted)' = Rows(s, snap'[s].inserted)
    BY <1>3 DEF Rows, RowAt
  <2> QED BY <1>3, <1>5, <2>1
<1>7. IsFiniteSet(snap'[s].tx)
  <2>1. IsFiniteSet(snap[s].tx \cup {Row(s)})
    BY <1>2, FS_AddElement
  <2> QED BY <1>3, <2>1
<1>8. snap'[s].inserted \in 0 .. Len(snap'[s].rows)
  <2>1. snap[s].inserted + 1 \in 0 .. Len(snap[s].rows)
    BY <1>1, <1>2
  <2>2. snap'[s].inserted = snap[s].inserted + 1 /\ snap'[s].rows = snap[s].rows
    BY <1>3
  <2> QED BY <2>1, <2>2
<1>9. SnapOK(s)'
  BY <1>1, <1>2, <1>3, <1>6, <1>7, <1>8 DEF SnapOK
<1>10. World' /\ snap' = [snap EXCEPT ![s] = snap'[s]]
  BY <1>1 DEF World, Others
<1> QED BY <1>1, <1>2, <1>9, <1>10, SnapStep

\* All rows become visible at once.
LEMMA CommitStep ==
  ASSUME IInv, NEW s \in Snap, Commit(s)
  PROVE  IInv'
<1>1. /\ Others /\ SnapOK(s) /\ World /\ now' = now
      /\ snap = [q \in Snap |-> snap[q]]
      /\ snap[s].at = "insert" /\ ~ (snap[s].inserted < Len(snap[s].rows))
      /\ table' = table \cup snap[s].tx
      /\ \/ snap' = [snap EXCEPT ![s].at = "ok"]
         \/ snap' = [snap EXCEPT ![s].at = "error"]
  BY DEF Commit, Inserting, IInv, Snaps, Others
<1>2. /\ Written(s) = {}
      /\ snap[s].rows \in Seq(Range(snap[s].rows)) /\ Len(snap[s].rows) \in Nat
      /\ snap[s].inserted \in 0 .. Len(snap[s].rows)
      /\ snap[s].tx = Rows(s, snap[s].inserted) /\ IsFiniteSet(snap[s].tx)
      /\ snap[s].stamp \in 1 .. now
  BY <1>1, LenProperties DEF SnapOK
<1>3. snap[s].inserted = Len(snap[s].rows)
  BY <1>1, <1>2
<1>4. snap[s].tx = Whole(s) /\ \A r \in snap[s].tx : r.of = s /\ r.snapshot_at \in 1 .. now
  <2>1. snap[s].tx = Rows(s, Len(snap[s].rows))
    BY <1>2, <1>3
  <2>2. \A r \in snap[s].tx : r.of = s /\ r.snapshot_at = Second(snap[s].stamp)
    BY <1>2, <2>1, RowsLemma
  <2>3. Second(snap[s].stamp) \in 1 .. now
    <3>1. snap[s].stamp \in Nat /\ snap[s].stamp >= 1 /\ snap[s].stamp <= now /\ now \in Nat
      BY <1>1, <1>2 DEF World
    <3> QED BY <3>1, SecondLemma
  <2> QED BY <2>1, <2>2, <2>3 DEF Whole
<1>5. /\ snap'[s] = [at |-> snap'[s].at, rows |-> snap[s].rows, stamp |-> snap[s].stamp,
                     inserted |-> snap[s].inserted, tx |-> snap[s].tx]
      /\ snap'[s].at \in {"ok", "error"}
      /\ snap' = [snap EXCEPT ![s] = snap'[s]]
  BY <1>1 DEF SnapOK
<1>6. Whole(s)' = Whole(s)
  BY <1>5 DEF Whole, Rows, RowAt
<1>7. Written(s)' = snap[s].tx
  BY <1>1, <1>2, <1>4 DEF Written
<1>8. SnapOK(s)'
  <2>1. snap'[s].tx = snap[s].tx /\ snap'[s].rows = snap[s].rows
        /\ snap'[s].inserted = snap[s].inserted
    BY <1>5
  <2> QED BY <1>2, <1>4, <1>5, <1>6, <1>7, <2>1 DEF SnapOK
<1>9. World'
  <2>1. IsFiniteSet(table')
    BY <1>1, <1>2, FS_Union DEF World
  <2>2. \A r \in table' : r.of \in Snap /\ r.snapshot_at \in 1 .. now
    BY <1>1, <1>4 DEF World
  <2> QED BY <1>1, <2>1, <2>2 DEF World, Others
<1>10. \A r \in table' \ table : r.of = s
  BY <1>1, <1>4
<1> QED BY <1>1, <1>2, <1>5, <1>8, <1>9, <1>10, SnapStep

\* Nothing is written.
LEMMA RollbackStep ==
  ASSUME IInv, NEW s \in Snap, Rollback(s)
  PROVE  IInv'
<1>1. /\ Others /\ SnapOK(s) /\ World /\ now' = now /\ UNCHANGED table
      /\ snap = [q \in Snap |-> snap[q]] /\ snap[s].at = "insert"
      /\ snap' = [snap EXCEPT ![s].at = "error", ![s].tx = {}]
  BY DEF Rollback, IInv, Snaps, Others
<1>2. Written(s)' = Written(s) /\ Written(s) = {}
  BY <1>1 DEF Written, SnapOK
<1>3. /\ snap'[s] = [at |-> "error", rows |-> snap[s].rows, stamp |-> snap[s].stamp,
                     inserted |-> snap[s].inserted, tx |-> {}]
      /\ snap' = [snap EXCEPT ![s] = snap'[s]]
  BY <1>1 DEF SnapOK
<1>4. /\ snap[s].rows \in Seq(Range(snap[s].rows))
      /\ snap[s].inserted \in 0 .. Len(snap[s].rows)
  BY <1>1 DEF SnapOK
<1>5. SnapOK(s)'
  BY <1>2, <1>3, <1>4, FS_EmptySet DEF SnapOK
<1>6. World'
  BY <1>1 DEF World, Others
<1> QED BY <1>1, <1>2, <1>3, <1>5, <1>6, SnapStep

\* A history request leaves the rest alone.
LEMMA RestKept ==
  ASSUME IInv, UNCHANGED <<zset, writes, now, faults, table, snap>>
  PROVE  World' /\ Snaps'
<1>1. World'
  BY DEF IInv, World
<1>2. \A s \in Snap : SnapOK(s) /\ snap'[s] = snap[s] /\ Written(s)' = Written(s)
  BY DEF IInv, Snaps, Written
<1>3. now \in Nat /\ now' = now
  BY DEF IInv, World
<1>4. \A s \in Snap : SnapOK(s)'
  BY <1>2, <1>3, SameSnap
<1> QED BY <1>1, <1>4 DEF IInv, Snaps

\* The latest snapshot is found: none of those found before was later.
LEMMA FindLatestStep ==
  ASSUME IInv, NEW h \in Reader, FindLatest(h)
  PROVE  IInv'
<1>1. /\ reader[h].at = "new"
      /\ reader' = [reader EXCEPT ![h].at = IF table = {} THEN "done" ELSE "found",
                                  ![h].latest = Latest]
      /\ before' = [before EXCEPT ![h] = {k \in Reader : reader[k].at = "done"}]
      /\ UNCHANGED <<zset, writes, now, faults, table, snap>>
  BY DEF FindLatest
<1>2. World' /\ Snaps' /\ World
  BY <1>1, RestKept DEF IInv
<1>3. /\ reader = [k \in Reader |-> reader[k]] /\ before = [k \in Reader |-> before[k]]
      /\ \A k \in Reader : ReaderOK(k)
  BY DEF IInv, Readers
<1>4. /\ reader'[h] = [at |-> IF table = {} THEN "done" ELSE "found", latest |-> Latest,
                       rows |-> <<>>]
      /\ \A k \in Reader \ {h} : reader'[k] = reader[k] /\ before'[k] = before[k]
      /\ before'[h] = {k \in Reader : reader[k].at = "done"}
      /\ reader' = [k \in Reader |-> reader'[k]] /\ before' = [k \in Reader |-> before'[k]]
  <2>1. /\ reader[h] = [at |-> reader[h].at, latest |-> reader[h].latest, rows |-> reader[h].rows]
        /\ reader[h].rows = <<>>
    BY <1>1, <1>3 DEF ReaderOK
  <2>2. reader'[h] = [reader[h] EXCEPT !.at = IF table = {} THEN "done" ELSE "found",
                                       !.latest = Latest]
    BY <1>1, <1>3
  <2>3. reader'[h] = [at |-> IF table = {} THEN "done" ELSE "found", latest |-> Latest,
                      rows |-> <<>>]
    BY <2>1, <2>2
  <2>4. /\ \A k \in Reader \ {h} : reader'[k] = reader[k] /\ before'[k] = before[k]
        /\ before'[h] = {k \in Reader : reader[k].at = "done"}
    BY <1>1, <1>3
  <2>5. reader' = [k \in Reader |-> reader'[k]] /\ before' = [k \in Reader |-> before'[k]]
    BY <1>1, <1>3
  <2> QED BY <2>3, <2>4, <2>5
<1>5. /\ Latest \in Nat
      /\ table = {} => Latest = 0
      /\ table # {} => Latest # 0 /\ Latest \in Seconds(table)
      /\ \A t \in Seconds(table) : t <= Latest
  BY <1>2, LatestLemma
<1>6. Readers'
  <2>1. ReaderOK(h)'
    <3>1. CASE table = {}
      <4>1. reader'[h] = [at |-> "done", latest |-> 0, rows |-> <<>>]
        BY <1>4, <1>5, <3>1
      <4> QED BY <4>1 DEF ReaderOK
    <3>2. CASE table # {}
      <4>1. reader'[h] = [at |-> "found", latest |-> Latest, rows |-> <<>>] /\ table' = table
        BY <1>1, <1>4, <3>2
      <4> QED BY <1>5, <3>2, <4>1 DEF ReaderOK
    <3> QED BY <3>1, <3>2
  <2>2. ASSUME NEW k \in Reader \ {h} PROVE ReaderOK(k)'
    BY <1>1, <1>3, <1>4 DEF ReaderOK
  <2> QED BY <1>4, <2>1, <2>2 DEF Readers
<1>7. Ordered'
  <2> SUFFICES ASSUME NEW g \in Reader, NEW k \in before'[g]
               PROVE  k \in Reader /\ reader'[k].at = "done" /\ reader'[k].latest <= reader'[g].latest
    BY DEF Ordered
  <2>1. CASE g = h
    <3>1. k \in Reader /\ reader[k].at = "done" /\ k # h
      BY <1>1, <1>4, <2>1
    <3>2. reader[k].latest = 0 \/ reader[k].latest \in Seconds(table)
      BY <1>3, <3>1 DEF ReaderOK
    <3>3. reader[k].latest <= Latest
      BY <1>5, <3>2
    <3> QED BY <1>4, <2>1, <3>1, <3>3
  <2>2. CASE g # h
    <3>1. k \in Reader /\ reader[k].at = "done" /\ reader[k].latest <= reader[g].latest
      BY <1>4, <2>2 DEF IInv, Ordered
    <3>2. k # h
      BY <1>1, <3>1
    <3> QED BY <1>4, <2>2, <3>1, <3>2
  <2> QED BY <2>1, <2>2
<1>8. Answered'
  <2> SUFFICES ASSUME NEW g \in Reader, reader'[g].at = "done", reader'[g].rows # <<>>,
                      NEW s \in Snap, Of(reader[g].latest)' = {s}
               PROVE  [i \in DOMAIN reader'[g].rows |-> reader'[g].rows[i].entry] = Beginning(s)'
    BY DEF Answered
  <2>1. g # h
    BY <1>4
  <2>2. reader'[g] = reader[g] /\ Of(reader[g].latest)' = Of(reader[g].latest)
        /\ Beginning(s)' = Beginning(s)
    BY <1>1, <1>4, <2>1 DEF Of, Beginning
  <2> QED BY <2>2 DEF IInv, Answered
<1> QED BY <1>2, <1>6, <1>7, <1>8 DEF IInv

\* A second with one snapshot has all its rows.
LEMMA WholeRows ==
  ASSUME IInv, NEW s \in Snap, NEW t, Of(t) = {s}
  PROVE  {r \in table : r.snapshot_at = t} = Whole(s)
<1> DEFINE R == {r \in table : r.snapshot_at = t}
<1>1. \E r \in R : r.of = s
  BY DEF Of
<1>2. PICK r \in R : r.of = s
  BY <1>1
<1>3. R \subseteq Written(s)
  BY DEF Of, Written
<1>4. Written(s) = Whole(s)
  <2>1. SnapOK(s) /\ Written(s) # {}
    BY <1>2, <1>3 DEF IInv, Snaps
  <2> QED BY <2>1 DEF SnapOK
<1>5. Len(snap[s].rows) \in Nat
  BY LenProperties DEF IInv, Snaps, SnapOK
<1>6. \A q \in Whole(s) : q.snapshot_at = Second(snap[s].stamp)
  BY <1>5, RowsLemma DEF Whole
<1>7. Second(snap[s].stamp) = t
  BY <1>2, <1>3, <1>4, <1>6
<1>8. Whole(s) \subseteq R
  BY <1>4, <1>6, <1>7 DEF Written
<1> QED BY <1>3, <1>4, <1>8

\* The rows are selected: of one snapshot, if the second has only one.
LEMMA SelectRowsStep ==
  ASSUME IInv, NEW h \in Reader, SelectRows(h)
  PROVE  IInv'
<1> DEFINE R == {r \in table : r.snapshot_at = reader[h].latest}
<1>1. PICK a \in Answers(R) : reader' = [reader EXCEPT ![h].at = "done", ![h].rows = a]
  BY DEF SelectRows
<1>2. reader[h].at = "found" /\ UNCHANGED <<zset, writes, now, faults, table, snap, before>>
  BY DEF SelectRows
<1>3. World' /\ Snaps' /\ World
  BY <1>2, RestKept DEF IInv
<1>4. /\ reader = [k \in Reader |-> reader[k]] /\ before = [k \in Reader |-> before[k]]
      /\ \A k \in Reader : ReaderOK(k)
  BY DEF IInv, Readers
<1>5. /\ reader'[h] = [at |-> "done", latest |-> reader[h].latest, rows |-> a]
      /\ \A k \in Reader \ {h} : reader'[k] = reader[k]
      /\ reader' = [k \in Reader |-> reader'[k]]
  <2>1. reader[h] = [at |-> reader[h].at, latest |-> reader[h].latest, rows |-> reader[h].rows]
    BY <1>4 DEF ReaderOK
  <2>2. reader'[h] = [reader[h] EXCEPT !.at = "done", !.rows = a]
    BY <1>1, <1>4
  <2>3. reader'[h] = [at |-> "done", latest |-> reader[h].latest, rows |-> a]
    BY <2>1, <2>2
  <2>4. \A k \in Reader \ {h} : reader'[k] = reader[k]
    BY <1>1, <1>4
  <2>5. reader' = [k \in Reader |-> reader'[k]]
    BY <1>1, <1>4
  <2> QED BY <2>3, <2>4, <2>5
<1>6. reader[h].latest # 0 /\ reader[h].latest \in Seconds(table) /\ reader[h].latest \in Nat
  BY <1>2, <1>4 DEF ReaderOK
<1>7. a # <<>> <=> Limit > 0
  <2>1. R # {}
    BY <1>6 DEF Seconds
  <2>2. IsFiniteSet(R)
    BY <1>3, FS_Subset DEF World
  <2> HIDE DEF R
  <2> QED BY <2>1, <2>2, AnswerSize
<1>8. Readers'
  <2>1. ReaderOK(h)'
    BY <1>2, <1>5, <1>6, <1>7 DEF ReaderOK
  <2>2. ASSUME NEW k \in Reader \ {h} PROVE ReaderOK(k)'
    BY <1>2, <1>4, <1>5 DEF ReaderOK
  <2> QED BY <1>2, <1>4, <1>5, <2>1, <2>2 DEF Readers
<1>9. Ordered'
  <2> SUFFICES ASSUME NEW g \in Reader, NEW k \in before[g]
               PROVE  k \in Reader /\ reader'[k].at = "done" /\ reader'[k].latest <= reader'[g].latest
    BY <1>2 DEF Ordered
  <2>1. k \in Reader /\ reader[k].at = "done" /\ reader[k].latest <= reader[g].latest
    BY DEF IInv, Ordered
  <2>2. k # h
    BY <1>2, <2>1
  <2>3. reader'[g].latest = reader[g].latest /\ reader'[k] = reader[k]
    BY <1>5, <2>1, <2>2
  <2> QED BY <2>1, <2>3
<1>10. Answered'
  <2> SUFFICES ASSUME NEW g \in Reader, reader'[g].at = "done", reader'[g].rows # <<>>,
                      NEW s \in Snap, Of(reader[g].latest)' = {s}
               PROVE  [i \in DOMAIN reader'[g].rows |-> reader'[g].rows[i].entry] = Beginning(s)'
    BY DEF Answered
  <2>1. reader'[g].latest = reader[g].latest
    BY <1>5
  <2>2. Of(reader[g].latest) = {s} /\ Beginning(s)' = Beginning(s)
    BY <1>2, <2>1 DEF Of, Beginning
  <2>3. CASE g = h
    <3>1. R = Whole(s)
      BY <2>2, <2>3, WholeRows
    <3>2. SnapOK(s) /\ a \in Answers(Whole(s))
      BY <3>1 DEF IInv, Snaps
    <3> HIDE DEF R
    <3>3. [i \in DOMAIN a |-> a[i].entry] = Beginning(s)
      BY <3>2, OneSnapshot
    <3>4. reader'[g].rows = a
      BY <1>5, <2>3
    <3> QED BY <2>2, <3>3, <3>4
  <2>4. CASE g # h
    <3>1. reader'[g] = reader[g]
      BY <1>5, <2>4
    <3> QED BY <2>2, <3>1 DEF IInv, Answered
  <2> QED BY <2>3, <2>4
<1> QED BY <1>3, <1>8, <1>9, <1>10 DEF IInv

\* Every step keeps the invariant.
LEMMA Inductive == IInv /\ [Next]_vars => IInv'
<1> SUFFICES ASSUME IInv, [Next]_vars PROVE IInv'
  OBVIOUS
<1>1. CASE Tick \/ \E u \in User : Write(u)
  BY <1>1, WorldStep
<1>2. ASSUME NEW s \in Snap, ReadTop(s) \/ Stamp(s) \/ Insert(s) \/ Commit(s) \/ Rollback(s)
      PROVE  IInv'
  BY <1>2, BeginStep, InsertStep, CommitStep, RollbackStep
<1>3. ASSUME NEW h \in Reader, FindLatest(h) \/ SelectRows(h) PROVE IInv'
  BY <1>3, FindLatestStep, SelectRowsStep
<1>4. CASE UNCHANGED vars
  <2>1. UNCHANGED <<zset, writes, now, faults, table, snap>> /\ UNCHANGED <<reader, before>>
    BY <1>4 DEF vars
  <2>2. World' /\ Snaps'
    BY <2>1, RestKept
  <2>3. Readers' /\ Ordered' /\ Answered'
    BY <2>1, ReadersKept
  <2> QED BY <2>2, <2>3 DEF IInv
<1> QED BY <1>1, <1>2, <1>3, <1>4 DEF Next

\* The inductive invariant holds of every behaviour.
LEMMA Invariant == Spec => []IInv
BY Initially, Inductive, PTL DEF Spec

-----------------------------------------------------------------------------
(* The theorems.                                                           *)

(* A snapshot answered 200 has all its rows in the table; one that is not  *)
(* has all or none, however its statements and its commit end.             *)
THEOREM TypeCorrect == Spec => []TypeOK
<1>1. IInv => TypeOK
  <2> SUFFICES ASSUME IInv PROVE TypeOK
    OBVIOUS
  <2>1. ASSUME NEW s \in Snap
        PROVE  /\ snap[s].at \in {"new", "read", "insert", "ok", "error"}
               /\ snap[s].at = "ok" => Cardinality({r \in table : r.of = s}) = Len(snap[s].rows)
               /\ {r \in table : r.of = s} \in {{}, snap[s].tx}
    <3>1. SnapOK(s) /\ Len(snap[s].rows) \in Nat
      BY LenProperties DEF IInv, Snaps, SnapOK
    <3>2. Cardinality(Whole(s)) = Len(snap[s].rows)
      BY <3>1, RowsLemma DEF Whole
    <3> QED BY <3>1, <3>2 DEF SnapOK, Written
  <2>2. \A h \in Reader : reader[h].at \in {"new", "found", "done"}
    BY DEF IInv, Readers, ReaderOK
  <2> QED BY <2>1, <2>2 DEF TypeOK
<1> QED BY <1>1, Invariant, PTL

(* LatestSnapshot answers with one snapshot, whole up to the limit and in  *)
(* order, as long as no two snapshots fall into one second.                *)
THEOREM SnapshotIsWhole == Spec => []WholeSnapshot
<1>1. IInv => WholeSnapshot
  <2> SUFFICES ASSUME IInv, NEW h \in Reader, reader[h].at = "done", reader[h].rows # <<>>,
                      Cardinality(Of(reader[h].latest)) = 1
               PROVE  \E s \in Of(reader[h].latest) :
                        [i \in DOMAIN reader[h].rows |-> reader[h].rows[i].entry] = Beginning(s)
    BY DEF WholeSnapshot, EntriesOf
  <2> DEFINE t == reader[h].latest
  <2>1. Of(t) \subseteq Snap
    BY DEF IInv, World, Of
  <2>2. IsFiniteSet(Of(t))
    <3> DEFINE Q == {q \in table : q.snapshot_at = t}
    <3>1. IsFiniteSet(Q)
      BY FS_Subset DEF IInv, World
    <3> DEFINE f == [q \in Q |-> q.of]
    <3>2. f \in Surjection(Q, Of(t))
      <4>1. Of(t) = {f[q] : q \in Q}
        BY DEF Of
      <4>2. f \in [Q -> Of(t)] /\ \A s \in Of(t) : \E q \in Q : f[q] = s
        BY <4>1
      <4> HIDE DEF f, Q
      <4> QED BY <4>2 DEF Surjection
    <3> HIDE DEF f, Q
    <3> QED BY <3>1, <3>2, FS_Surjection
  <2>3. PICK s : Of(t) = {s}
    BY <2>2, FS_Singleton
  <2>4. s \in Snap
    BY <2>1, <2>3
  <2> QED BY <2>3, <2>4 DEF IInv, Answered
<1> QED BY <1>1, Invariant, PTL

(* A history request that begins when another is done never answers with   *)
(* an earlier snapshot, nor with nothing where the other had rows.         *)
THEOREM HistoryNeverGoesBack == Spec => []NeverBack
<1>1. IInv => NeverBack
  <2> SUFFICES ASSUME IInv, NEW h \in Reader, reader[h].at = "done", NEW k \in before[h]
               PROVE  /\ reader[h].latest >= reader[k].latest
                      /\ reader[k].rows # <<>> => reader[h].rows # <<>>
    BY DEF NeverBack
  <2>1. k \in Reader /\ reader[k].at = "done" /\ reader[k].latest <= reader[h].latest
    BY DEF IInv, Ordered
  <2>2. ReaderOK(h) /\ ReaderOK(k)
    BY <2>1 DEF IInv, Readers
  <2> QED BY <2>1, <2>2 DEF ReaderOK
<1> QED BY <1>1, Invariant, PTL

-----------------------------------------------------------------------------
(* Reads: what was read, and when.                                         *)

\* ZREVRANGE of Around, on the leaderboard z.
Neighbours(z, rank, n) == RevRange(z, IF rank > n THEN rank - n ELSE 0, rank + n)

\* The orders sort.Slice may leave a group in, and what is cut from it.
Orders(z) ==
  {s \in [1 .. Cardinality(User) -> User] :
     IsInjective(s) /\ \A i, j \in DOMAIN s : i < j => Mirror(z, s[i]) >= Mirror(z, s[j])}
Cut(z, s, from, to) ==
  [i \in 1 .. to - from |->
     [rank |-> from + i, entry |-> [user |-> s[from + i], score |-> Mirror(z, s[from + i])]]]

\* A leaderboard of the request without its user.
Missing(r) == \E z \in seen[r] : req[r].user \notin DOMAIN z

\* The list and the place read for r, each from a leaderboard there was during it.
ListRead(r) ==
  LET q == req[r] IN
  \/ q.list = <<>> /\ Missing(r)
  \/ \E y, z \in seen[r] :
       /\ q.user \in DOMAIN y /\ q.list = Neighbours(z, RevRank(y, q.user), q.n)
       /\ scope = "regional" => DOMAIN y \subseteq DOMAIN z
PlaceRead(r) ==
  \E z \in seen[r] : req[r].user \in DOMAIN z /\ req[r].rank = RevRank(z, req[r].user) + 1

\* The answer, as what was read makes it.
TopAnswer(r) == \E z \in seen[r] : req[r].list = Entries(TopN(z, req[r].n), 1)
RankAnswer(r) ==
  LET q == req[r] IN
  \/ q.list = <<>> /\ Missing(r)
  \/ \E y, z \in seen[r] :
       /\ q.user \in DOMAIN y /\ q.user \in DOMAIN z
       /\ q.list = <<[rank |-> RevRank(y, q.user) + 1, entry |-> [user |-> q.user, score |-> z[q.user]]]>>
AroundAnswer(r) ==
  LET q == req[r] IN
  \/ q.list = <<>> /\ Missing(r)
  \/ \E x, y, z \in seen[r] :
       /\ q.user \in DOMAIN x /\ q.user \in DOMAIN y
       /\ q.list = Entries(Neighbours(z, RevRank(y, q.user), q.n), FirstRank(RevRank(x, q.user) + 1, q.n))
       /\ scope = "regional" => DOMAIN y \subseteq DOMAIN z
GroupAnswer(r) ==
  LET q == req[r] IN
  \E z \in seen[r] : \E s \in Orders(z), c \in 1 .. Cardinality(User), from, to \in 0 .. Cardinality(User) :
    /\ s[c] = q.user /\ from <= to /\ q.list = Cut(z, s, from, to)
    /\ q.kind = "top" => from = 0 /\ to = Least(q.n, Cardinality(User))
    /\ q.kind = "rank" => from = c - 1 /\ to = c
    /\ q.kind = "around" => from = FirstRank(c, q.n) - 1 /\ to = Least(c + q.n, Cardinality(User))

AsRead(r) ==
  IF scope = "friends" THEN GroupAnswer(r)
  ELSE /\ req[r].kind = "top" => TopAnswer(r)
       /\ req[r].kind = "rank" => RankAnswer(r)
       /\ req[r].kind = "around" => AroundAnswer(r)

\* Where a request is and what it asks ...
Shape(r) ==
  LET q == req[r] IN
  /\ q = [at |-> q.at, kind |-> q.kind, user |-> q.user, n |-> q.n, rank |-> q.rank, list |-> q.list]
  /\ q.at \in {"new", "range", "rank", "score", "done", "error", "panic"}
  /\ q.at = "new" => q = New /\ seen[r] = {}
  /\ q.at # "new" => q.kind \in Kinds
  /\ q.user \in User \cup {0} /\ q.n \in Counts \cup {0} /\ q.rank \in Nat
  /\ q.at # "new" /\ q.kind # "top" => q.user \in User
  /\ q.at \in {"range", "rank", "score"} => scope # "friends" /\ q.kind # "top"
  /\ q.at = "range" => q.kind = "around"
  /\ q.at = "error" => scope = "global" /\ Cardinality(seen[r]) > 1
  /\ q.at = "panic" => scope = "friends" /\ q.n < 0

\* ... and what it has read by then.
Progress(r) ==
  LET q == req[r] IN
  /\ q.at = "range" => \E z \in seen[r] : q.user \in DOMAIN z /\ q.rank = RevRank(z, q.user)
  /\ q.at \in {"rank", "score"} /\ q.kind = "around" => ListRead(r)
  /\ q.at = "score" => PlaceRead(r)
  /\ q.at = "done" => AsRead(r)

Asked(r) == Shape(r) /\ Progress(r)

\* Of two global leaderboards there was an empty one in between.
EmptyBetween(r) ==
  scope = "global" => \A y, z \in seen[r] : y = z \/ NoMembers \in seen[r]

\* The leaderboards of a request; a regional one only grows.
History ==
  /\ scope \in {"regional", "global", "friends"} /\ zset \in Leaderboards
  /\ req = [r \in Request |-> req[r]] /\ seen = [r \in Request |-> seen[r]]
  /\ \A r \in Request : /\ IsFiniteSet(seen[r]) /\ seen[r] \subseteq Leaderboards
                        /\ r \in Pending => zset \in seen[r]
                        /\ \A z \in seen[r] : scope = "regional" => DOMAIN z \subseteq DOMAIN zset
                        /\ EmptyBetween(r)

ReadsInv == History /\ \A r \in Request : Asked(r)

-----------------------------------------------------------------------------
(* Ranks.                                                                  *)

\* A sorted set with finitely many members, which are numbers.
Board(z) == z \in [DOMAIN z -> Int] /\ DOMAIN z \subseteq Nat /\ IsFiniteSet(DOMAIN z)

\* Members are in one order.
LEMMA BeatsOrder ==
  ASSUME NEW z, Board(z), NEW u \in DOMAIN z, NEW v \in DOMAIN z
  PROVE  /\ ~Beats(z, u, u)
         /\ u # v => Beats(z, u, v) \/ Beats(z, v, u)
         /\ ~(Beats(z, u, v) /\ Beats(z, v, u))
         /\ \A w \in DOMAIN z : Beats(z, w, u) /\ Beats(z, u, v) => Beats(z, w, v)
<1>1. \A w \in DOMAIN z : w \in Nat /\ z[w] \in Int
  BY DEF Board
<1> QED BY <1>1 DEF Beats

\* Ranks are the numbers from 0 on, each held by one member.
LEMMA RankLemma ==
  ASSUME NEW z, Board(z)
  PROVE  /\ Cardinality(DOMAIN z) \in Nat
         /\ \A u \in DOMAIN z : RevRank(z, u) \in 0 .. Cardinality(DOMAIN z) - 1
         /\ \A u, v \in DOMAIN z : RevRank(z, u) = RevRank(z, v) => u = v
         /\ \A k \in 0 .. Cardinality(DOMAIN z) - 1 : \E u \in DOMAIN z : RevRank(z, u) = k
<1> DEFINE D == DOMAIN z
           n == Cardinality(D)
           A(u) == {v \in D : Beats(z, v, u)}
<1>1. IsFiniteSet(D) /\ n \in Nat
  BY FS_CardinalityType DEF Board
<1>2. ASSUME NEW u \in D
      PROVE  IsFiniteSet(A(u)) /\ Cardinality(A(u)) \in 0 .. n - 1
  <2>1. A(u) \in SUBSET D /\ u \notin A(u)
    BY BeatsOrder
  <2> HIDE DEF A, D
  <2>2. IsFiniteSet(A(u)) /\ Cardinality(A(u)) \in Nat
    BY <1>1, <2>1, FS_Subset, FS_CardinalityType
  <2>3. A(u) \in SUBSET (D \ {u}) /\ IsFiniteSet(D \ {u}) /\ Cardinality(D \ {u}) = n - 1
    BY <1>1, <2>1, FS_RemoveElement
  <2>4. Cardinality(A(u)) <= n - 1
    BY <2>3, FS_Subset
  <2> QED BY <1>1, <2>2, <2>4
<1>3. ASSUME NEW u \in D, NEW v \in D, Beats(z, u, v)
      PROVE  Cardinality(A(u)) # Cardinality(A(v))
  <2>1. A(u) \in SUBSET A(v) /\ u \in A(v) /\ u \notin A(u)
    BY <1>3, BeatsOrder
  <2>2. IsFiniteSet(A(v))
    BY <1>2
  <2> HIDE DEF A
  <2> QED BY <2>1, <2>2, FS_Subset
<1>4. \A u \in D : RevRank(z, u) = Cardinality(A(u))
  BY DEF RevRank
<1>5. \A u, v \in D : RevRank(z, u) = RevRank(z, v) => u = v
  <2> SUFFICES ASSUME NEW u \in D, NEW v \in D, RevRank(z, u) = RevRank(z, v), u # v PROVE FALSE
    OBVIOUS
  <2>1. Beats(z, u, v) \/ Beats(z, v, u)
    BY BeatsOrder
  <2> HIDE DEF A
  <2> QED BY <1>3, <1>4, <2>1
<1> DEFINE f == [u \in D |-> RevRank(z, u)]
<1>6. f \in [D -> 0 .. n - 1] /\ \A u, v \in D : f[u] = f[v] => u = v
  <2> HIDE DEF A, n
  <2>1. \A u \in D : RevRank(z, u) \in 0 .. n - 1
    BY <1>2, <1>4
  <2> QED BY <1>5, <2>1
<1>7. \A k \in 0 .. n - 1 : \E u \in D : f[u] = k
  <2>1. f \in Injection(D, 0 .. n - 1)
    <3> HIDE DEF f, D, n
    <3> QED BY <1>6 DEF Injection, IsInjective
  <2>2. IsFiniteSet(0 .. n - 1) /\ Cardinality(0 .. n - 1) = n
    <3> HIDE DEF n
    <3>1. 0 \in Int /\ n - 1 \in Int
      BY <1>1
    <3>2. /\ IsFiniteSet(0 .. n - 1)
          /\ Cardinality(0 .. n - 1) = IF 0 > n - 1 THEN 0 ELSE (n - 1) - 0 + 1
      BY <3>1, FS_Interval
    <3> QED BY <1>1, <3>2
  <2>3. f \in Surjection(D, 0 .. n - 1)
    <3> HIDE DEF f, D
    <3> QED BY <2>1, <2>2, FS_Injection
  <2> HIDE DEF f, D, n
  <2> QED BY <2>3 DEF Surjection
<1> HIDE DEF A, D, n
<1> QED BY <1>1, <1>2, <1>4, <1>5, <1>7 DEF D, n

\* The last rank ZREVRANGE answers.
LastRank(z, stop) ==
  LET size == Cardinality(DOMAIN z)
  IN  IF stop < 0 THEN size + stop ELSE IF stop < size THEN stop ELSE size - 1

\* ZREVRANGE answers the members at the ranks asked for, each with its score.
LEMMA RangeLemma ==
  ASSUME NEW z, Board(z), NEW start \in Nat, NEW stop \in Int
  PROVE  LET q == RevRange(z, start, stop)
         IN  /\ LastRank(z, stop) \in Int /\ LastRank(z, stop) <= Cardinality(DOMAIN z) - 1
             /\ DOMAIN q = 1 .. LastRank(z, stop) - start + 1
             /\ \A i \in DOMAIN q : /\ q[i].user \in DOMAIN z /\ q[i].score = z[q[i].user]
                                    /\ RevRank(z, q[i].user) = start + i - 1
             /\ q = [i \in DOMAIN q |-> q[i]]
<1> DEFINE q == RevRange(z, start, stop)
           last == LastRank(z, stop)
           member(i) == CHOOSE v \in DOMAIN z : RevRank(z, v) = start + i - 1
           e(i) == [user |-> member(i), score |-> z[member(i)]]
<1>1. Cardinality(DOMAIN z) \in Nat
  BY RankLemma
<1>2. last \in Int /\ last <= Cardinality(DOMAIN z) - 1
  BY <1>1 DEF LastRank
<1>3. q = [i \in 1 .. last - start + 1 |-> e(i)]
  BY DEF RevRange, LastRank
<1>4. ASSUME NEW i \in 1 .. last - start + 1
      PROVE  member(i) \in DOMAIN z /\ RevRank(z, member(i)) = start + i - 1
  <2>1. start + i - 1 \in 0 .. Cardinality(DOMAIN z) - 1
    <3> HIDE DEF last
    <3> QED BY <1>1, <1>2
  <2>2. \E v \in DOMAIN z : RevRank(z, v) = start + i - 1
    <3> HIDE DEF last
    <3> QED BY <2>1, RankLemma
  <2> QED BY <2>2
<1> HIDE DEF q, last, member
<1>5. DOMAIN q = 1 .. last - start + 1
  BY <1>3
<1>6. \A i \in DOMAIN q : q[i].user = member(i) /\ q[i].score = z[member(i)]
  BY <1>3, <1>5
<1>7. q = [i \in DOMAIN q |-> q[i]]
  BY <1>3
<1> QED BY <1>2, <1>4, <1>5, <1>6, <1>7 DEF q, last

-----------------------------------------------------------------------------
(* The steps.                                                              *)

\* Leaderboards are sorted sets of users.
LEMMA BoardLemma ==
  ASSUME IsFiniteSet(User), NEW z \in Leaderboards
  PROVE  /\ Board(z) /\ DOMAIN z \subseteq User /\ z \in [DOMAIN z -> Scores]
         /\ Cardinality(DOMAIN z) <= Cardinality(User) /\ Cardinality(User) \in Nat
<1>1. PICK S \in SUBSET User : z \in [S -> Scores]
  BY DEF Leaderboards
<1>2. DOMAIN z = S
  BY <1>1
<1>3. Scores \subseteq Int /\ User \subseteq Nat /\ IsFiniteSet(User)
  BY ReadsAssumption, LeaderboardAssumption
<1>4. IsFiniteSet(S) /\ Cardinality(S) <= Cardinality(User)
  BY <1>3, FS_Subset
<1>5. z \in [DOMAIN z -> Int]
  BY <1>1, <1>2, <1>3
<1>6. Cardinality(User) \in Nat
  BY <1>3, FS_CardinalityType
<1> QED BY <1>1, <1>2, <1>3, <1>4, <1>5, <1>6 DEF Board

\* What was read stays read, although there are more leaderboards now.
LEMMA StillAsked ==
  ASSUME NEW r \in Request, Asked(r), req'[r] = req[r], scope' = scope, seen[r] \subseteq seen'[r],
         req[r].at \in {"new", "error"} => seen'[r] = seen[r]
  PROVE  Asked(r)'
<1>1. Missing(r) => Missing(r)'
  BY DEF Missing
<1>2. ListRead(r) => ListRead(r)'
  BY <1>1 DEF ListRead
<1>3. PlaceRead(r) => PlaceRead(r)'
  BY DEF PlaceRead
<1>4. TopAnswer(r) => TopAnswer(r)'
  BY DEF TopAnswer
<1>5. RankAnswer(r) => RankAnswer(r)'
  BY <1>1 DEF RankAnswer
<1>6. AroundAnswer(r) => AroundAnswer(r)'
  BY <1>1 DEF AroundAnswer
<1>7. GroupAnswer(r) => GroupAnswer(r)'
  BY DEF GroupAnswer
<1>8. AsRead(r) => AsRead(r)'
  BY <1>4, <1>5, <1>6, <1>7 DEF AsRead
<1>9. (\E z \in seen[r] : req[r].user \in DOMAIN z /\ req[r].rank = RevRank(z, req[r].user))
      => (\E z \in seen[r] : req[r].user \in DOMAIN z /\ req[r].rank = RevRank(z, req[r].user))'
  OBVIOUS
<1>10. Shape(r)'
  BY DEF Asked, Shape
<1>11. Progress(r)'
  BY <1>2, <1>3, <1>8, <1>9 DEF Asked, Progress
<1> QED BY <1>10, <1>11 DEF Asked

\* A writer writes: the requests under way may come to see the new leaderboard.
LEMMA WritesStep ==
  ASSUME ReadsInv, NEW z \in Leaderboards, Writes(z),
         scope = "regional" => DOMAIN zset \subseteq DOMAIN z,
         scope = "global" => zset = NoMembers \/ z = NoMembers
  PROVE  ReadsInv'
<1>1. /\ zset' = z /\ scope' = scope /\ req' = req
      /\ seen' = [r \in Request |-> IF r \in Pending THEN seen[r] \cup {z} ELSE seen[r]]
  BY DEF Writes
<1>2. \A r \in Request : seen'[r] = IF r \in Pending THEN seen[r] \cup {z} ELSE seen[r]
  BY <1>1
<1>3. History'
  <2>1. Pending' = Pending
    BY <1>1 DEF Pending
  <2>2. ASSUME NEW r \in Request
        PROVE  /\ IsFiniteSet(seen'[r]) /\ seen'[r] \subseteq Leaderboards
               /\ r \in Pending' => z \in seen'[r]
               /\ \A y \in seen'[r] : scope = "regional" => DOMAIN y \subseteq DOMAIN z
               /\ EmptyBetween(r)'
    <3>1. /\ IsFiniteSet(seen[r]) /\ seen[r] \subseteq Leaderboards
          /\ \A y \in seen[r] : scope = "regional" => DOMAIN y \subseteq DOMAIN zset
          /\ r \in Pending => zset \in seen[r]
          /\ EmptyBetween(r)
      BY DEF ReadsInv, History
    <3>2. IsFiniteSet(seen[r] \cup {z})
      BY <3>1, FS_AddElement
    <3>3. EmptyBetween(r)'
      BY <1>1, <1>2, <3>1 DEF EmptyBetween
    <3> QED BY <1>2, <2>1, <3>1, <3>2, <3>3
  <2>3. scope \in {"regional", "global", "friends"} /\ req = [r \in Request |-> req[r]]
    BY DEF ReadsInv, History
  <2> QED BY <1>1, <2>2, <2>3 DEF History, Leaderboards
<1>4. ASSUME NEW r \in Request PROVE Asked(r)'
  <2>1. req[r].at \in {"new", "error"} => r \notin Pending
    BY DEF Pending
  <2> QED BY <1>1, <1>2, <2>1, StillAsked DEF ReadsInv
<1> QED BY <1>3, <1>4 DEF ReadsInv

\* A change of a score leaves a leaderboard, with the user on it.
LEMMA RescoredLemma ==
  ASSUME NEW u \in User, NEW z \in Rescored(u),
         DOMAIN zset \subseteq User, zset \in [DOMAIN zset -> Scores]
  PROVE  z \in Leaderboards /\ DOMAIN z = DOMAIN zset \cup {u}
<1> DEFINE old == IF u \in DOMAIN zset THEN zset[u] ELSE 0
<1>1. PICK s \in Scores : z = ZIncrBy(zset, u, s - old)
  BY DEF Rescored
<1>2. Scores \subseteq Int /\ s \in Int /\ old \in Int
  BY LeaderboardAssumption
<1>3. z = [v \in DOMAIN zset \cup {u} |->
             (IF v \in DOMAIN zset THEN zset[v] ELSE 0) + (IF v = u THEN s - old ELSE 0)]
  BY <1>1 DEF ZIncrBy
<1>4. \A v \in DOMAIN zset : zset[v] \in Scores /\ zset[v] \in Int
  BY <1>2
<1>5. z[u] = s
  BY <1>2, <1>3, <1>4
<1>6. \A v \in DOMAIN zset : v # u => z[v] = zset[v]
  BY <1>3, <1>4
<1>7. DOMAIN z = DOMAIN zset \cup {u} /\ z = [v \in DOMAIN z |-> z[v]]
  BY <1>3
<1> HIDE DEF old
<1>8. z \in [DOMAIN zset \cup {u} -> Scores]
  BY <1>4, <1>5, <1>6, <1>7
<1> QED BY <1>7, <1>8 DEF Leaderboards

\* Increments, and the aggregator's replacement.
LEMMA WriterStep ==
  ASSUME IsFiniteSet(User), ReadsInv,
         (\E u \in User : Increment(u)) \/ Del \/ (\E z \in Leaderboards : ZAdd(z))
  PROVE  ReadsInv'
<1>1. ASSUME NEW u \in User, Increment(u) PROVE ReadsInv'
  <2>1. PICK z \in Rescored(u) : Writes(z) /\ scope # "global"
    BY <1>1 DEF Increment
  <2>2. DOMAIN zset \subseteq User /\ zset \in [DOMAIN zset -> Scores]
    BY BoardLemma DEF ReadsInv, History
  <2>3. z \in Leaderboards /\ DOMAIN z = DOMAIN zset \cup {u}
    BY <2>2, RescoredLemma
  <2> QED BY <2>1, <2>3, WritesStep
<1>2. CASE Del
  <2>1. Writes(NoMembers) /\ scope = "global"
    BY <1>2 DEF Del
  <2>2. NoMembers \in [{} -> Scores]
    BY DEF NoMembers
  <2>3. NoMembers \in Leaderboards
    BY <2>2 DEF Leaderboards
  <2> QED BY <2>1, <2>3, WritesStep
<1>3. ASSUME NEW z \in Leaderboards, ZAdd(z) PROVE ReadsInv'
  <2>1. Writes(z) /\ scope = "global" /\ zset = NoMembers
    BY <1>3 DEF ZAdd
  <2> QED BY <2>1, WritesStep
<1> QED BY <1>1, <1>2, <1>3

\* A request goes one command on: what is left to show is that it read what it says.
LEMMA ReadsEffect ==
  ASSUME ReadsInv, NEW r \in Request, NEW next, Reads(r, next),
         req[r].at \in {"new", "range", "rank", "score"}
  PROVE  /\ scope' = scope /\ req'[r] = next
         /\ seen'[r] = seen[r] \cup {zset} /\ zset \in Leaderboards
         /\ Asked(r)' => ReadsInv'
<1>1. /\ UNCHANGED <<scope, zset, writes>>
      /\ req' = [req EXCEPT ![r] = next] /\ seen' = [seen EXCEPT ![r] = @ \cup {zset}]
  BY DEF Reads
<1>2. /\ scope \in {"regional", "global", "friends"} /\ zset \in Leaderboards
      /\ req = [q \in Request |-> req[q]] /\ seen = [q \in Request |-> seen[q]]
  BY DEF ReadsInv, History
<1>3. /\ req'[r] = next /\ \A q \in Request \ {r} : req'[q] = req[q]
      /\ seen'[r] = seen[r] \cup {zset} /\ \A q \in Request \ {r} : seen'[q] = seen[q]
      /\ req' = [q \in Request |-> req'[q]] /\ seen' = [q \in Request |-> seen'[q]]
  BY <1>1, <1>2
<1>4. History'
  <2>1. ASSUME NEW q \in Request
        PROVE  /\ IsFiniteSet(seen'[q]) /\ seen'[q] \subseteq Leaderboards
               /\ q \in Pending' => zset \in seen'[q]
               /\ \A y \in seen'[q] : scope = "regional" => DOMAIN y \subseteq DOMAIN zset
               /\ EmptyBetween(q)'
    <3>1. /\ IsFiniteSet(seen[q]) /\ seen[q] \subseteq Leaderboards
          /\ q \in Pending => zset \in seen[q]
          /\ \A y \in seen[q] : scope = "regional" => DOMAIN y \subseteq DOMAIN zset
      BY DEF ReadsInv, History
    <3>2. IsFiniteSet(seen[q] \cup {zset})
      BY <3>1, FS_AddElement
    <3>3. q # r => (q \in Pending' <=> q \in Pending)
      BY <1>3 DEF Pending
    <3>4. CASE q # r
      <4>1. seen'[q] = seen[q] /\ scope' = scope /\ EmptyBetween(q)
        BY <1>1, <1>3, <3>4 DEF ReadsInv, History
      <4> QED BY <1>2, <1>3, <3>1, <3>3, <3>4, <4>1 DEF EmptyBetween
    <3>5. CASE q = r
      <4>1. req[r].at # "new" => r \in Pending
        BY DEF Pending
      <4>2. req[r].at = "new" => seen[r] = {}
        BY DEF ReadsInv, Asked, Shape
      <4>3. seen'[r] = {zset} \/ seen'[r] = seen[r]
        BY <1>3, <3>1, <3>5, <4>1, <4>2
      <4>4. EmptyBetween(r) /\ scope' = scope
        BY <1>1 DEF ReadsInv, History
      <4>5. EmptyBetween(r)'
        BY <4>3, <4>4 DEF EmptyBetween
      <4> QED BY <1>2, <1>3, <3>1, <3>2, <3>5, <4>5
    <3> QED BY <3>4, <3>5
  <2> QED BY <1>1, <1>2, <1>3, <2>1 DEF History, Leaderboards
<1>5. ASSUME NEW q \in Request \ {r} PROVE Asked(q)'
  BY <1>1, <1>3, StillAsked DEF ReadsInv
<1> QED BY <1>1, <1>2, <1>3, <1>4, <1>5 DEF ReadsInv


\* What a request is after a command that did not end it badly.
LEMMA ShapeNow ==
  ASSUME NEW r \in Request,
         NEW at \in {"range", "rank", "score", "done"}, NEW kind \in Kinds, NEW user \in User \cup {0},
         NEW n \in Counts \cup {0}, NEW rank \in Nat, NEW list,
         req'[r] = [at |-> at, kind |-> kind, user |-> user, n |-> n, rank |-> rank, list |-> list],
         kind # "top" => user \in User,
         at # "done" => scope' # "friends" /\ kind # "top",
         at = "range" => kind = "around"
  PROVE  Shape(r)'
<1>1. /\ req'[r].at = at /\ req'[r].kind = kind /\ req'[r].user = user /\ req'[r].n = n
      /\ req'[r].rank = rank /\ req'[r].list = list
  OBVIOUS
<1> QED BY <1>1 DEF Shape

\* A request for the top, answered.
LEMMA TopRecord ==
  ASSUME NEW n, NEW list, NEW x,
         x = [New EXCEPT !.at = "done", !.kind = "top", !.n = n, !.list = list]
  PROVE  x = [at |-> "done", kind |-> "top", user |-> 0, n |-> n, rank |-> 0, list |-> list]
BY DEF New

\* /top answers with one command.
LEMMA TopStep ==
  ASSUME IsFiniteSet(User), ReadsInv, NEW r \in Request, Top(r)
  PROVE  ReadsInv'
<1>1. PICK n \in Counts :
        Reads(r, [New EXCEPT !.at = "done", !.kind = "top", !.n = n, !.list = Entries(TopN(zset, n), 1)])
  BY DEF Top
<1> DEFINE l == Entries(TopN(zset, n), 1)
<1>2. scope # "friends" /\ req[r].at = "new"
  BY DEF Top
<1> DEFINE q == [at |-> "done", kind |-> "top", user |-> 0, n |-> n, rank |-> 0, list |-> l]
<1>3. /\ scope' = scope
      /\ req'[r] = [New EXCEPT !.at = "done", !.kind = "top", !.n = n, !.list = l]
      /\ zset \in seen'[r]
      /\ Asked(r)' => ReadsInv'
  BY <1>1, <1>2, ReadsEffect
<1> HIDE DEF l
<1>4. req'[r] = q
  <2>1. PICK x : x = req'[r]
    OBVIOUS
  <2>2. x = [New EXCEPT !.at = "done", !.kind = "top", !.n = n, !.list = l]
    BY <1>3, <2>1
  <2>3. x = q
    BY <2>2, TopRecord
  <2> HIDE DEF q
  <2> QED BY <2>1, <2>3
<1>5. TopAnswer(r)'
  <2>1. req'[r].list = Entries(TopN(zset, req'[r].n), 1)
    BY <1>4 DEF l
  <2>2. zset \in seen'[r]
    BY <1>3
  <2> QED BY ONLY <2>1, <2>2 DEF TopAnswer
<1>6. AsRead(r)'
  BY <1>2, <1>3, <1>4, <1>5 DEF AsRead
<1>7. Asked(r)'
  <2>1. Shape(r)'
    BY <1>3, <1>4, <1>6, ShapeNow DEF Kinds
  <2>2. Progress(r)'
    BY <1>3, <1>4, <1>6 DEF Progress
  <2> QED BY <2>1, <2>2 DEF Asked
<1> QED BY <1>3, <1>7

\* /rank and /around begin; /around reads the rank of a user who is there.
LEMMA AskStep ==
  ASSUME IsFiniteSet(User), ReadsInv, NEW r \in Request, Begin(r)
  PROVE  ReadsInv'
<1>1. PICK u \in User, n \in Counts :
       \/ Reads(r, [New EXCEPT !.at = "rank", !.kind = "rank", !.user = u])
       \/ Present(u) /\ Reads(r, [New EXCEPT !.at = "range", !.kind = "around", !.user = u,
                                             !.n = n, !.rank = RevRank(zset, u)])
       \/ ~Present(u) /\ Reads(r, [New EXCEPT !.at = "rank", !.kind = "around", !.user = u, !.n = n])
  BY DEF Begin
<1>2. scope # "friends" /\ req[r].at = "new"
  BY DEF Begin
<1>3. CASE Reads(r, [New EXCEPT !.at = "rank", !.kind = "rank", !.user = u])
  <2> DEFINE q == [at |-> "rank", kind |-> "rank", user |-> u, n |-> 0, rank |-> 0, list |-> <<>>]
  <2>1. /\ req'[r] = [New EXCEPT !.at = "rank", !.kind = "rank", !.user = u]
        /\ scope' = scope /\ zset \in Leaderboards /\ zset \in seen'[r]
        /\ Asked(r)' => ReadsInv'
    BY <1>2, <1>3, ReadsEffect
  <2>2. scope' = scope /\ req'[r] = q /\ (Asked(r)' => ReadsInv')
    BY <2>1 DEF New
  <2>3. Asked(r)'
    <3>1. Shape(r)'
      BY <1>2, <2>2, ShapeNow DEF Kinds
    <3>2. Progress(r)'
      BY <1>2, <2>2 DEF Progress
    <3> QED BY <3>1, <3>2 DEF Asked
  <2> QED BY <2>2, <2>3
<1>4. CASE /\ Present(u)
           /\ Reads(r, [New EXCEPT !.at = "range", !.kind = "around", !.user = u,
                                   !.n = n, !.rank = RevRank(zset, u)])
  <2> DEFINE q == [at |-> "range", kind |-> "around", user |-> u, n |-> n,
                   rank |-> RevRank(zset, u), list |-> <<>>]
  <2>1. /\ req'[r] = [New EXCEPT !.at = "range", !.kind = "around", !.user = u, !.n = n, !.rank = RevRank(zset, u)]
        /\ scope' = scope /\ zset \in Leaderboards /\ zset \in seen'[r]
        /\ Asked(r)' => ReadsInv'
    BY <1>2, <1>4, ReadsEffect
  <2>2. /\ scope' = scope /\ req'[r] = q /\ zset \in Leaderboards /\ zset \in seen'[r]
        /\ Asked(r)' => ReadsInv'
    BY <2>1 DEF New
  <2>3. u \in DOMAIN zset /\ RevRank(zset, u) \in Nat
    BY <1>4, <2>2, BoardLemma, RankLemma DEF Present
  <2>4. Asked(r)'
    <3>1. Shape(r)'
      BY <1>2, <2>2, <2>3, ShapeNow DEF Kinds
    <3>2. Progress(r)'
      BY <1>2, <2>2, <2>3 DEF Progress
    <3> QED BY <3>1, <3>2 DEF Asked
  <2> QED BY <2>2, <2>4
<1>5. CASE ~Present(u) /\ Reads(r, [New EXCEPT !.at = "rank", !.kind = "around", !.user = u, !.n = n])
  <2> DEFINE q == [at |-> "rank", kind |-> "around", user |-> u, n |-> n, rank |-> 0, list |-> <<>>]
  <2>1. /\ req'[r] = [New EXCEPT !.at = "rank", !.kind = "around", !.user = u, !.n = n]
        /\ scope' = scope /\ zset \in Leaderboards /\ zset \in seen'[r]
        /\ Asked(r)' => ReadsInv'
    BY <1>2, <1>5, ReadsEffect
  <2>2. /\ scope' = scope /\ req'[r] = q /\ zset \in seen'[r]
        /\ Asked(r)' => ReadsInv'
    BY <2>1 DEF New
  <2>3. ListRead(r)'
    BY <1>5, <2>2 DEF ListRead, Missing, Present
  <2>4. Asked(r)'
    <3>1. Shape(r)'
      BY <1>2, <2>2, <2>3, ShapeNow DEF Kinds
    <3>2. Progress(r)'
      BY <1>2, <2>2, <2>3 DEF Progress
    <3> QED BY <3>1, <3>2 DEF Asked
  <2> QED BY <2>2, <2>4
<1> QED BY <1>1, <1>3, <1>4, <1>5

\* Around, second command.
LEMMA ReadRangeStep ==
  ASSUME IsFiniteSet(User), ReadsInv, NEW r \in Request, ReadRange(r)
  PROVE  ReadsInv'
<1> DEFINE l == Around(req[r].rank, req[r].n)
           q == [req[r] EXCEPT !.at = "rank", !.list = l]
<1>1. req[r].at = "range" /\ Reads(r, q)
  BY DEF ReadRange
<1>2. /\ scope' = scope /\ req'[r] = q /\ seen'[r] = seen[r] \cup {zset}
      /\ Asked(r)' => ReadsInv'
  BY <1>1, ReadsEffect
<1>3. l = Neighbours(zset, req[r].rank, req[r].n)
  BY DEF Around, Neighbours
<1>4. Asked(r)
  BY DEF ReadsInv
<1>5. PICK k : k = req[r]
  OBVIOUS
<1>6. /\ k = [at |-> k.at, kind |-> k.kind, user |-> k.user, n |-> k.n, rank |-> k.rank, list |-> k.list]
      /\ k.at = "range" /\ k.kind = "around" /\ k.user \in User /\ k.n \in Counts \cup {0}
      /\ k.rank \in Nat /\ scope # "friends"
  BY <1>1, <1>4, <1>5 DEF Asked, Shape, Progress
<1>7. PICK y \in seen[r] : k.user \in DOMAIN y /\ k.rank = RevRank(y, k.user)
  BY <1>1, <1>4, <1>5 DEF Asked, Shape, Progress
<1>8. scope = "regional" => DOMAIN y \subseteq DOMAIN zset
  BY <1>7 DEF ReadsInv, History
<1> HIDE DEF l
<1>9. req'[r] = [at |-> "rank", kind |-> "around", user |-> k.user, n |-> k.n, rank |-> k.rank, list |-> l]
  BY <1>2, <1>5, <1>6
<1>10. ListRead(r)'
  BY <1>2, <1>3, <1>5, <1>7, <1>8, <1>9 DEF ListRead
<1>11. Asked(r)'
  <2>1. Shape(r)'
    BY <1>2, <1>6, <1>9, <1>10, ShapeNow DEF Kinds
  <2>2. Progress(r)'
    BY <1>2, <1>6, <1>9, <1>10 DEF Progress
  <2> QED BY <2>1, <2>2 DEF Asked
<1> QED BY <1>2, <1>11

\* Rank, first command.
LEMMA ReadRankStep ==
  ASSUME IsFiniteSet(User), ReadsInv, NEW r \in Request, ReadRank(r)
  PROVE  ReadsInv'
<1>1. req[r].at = "rank" /\ Asked(r)
  BY DEF ReadRank, ReadsInv
<1>2. PICK k : k = req[r]
  OBVIOUS
<1>3. /\ k = [at |-> k.at, kind |-> k.kind, user |-> k.user, n |-> k.n, rank |-> k.rank, list |-> k.list]
      /\ k.at = "rank" /\ k.kind \in {"rank", "around"} /\ k.user \in User /\ k.n \in Counts \cup {0}
      /\ k.rank \in Nat /\ scope # "friends"
      /\ k.kind = "around" => ListRead(r)
  BY <1>1, <1>2 DEF Asked, Shape, Progress, Kinds
<1>4. CASE Present(k.user)
  <2> DEFINE p == RevRank(zset, k.user) + 1
  <2>1. Reads(r, [req[r] EXCEPT !.at = "score", !.rank = p])
    BY <1>2, <1>4 DEF ReadRank
  <2>2. /\ scope' = scope /\ req'[r] = [req[r] EXCEPT !.at = "score", !.rank = p]
        /\ seen'[r] = seen[r] \cup {zset} /\ zset \in Leaderboards
        /\ Asked(r)' => ReadsInv'
    BY <1>1, <2>1, ReadsEffect
  <2>3. k.user \in DOMAIN zset /\ p \in Nat
    BY <1>4, <2>2, BoardLemma, RankLemma DEF Present
  <2>4. req'[r] = [at |-> "score", kind |-> k.kind, user |-> k.user, n |-> k.n, rank |-> p, list |-> k.list]
    BY <1>2, <1>3, <2>2
  <2>5. PlaceRead(r)'
    <3>1. req'[r].user = k.user /\ req'[r].rank = RevRank(zset, k.user) + 1
      BY <2>4
    <3>2. zset \in seen'[r]
      BY <2>2
    <3> HIDE DEF p
    <3> QED BY ONLY <2>3, <3>1, <3>2 DEF PlaceRead
  <2>6. ListRead(r) => ListRead(r)'
    <3>1. /\ req'[r].user = req[r].user /\ req'[r].n = req[r].n /\ req'[r].list = req[r].list
          /\ seen[r] \subseteq seen'[r]
      BY <1>2, <2>2, <2>4
    <3> QED BY <2>2, <3>1 DEF ListRead, Missing
  <2> HIDE DEF p
  <2>7. Asked(r)'
    <3>1. Shape(r)'
      BY <1>3, <2>2, <2>3, <2>4, <2>5, <2>6, ShapeNow DEF Kinds
    <3>2. Progress(r)'
      <4>1. req'[r].at = "score" /\ req'[r].kind = k.kind
        BY <2>4
      <4> QED BY <1>3, <2>5, <2>6, <4>1 DEF Progress
    <3> QED BY <3>1, <3>2 DEF Asked
  <2> QED BY <2>2, <2>7
<1>5. CASE ~Present(k.user)
  <2>1. Reads(r, [req[r] EXCEPT !.at = "done", !.list = <<>>])
    BY <1>2, <1>5 DEF ReadRank, Answer
  <2>2. /\ scope' = scope /\ req'[r] = [req[r] EXCEPT !.at = "done", !.list = <<>>]
        /\ seen'[r] = seen[r] \cup {zset}
        /\ Asked(r)' => ReadsInv'
    BY <1>1, <2>1, ReadsEffect
  <2>3. req'[r] = [at |-> "done", kind |-> k.kind, user |-> k.user, n |-> k.n, rank |-> k.rank, list |-> <<>>]
    BY <1>2, <1>3, <2>2
  <2>4. Missing(r)'
    <3>1. k.user \notin DOMAIN zset
      BY <1>5 DEF Present
    <3>2. req'[r].user = k.user
      BY <2>3
    <3>3. zset \in seen'[r]
      BY <2>2
    <3> QED BY ONLY <3>1, <3>2, <3>3 DEF Missing
  <2>5. AsRead(r)'
    <3>1. req'[r].kind = k.kind /\ req'[r].list = <<>>
      BY <2>3
    <3> QED BY <1>3, <2>2, <2>4, <3>1 DEF AsRead, RankAnswer, AroundAnswer
  <2>6. Asked(r)'
    <3>1. Shape(r)'
      BY <1>3, <2>2, <2>3, <2>5, ShapeNow DEF Kinds
    <3>2. Progress(r)'
      BY <1>3, <2>2, <2>3, <2>5 DEF Progress
    <3> QED BY <3>1, <3>2 DEF Asked
  <2> QED BY <2>2, <2>6
<1> QED BY <1>4, <1>5


\* Rank, second command: a member that has gone in between is an error.
LEMMA ReadScoreStep ==
  ASSUME IsFiniteSet(User), ReadsInv, NEW r \in Request, ReadScore(r)
  PROVE  ReadsInv'
<1>1. req[r].at = "score" /\ Asked(r)
  BY DEF ReadScore, ReadsInv
<1>2. PICK k : k = req[r]
  OBVIOUS
<1>3. /\ k = [at |-> k.at, kind |-> k.kind, user |-> k.user, n |-> k.n, rank |-> k.rank, list |-> k.list]
      /\ k.at = "score" /\ k.kind \in {"rank", "around"} /\ k.user \in User /\ k.n \in Counts \cup {0}
      /\ k.rank \in Nat /\ scope # "friends"
      /\ k.kind = "around" => ListRead(r)
  BY <1>1, <1>2 DEF Asked, Shape, Progress, Kinds
<1>4. PICK x \in seen[r] : k.user \in DOMAIN x /\ k.rank = RevRank(x, k.user) + 1
  BY <1>1, <1>2 DEF Asked, Progress, PlaceRead
<1>5. CASE ~Present(k.user)
  <2>1. Reads(r, [k EXCEPT !.at = "error"])
    BY <1>2, <1>5 DEF ReadScore
  <2>2. req'[r] = [k EXCEPT !.at = "error"]
    BY <1>1, <2>1, ReadsEffect
  <2>3. scope' = scope /\ seen'[r] = seen[r] \cup {zset} /\ (Asked(r)' => ReadsInv')
    BY <1>1, <2>1, ReadsEffect
  <2>4. req'[r] = [at |-> "error", kind |-> k.kind, user |-> k.user, n |-> k.n, rank |-> k.rank, list |-> k.list]
    <3>1. PICK y : y = req'[r]
      OBVIOUS
    <3>2. y = [k EXCEPT !.at = "error"]
      BY <2>2, <3>1
    <3> QED BY <1>3, <3>1, <3>2
  <2>5. scope = "global"
    <3>1. scope = "regional" => DOMAIN x \subseteq DOMAIN zset
      BY <1>4 DEF ReadsInv, History
    <3>2. scope \in {"regional", "global", "friends"}
      BY DEF ReadsInv, History
    <3> QED BY <1>3, <1>4, <1>5, <3>1, <3>2 DEF Present
  <2>6. Cardinality(seen'[r]) > 1
    <3>1. IsFiniteSet(seen[r])
      BY DEF ReadsInv, History
    <3>2. IsFiniteSet(seen'[r])
      BY <2>3, <3>1, FS_AddElement
    <3>3. x # zset
      BY <1>4, <1>5 DEF Present
    <3>4. Cardinality({x}) = 1 /\ IsFiniteSet({x})
      BY FS_Singleton
    <3>5. Cardinality({x} \cup {zset}) = 2
      BY <3>3, <3>4, FS_AddElement
    <3>6. {x} \cup {zset} \in SUBSET seen'[r]
      BY <1>4, <2>3
    <3>7. Cardinality({x} \cup {zset}) <= Cardinality(seen'[r]) /\ Cardinality(seen'[r]) \in Nat
      BY <3>2, <3>6, FS_Subset, FS_CardinalityType
    <3> QED BY <3>5, <3>7
  <2>7. Asked(r)'
    <3>1. PICK y : y = req'[r]
      OBVIOUS
    <3>2. /\ y.at = "error" /\ y.kind = k.kind /\ y.user = k.user /\ y.n = k.n /\ y.rank = k.rank
          /\ y = [at |-> y.at, kind |-> y.kind, user |-> y.user, n |-> y.n, rank |-> y.rank, list |-> y.list]
      BY <2>4, <3>1
    <3>3. Shape(r)'
      BY <1>3, <2>3, <2>5, <2>6, <3>1, <3>2 DEF Shape, Kinds
    <3>4. Progress(r)'
      BY <3>1, <3>2 DEF Progress
    <3> QED BY <3>3, <3>4 DEF Asked
  <2> QED BY <2>3, <2>7
<1>6. CASE Present(k.user)
  <2> DEFINE l == IF k.kind = "around" THEN Entries(k.list, FirstRank(k.rank, k.n))
                  ELSE <<[rank |-> k.rank, entry |-> [user |-> k.user, score |-> zset[k.user]]]>>
  <2>1. Reads(r, [k EXCEPT !.at = "done", !.list = l])
    BY <1>2, <1>6 DEF ReadScore, Answer
  <2>2. req'[r] = [k EXCEPT !.at = "done", !.list = l]
    BY <1>1, <2>1, ReadsEffect
  <2>3. scope' = scope /\ seen'[r] = seen[r] \cup {zset} /\ (Asked(r)' => ReadsInv')
    BY <1>1, <2>1, ReadsEffect
  <2> HIDE DEF l
  <2>4. req'[r] = [at |-> "done", kind |-> k.kind, user |-> k.user, n |-> k.n, rank |-> k.rank, list |-> l]
    <3>1. PICK y : y = req'[r]
      OBVIOUS
    <3>2. y = [k EXCEPT !.at = "done", !.list = l]
      BY <2>2, <3>1
    <3> QED BY <1>3, <3>1, <3>2
  <2>5. PICK w : w = req'[r]
    OBVIOUS
  <2>6. w.at = "done" /\ w.kind = k.kind /\ w.user = k.user /\ w.n = k.n /\ w.list = l
    BY <2>4, <2>5
  <2>7. x \in seen'[r] /\ zset \in seen'[r] /\ seen[r] \subseteq seen'[r]
    BY <1>4, <2>3
  <2> DEFINE kind == k.kind
  <2>0. kind \in {"rank", "around"} /\ req'[r].kind = kind /\ scope' # "friends"
    BY <1>3, <2>3, <2>5, <2>6
  <2>8. ASSUME k.kind = "rank" PROVE AsRead(r)'
    <3>1. l = <<[rank |-> RevRank(x, k.user) + 1, entry |-> [user |-> k.user, score |-> zset[k.user]]]>>
      BY <1>4, <2>8 DEF l
    <3>2. k.user \in DOMAIN zset
      BY <1>6 DEF Present
    <3>3. RankAnswer(r)'
      BY <1>4, <2>5, <2>6, <2>7, <3>1, <3>2 DEF RankAnswer
    <3> QED BY <2>0, <2>8, <3>3 DEF AsRead
  <2>9. ASSUME k.kind = "around" PROVE AsRead(r)'
    <3>1. l = Entries(k.list, FirstRank(RevRank(x, k.user) + 1, k.n))
      BY <1>4, <2>9 DEF l
    <3>2. AroundAnswer(r)'
      <4>1. CASE k.list = <<>> /\ Missing(r)
        <5>1. l = <<>>
          BY <3>1, <4>1 DEF Entries
        <5>2. Missing(r)'
          BY <1>2, <2>5, <2>6, <2>7, <4>1 DEF Missing
        <5> QED BY <2>5, <2>6, <5>1, <5>2 DEF AroundAnswer
      <4>2. ASSUME NEW y \in seen[r], NEW z \in seen[r],
                   k.user \in DOMAIN y, k.list = Neighbours(z, RevRank(y, k.user), k.n),
                   scope = "regional" => DOMAIN y \subseteq DOMAIN z
            PROVE  AroundAnswer(r)'
        <5>1. l = Entries(Neighbours(z, RevRank(y, k.user), k.n), FirstRank(RevRank(x, k.user) + 1, k.n))
          BY <3>1, <4>2
        <5>2. y \in seen'[r] /\ z \in seen'[r]
          BY <2>7
        <5> QED BY <1>4, <2>3, <2>5, <2>6, <2>7, <4>2, <5>1, <5>2 DEF AroundAnswer
      <4> QED BY <1>2, <1>3, <2>9, <4>1, <4>2 DEF ListRead
    <3> QED BY <2>0, <2>9, <3>2 DEF AsRead
  <2>10. AsRead(r)'
    BY <2>0, <2>8, <2>9
  <2>11. Asked(r)'
    <3>1. Shape(r)'
      BY <1>3, <2>3, <2>4, ShapeNow DEF Kinds
    <3>2. Progress(r)'
      BY <2>5, <2>6, <2>10 DEF Progress
    <3> QED BY <3>1, <3>2 DEF Asked
  <2> QED BY <2>3, <2>11
<1> QED BY <1>5, <1>6


\* An order of a group has everybody at one place.
LEMMA OrdersLemma ==
  ASSUME IsFiniteSet(User), NEW z, NEW s \in Orders(z)
  PROVE  /\ Cardinality(User) \in Nat
         /\ s \in [1 .. Cardinality(User) -> User] /\ DOMAIN s = 1 .. Cardinality(User)
         /\ Len(s) = Cardinality(User)
         /\ \A i, j \in 1 .. Cardinality(User) : s[i] = s[j] => i = j
         /\ \A i, j \in 1 .. Cardinality(User) : i < j => Mirror(z, s[i]) >= Mirror(z, s[j])
         /\ \A u \in User : \E i \in 1 .. Cardinality(User) : s[i] = u
<1>1. IsFiniteSet(User) /\ Cardinality(User) \in Nat
  BY FS_CardinalityType
<1> DEFINE N == Cardinality(User)
<1>2. s \in [1 .. N -> User] /\ DOMAIN s = 1 .. N /\ IsInjective(s)
  BY DEF Orders
<1>3. \A i, j \in 1 .. N : i < j => Mirror(z, s[i]) >= Mirror(z, s[j])
  BY <1>2 DEF Orders
<1> HIDE DEF N
<1>4. N \in Nat /\ N = Cardinality(User)
  BY <1>1 DEF N
<1>5. s \in Seq(User) /\ Len(s) = N
  <2>1. s \in Seq(User)
    BY <1>2, <1>4, SeqDef
  <2>2. Len(s) \in Nat /\ DOMAIN s = 1 .. Len(s)
    BY <2>1, LenProperties
  <2> QED BY <1>2, <1>4, <2>1, <2>2
<1>6. \A i, j \in 1 .. N : s[i] = s[j] => i = j
  BY <1>2 DEF IsInjective
<1>7. \A u \in User : \E i \in 1 .. N : s[i] = u
  <2>1. s \in Injection(1 .. N, User)
    BY <1>2, <1>6 DEF Injection, IsInjective
  <2>2. IsFiniteSet(1 .. N) /\ Cardinality(1 .. N) = N
    BY <1>4, FS_Interval
  <2>3. s \in Surjection(1 .. N, User)
    BY <1>1, <1>4, <2>1, <2>2, FS_Injection
  <2> QED BY <2>3 DEF Surjection
<1> QED BY <1>2, <1>3, <1>4, <1>5, <1>6, <1>7 DEF N

\* A friends group: one MGET, sorted and cut; bounds that do not nest are a negative count's.
LEMMA FriendsStep ==
  ASSUME IsFiniteSet(User), ReadsInv, NEW r \in Request, Friends(r)
  PROVE  ReadsInv'
<1> DEFINE N == Cardinality(User)
           center(s, u) == CHOOSE i \in DOMAIN s : s[i] = u
           from(s, u, n, kind) ==
             CASE kind = "top" -> 0
               [] kind = "rank" -> center(s, u) - 1
               [] kind = "around" -> FirstRank(center(s, u), n) - 1
           to(s, u, n, kind) ==
             CASE kind = "top" -> Least(n, Len(s))
               [] kind = "rank" -> center(s, u)
               [] kind = "around" -> Least(center(s, u) + n, Len(s))
<1>1. scope = "friends" /\ req[r].at = "new"
  BY DEF Friends
<1>2. PICK s \in Sorted, u \in User, n \in Counts, kind \in Kinds :
        IF InBounds(s, from(s, u, n, kind), to(s, u, n, kind))
        THEN Reads(r, [[New EXCEPT !.kind = kind, !.user = u, !.n = n]
                         EXCEPT !.at = "done", !.list = Slice(s, from(s, u, n, kind), to(s, u, n, kind))])
        ELSE Reads(r, [[New EXCEPT !.kind = kind, !.user = u, !.n = n] EXCEPT !.at = "panic"])
  BY DEF Friends
<1>3. s \in Orders(zset)
  BY DEF Sorted, Orders
<1>4. /\ N \in Nat /\ Len(s) = N /\ DOMAIN s = 1 .. N
      /\ \E i \in DOMAIN s : s[i] = u
  BY <1>3, OrdersLemma
<1>5. PICK c \in 1 .. N : c = center(s, u) /\ s[c] = u
  <2>1. center(s, u) \in DOMAIN s /\ s[center(s, u)] = u
    BY <1>4
  <2> QED BY <1>4, <2>1
<1>6. PICK f : f = from(s, u, n, kind)
  OBVIOUS
<1>7. PICK t : t = to(s, u, n, kind)
  OBVIOUS
<1> HIDE DEF center
<1>8. /\ kind = "top" => f = 0 /\ t = Least(n, N)
      /\ kind = "rank" => f = c - 1 /\ t = c
      /\ kind = "around" => f = FirstRank(c, n) - 1 /\ t = Least(c + n, N)
  BY <1>4, <1>5, <1>6, <1>7
<1> HIDE DEF from, to
<1>9. n \in Int
  BY ReadsAssumption, LeaderboardAssumption
<1>10. kind \in {"top", "rank", "around"}
  BY DEF Kinds
<1> HIDE DEF N
<1>11. n >= 0 => InBounds(s, f, t)
  BY <1>4, <1>8, <1>9, <1>10 DEF InBounds, Least, FirstRank
<1>12. CASE InBounds(s, f, t)
  <2> DEFINE l == Slice(s, f, t)
  <2>1. Reads(r, [[New EXCEPT !.kind = kind, !.user = u, !.n = n] EXCEPT !.at = "done", !.list = l])
    BY <1>2, <1>6, <1>7, <1>12
  <2>2. req'[r] = [[New EXCEPT !.kind = kind, !.user = u, !.n = n] EXCEPT !.at = "done", !.list = l]
    BY <1>1, <2>1, ReadsEffect
  <2>3. scope' = scope /\ zset \in seen'[r] /\ (Asked(r)' => ReadsInv')
    BY <1>1, <2>1, ReadsEffect
  <2> HIDE DEF l
  <2>4. req'[r] = [at |-> "done", kind |-> kind, user |-> u, n |-> n, rank |-> 0, list |-> l]
    <3>1. PICK x : x = req'[r]
      OBVIOUS
    <3>2. x = [[New EXCEPT !.kind = kind, !.user = u, !.n = n] EXCEPT !.at = "done", !.list = l]
      BY <2>2, <3>1
    <3> QED BY <3>1, <3>2 DEF New
  <2>5. PICK w : w = req'[r]
    OBVIOUS
  <2>6. w.at = "done" /\ w.kind = kind /\ w.user = u /\ w.n = n /\ w.list = l
    BY <2>4, <2>5
  <2>7. l = Cut(zset, s, f, t)
    BY DEF l, Slice, Cut
  <2>8. f \in Int /\ t \in Int
    BY <1>4, <1>8, <1>9, <1>10 DEF Least, FirstRank
  <2>9. f \in 0 .. N /\ t \in 0 .. N /\ f <= t
    BY <1>4, <1>12, <2>8 DEF InBounds
  <2>10. GroupAnswer(r)'
    BY <1>3, <1>5, <1>8, <2>3, <2>5, <2>6, <2>7, <2>9 DEF GroupAnswer, N
  <2>11. Asked(r)'
    <3>1. Shape(r)'
      BY <1>10, <2>4, ShapeNow DEF Kinds
    <3>2. Progress(r)'
      BY <1>1, <2>3, <2>5, <2>6, <2>10 DEF Progress, AsRead
    <3> QED BY <3>1, <3>2 DEF Asked
  <2> QED BY <2>3, <2>11
<1>13. CASE ~InBounds(s, f, t)
  <2>1. Reads(r, [[New EXCEPT !.kind = kind, !.user = u, !.n = n] EXCEPT !.at = "panic"])
    BY <1>2, <1>6, <1>7, <1>13
  <2>2. req'[r] = [[New EXCEPT !.kind = kind, !.user = u, !.n = n] EXCEPT !.at = "panic"]
    BY <1>1, <2>1, ReadsEffect
  <2>3. scope' = scope /\ (Asked(r)' => ReadsInv')
    BY <1>1, <2>1, ReadsEffect
  <2>4. PICK x : x = req'[r]
    OBVIOUS
  <2>5. x = [at |-> "panic", kind |-> kind, user |-> u, n |-> n, rank |-> 0, list |-> <<>>]
    <3>1. x = [[New EXCEPT !.kind = kind, !.user = u, !.n = n] EXCEPT !.at = "panic"]
      BY <2>2, <2>4
    <3> QED BY <3>1 DEF New
  <2>6. n < 0
    BY <1>9, <1>11, <1>13
  <2>7. /\ x.at = "panic" /\ x.kind = kind /\ x.user = u /\ x.n = n /\ x.rank = 0
        /\ x = [at |-> x.at, kind |-> x.kind, user |-> x.user, n |-> x.n, rank |-> x.rank, list |-> x.list]
    BY <2>5
  <2>8. Asked(r)'
    <3>1. Shape(r)'
      BY <1>1, <2>3, <2>4, <2>6, <2>7 DEF Shape
    <3>2. Progress(r)'
      BY <2>4, <2>7 DEF Progress
    <3> QED BY <3>1, <3>2 DEF Asked
  <2> QED BY <2>3, <2>8
<1> QED BY <1>12, <1>13

\* At the start no request has read anything.
LEMMA ReadsInitially == ReadsInit => ReadsInv
<1> SUFFICES ASSUME ReadsInit PROVE ReadsInv
  OBVIOUS
<1>1. /\ scope \in {"regional", "global", "friends"} /\ zset \in Leaderboards
      /\ req = [r \in Request |-> New] /\ seen = [r \in Request |-> {}]
  BY DEF ReadsInit
<1>2. \A r \in Request : req[r] = New /\ seen[r] = {}
  BY <1>1
<1>3. New.at = "new" /\ New.kind = "" /\ New.user = 0 /\ New.n = 0 /\ New.rank = 0
      /\ New = [at |-> New.at, kind |-> New.kind, user |-> New.user, n |-> New.n, rank |-> New.rank,
                list |-> New.list]
  BY DEF New
<1>4. ASSUME NEW r \in Request PROVE Asked(r)
  <2>1. Shape(r)
    <3>1. PICK q : q = req[r]
      OBVIOUS
    <3>2. q = New /\ seen[r] = {}
      BY <1>2, <3>1
    <3>3. /\ q = [at |-> q.at, kind |-> q.kind, user |-> q.user, n |-> q.n, rank |-> q.rank, list |-> q.list]
          /\ q.at = "new" /\ q.user = 0 /\ q.n = 0 /\ q.rank = 0
      BY <1>3, <3>2
    <3> QED BY <3>1, <3>2, <3>3 DEF Shape
  <2>2. Progress(r)
    BY <1>2, <1>3 DEF Progress
  <2> QED BY <2>1, <2>2 DEF Asked
<1>5. History
  <2>1. req = [r \in Request |-> req[r]] /\ seen = [r \in Request |-> seen[r]]
    BY <1>1
  <2>2. \A r \in Request : r \notin Pending
    BY <1>2, <1>3 DEF Pending
  <2>3. \A r \in Request : IsFiniteSet(seen[r])
    BY <1>2, FS_EmptySet
  <2> QED BY <1>1, <1>2, <2>1, <2>2, <2>3 DEF History, EmptyBetween
<1> QED BY <1>4, <1>5 DEF ReadsInv

\* Every step of the specification, and a stutter.
LEMMA ReadsInductive ==
  ASSUME IsFiniteSet(User), ReadsInv, [ReadsNext]_readsVars
  PROVE  ReadsInv'
<1>1. CASE ReadsNext
  <2>1. ASSUME (\E u \in User : Increment(u)) \/ Del \/ (\E z \in Leaderboards : ZAdd(z))
        PROVE  ReadsInv'
    BY <2>1, WriterStep
  <2>2. ASSUME NEW r \in Request,
               Top(r) \/ Begin(r) \/ ReadRange(r) \/ ReadRank(r) \/ ReadScore(r) \/ Friends(r)
        PROVE  ReadsInv'
    BY <2>2, TopStep, AskStep, ReadRangeStep, ReadRankStep, ReadScoreStep, FriendsStep
  <2> QED BY <1>1, <2>1, <2>2 DEF ReadsNext
<1>2. CASE UNCHANGED readsVars
  <2>1. UNCHANGED <<scope, zset, writes, req, seen>>
    BY <1>2 DEF readsVars
  <2>2. History'
    BY <2>1 DEF ReadsInv, History, Pending, Leaderboards, EmptyBetween
  <2>3. ASSUME NEW r \in Request PROVE Asked(r)'
    BY <2>1, StillAsked DEF ReadsInv
  <2> QED BY <2>2, <2>3 DEF ReadsInv
<1> QED BY <1>1, <1>2

\* The inductive invariant holds of every behaviour.
LEMMA ReadsInvariant ==
  ASSUME IsFiniteSet(User)
  PROVE  ReadsSpec => []ReadsInv
<1>1. ReadsInv /\ [ReadsNext]_readsVars => ReadsInv'
  BY ReadsInductive
<1> QED BY <1>1, ReadsInitially, PTL DEF ReadsSpec


-----------------------------------------------------------------------------
(* What an answer is, whatever it was read from.                           *)

\* A list that is given by its length.
LEMMA ListLemma ==
  ASSUME NEW m \in Int, NEW l, l = [i \in 1 .. m |-> l[i]]
  PROVE  Len(l) = (IF m < 0 THEN 0 ELSE m) /\ DOMAIN l = 1 .. m /\ (l = <<>> <=> m <= 0)
<1> DEFINE n == IF m < 0 THEN 0 ELSE m
           S == {l[i] : i \in 1 .. m}
<1>1. n \in Nat /\ 1 .. m = 1 .. n /\ (n = 0 <=> m <= 0) /\ n = IF m < 0 THEN 0 ELSE m
  OBVIOUS
<1> HIDE DEF n
<1>2. DOMAIN l = 1 .. n
  BY <1>1
<1>3. l \in [1 .. n -> S]
  BY <1>1
<1> HIDE DEF S
<1>4. l \in Seq(S)
  BY <1>1, <1>3, SeqDef
<1>5. Len(l) \in Nat /\ DOMAIN l = 1 .. Len(l)
  BY <1>4, LenProperties
<1>6. Len(l) = n
  <2>1. PICK k \in Nat : k = Len(l)
    BY <1>5
  <2>2. 1 .. k = 1 .. n
    BY <1>2, <1>5, <2>1
  <2>3. k = n
    BY ONLY <1>1, <2>1, <2>2
  <2> QED BY <2>1, <2>3
<1>7. l = <<>> <=> n = 0
  <2>1. l = <<>> => n = 0
    BY <1>6
  <2>2. n = 0 => l = <<>>
    BY <1>4, <1>6, EmptySeq
  <2> QED BY <2>1, <2>2
<1> QED BY ONLY <1>1, <1>2, <1>6, <1>7

\* Numbers in a row are as many as the list has entries.
LEMMA CountLemma ==
  ASSUME NEW m \in Int, NEW l, l = [i \in 1 .. m |-> l[i]], NEW a \in Int,
         \A i \in 1 .. m : l[i].rank = a + i,
         \A i, j \in 1 .. m : l[i].entry.user = l[j].entry.user => i = j
  PROVE  /\ {l[i].rank : i \in DOMAIN l} = a + 1 .. a + m
         /\ Len(l) = Cardinality({l[i].rank : i \in DOMAIN l})
         /\ Cardinality({l[i].entry.user : i \in DOMAIN l}) = Len(l)
<1>1. Len(l) = (IF m < 0 THEN 0 ELSE m) /\ DOMAIN l = 1 .. m
  BY ListLemma
<1>2. {l[i].rank : i \in 1 .. m} = a + 1 .. a + m
  <2>1. ASSUME NEW k \in a + 1 .. a + m PROVE \E i \in 1 .. m : l[i].rank = k
    <3>1. k - a \in 1 .. m /\ a + (k - a) = k
      OBVIOUS
    <3> QED BY <3>1
  <2>2. \A i \in 1 .. m : l[i].rank \in a + 1 .. a + m
    OBVIOUS
  <2> QED BY <2>1, <2>2
<1>3. Cardinality(a + 1 .. a + m) = Len(l)
  <2>1. PICK b \in Int, c \in Int : b = a + 1 /\ c = a + m
    OBVIOUS
  <2>2. Cardinality(b .. c) = IF b > c THEN 0 ELSE c - b + 1
    BY FS_Interval
  <2>3. Cardinality(a + 1 .. a + m) = Cardinality(b .. c)
    BY <2>1
  <2>4. Cardinality(b .. c) = IF m < 0 THEN 0 ELSE m
    BY ONLY m \in Int, a \in Int, <2>1, <2>2
  <2> QED BY <1>1, <2>3, <2>4
<1>4. Cardinality({l[i].entry.user : i \in 1 .. m}) = Len(l)
  <2> DEFINE U == {l[i].entry.user : i \in 1 .. m}
             f == [i \in 1 .. m |-> l[i].entry.user]
  <2>1. f \in Bijection(1 .. m, U)
    <3>1. f \in [1 .. m -> U] /\ (\A i, j \in 1 .. m : f[i] = f[j] => i = j)
          /\ (\A u \in U : \E i \in 1 .. m : f[i] = u)
      OBVIOUS
    <3> HIDE DEF f, U
    <3> QED BY <3>1 DEF Bijection, Injection, Surjection, IsInjective
  <2>2. IsFiniteSet(1 .. m) /\ Cardinality(1 .. m) = IF 1 > m THEN 0 ELSE m - 1 + 1
    <3>1. 1 \in Int
      OBVIOUS
    <3> QED BY <3>1, FS_Interval
  <2> HIDE DEF f, U
  <2>3. Cardinality(1 .. m) = Cardinality(U)
    <3>1. PICK I : I = 1 .. m
      OBVIOUS
    <3>2. IsFiniteSet(I) /\ ExistsBijection(I, U)
      BY <2>1, <2>2, <3>1 DEF ExistsBijection
    <3> QED BY <3>1, <3>2, FS_Bijection
  <2>4. Cardinality(U) = IF m < 0 THEN 0 ELSE m
    BY <2>2, <2>3
  <2> QED BY <1>1, <2>4 DEF U
<1> QED BY <1>1, <1>2, <1>3, <1>4

\* l is the m entries of z from a rank on, answered with the ranks from first on.
Part(l, z, start, first, m) ==
  /\ m \in Int /\ m <= Cardinality(DOMAIN z) - start /\ l = [i \in 1 .. m |-> l[i]]
  /\ \A i \in 1 .. m :
       /\ l[i].rank = first + i - 1 /\ l[i].entry.user \in DOMAIN z
       /\ l[i].entry.score = z[l[i].entry.user] /\ RevRank(z, l[i].entry.user) = start + i - 1
  /\ \A i, j \in 1 .. m : l[i].entry.user = l[j].entry.user => i = j

\* The entries of a range, as they are answered.
LEMMA EntriesLemma ==
  ASSUME IsFiniteSet(User), NEW z \in Leaderboards, NEW start \in Nat, NEW stop \in Int, NEW first \in Int,
         NEW m, m = LastRank(z, stop) - start + 1,
         NEW l, l = Entries(RevRange(z, start, stop), first)
  PROVE  Part(l, z, start, first, m)
<1> DEFINE q == RevRange(z, start, stop)
<1>1. Board(z) /\ Cardinality(DOMAIN z) <= Cardinality(User) /\ Cardinality(User) \in Nat
  BY BoardLemma
<1>2. /\ LastRank(z, stop) \in Int /\ LastRank(z, stop) <= Cardinality(DOMAIN z) - 1
      /\ DOMAIN q = 1 .. m
      /\ \A i \in 1 .. m : /\ q[i].user \in DOMAIN z /\ q[i].score = z[q[i].user]
                           /\ RevRank(z, q[i].user) = start + i - 1
  BY <1>1, RangeLemma
<1> HIDE DEF q
<1>3. l = [i \in 1 .. m |-> [rank |-> first + i - 1, entry |-> q[i]]]
  BY <1>2 DEF Entries, q
<1>4. \A i \in 1 .. m : l[i].rank = first + i - 1 /\ l[i].entry = q[i]
  BY <1>3
<1>5. Cardinality(DOMAIN z) \in Nat
  BY <1>1, RankLemma
<1>6. m \in Int /\ m <= Cardinality(DOMAIN z) - start
  BY <1>2, <1>5
<1>7. \A i \in 1 .. m :
        /\ l[i].rank = first + i - 1 /\ l[i].entry.user \in DOMAIN z
        /\ l[i].entry.score = z[l[i].entry.user] /\ RevRank(z, l[i].entry.user) = start + i - 1
  BY <1>2, <1>4
<1>8. ASSUME NEW i \in 1 .. m, NEW j \in 1 .. m, l[i].entry.user = l[j].entry.user PROVE i = j
  <2>1. start + i - 1 = start + j - 1
    BY <1>7, <1>8
  <2> QED BY <1>6, <2>1
<1>9. l = [i \in 1 .. m |-> l[i]]
  BY <1>3
<1> QED BY ONLY <1>6, <1>7, <1>8, <1>9 DEF Part

\* A user's rank is its only place on a leaderboard.
LEMMA PlaceLemma ==
  ASSUME NEW z, Board(z), NEW u \in DOMAIN z, scope # "friends"
  PROVE  Place(z, u, RevRank(z, u) + 1) /\ RevRank(z, u) + 1 \in 1 .. Cardinality(Group(z))
<1> DEFINE A == {v \in DOMAIN z : Beats(z, v, u)}
<1>1. RevRank(z, u) = Cardinality(A)
  BY DEF RevRank
<1>2. Group(z) = DOMAIN z /\ \A v \in DOMAIN z : Ahead(z, v, u) = Beats(z, v, u) /\ Ahead(z, u, v) = Beats(z, u, v)
  BY DEF Group, Ahead
<1>3. {v \in Group(z) : Ahead(z, v, u)} = A
  BY <1>2
<1>4. {v \in Group(z) : ~Ahead(z, u, v)} = A \cup {u}
  <2>1. \A v \in DOMAIN z : ~Beats(z, u, v) <=> v = u \/ Beats(z, v, u)
    BY BeatsOrder
  <2> QED BY <1>2, <2>1
<1>5. u \notin A
  BY BeatsOrder
<1>6. IsFiniteSet(A) /\ Cardinality(A) \in Nat
  <2> A \in SUBSET DOMAIN z
    OBVIOUS
  <2> HIDE DEF A
  <2> QED BY FS_Subset, FS_CardinalityType DEF Board
<1> HIDE DEF A
<1>7. Cardinality(A \cup {u}) = Cardinality(A) + 1
  BY <1>5, <1>6, FS_AddElement
<1>8. AtLeast(z, u) = Cardinality(A) + 1 /\ AtMost(z, u) = Cardinality(A) + 1
  BY <1>3, <1>4, <1>7 DEF AtLeast, AtMost
<1>9. RevRank(z, u) \in 0 .. Cardinality(DOMAIN z) - 1 /\ Cardinality(DOMAIN z) \in Nat
  BY RankLemma
<1> QED BY <1>1, <1>2, <1>6, <1>8, <1>9 DEF Place


-----------------------------------------------------------------------------
(* What an answer says.                                                    *)

\* The bounds Around computes, and the first rank the handler computes apart from it.
LEMMA AroundLemma ==
  ASSUME NEW rank \in Nat, NEW n \in Int
  PROVE  /\ (IF rank > n THEN rank - n ELSE 0) \in Nat
         /\ FirstRank(rank + 1, n) = (IF rank > n THEN rank - n ELSE 0) + 1
BY DEF FirstRank

\* A request for the top, as the entries of one leaderboard.
LEMMA TopLemma ==
  ASSUME IsFiniteSet(User), NEW r, TopAnswer(r), seen[r] \subseteq Leaderboards, req[r].n \in Int
  PROVE  \E z \in seen[r] : \E m \in Int :
           /\ m = Least(IF req[r].n > 0 THEN req[r].n ELSE 10, Cardinality(DOMAIN z))
           /\ Part(req[r].list, z, 0, 1, m)
<1>1. PICK z \in seen[r] : req[r].list = Entries(TopN(z, req[r].n), 1)
  BY DEF TopAnswer
<1>2. z \in Leaderboards
  OBVIOUS
<1>3. PICK n \in Int : n = req[r].n
  OBVIOUS
<1>4. PICK stop \in Int : stop = (IF n > 0 THEN n ELSE 10) - 1
  OBVIOUS
<1>5. PICK l : l = req[r].list
  OBVIOUS
<1>6. l = Entries(RevRange(z, 0, stop), 1)
  BY <1>1, <1>3, <1>4, <1>5 DEF TopN
<1> DEFINE m == LastRank(z, stop) - 0 + 1
<1>7. Cardinality(DOMAIN z) \in Nat
  BY <1>2, BoardLemma, RankLemma
<1>8. m = Least(IF n > 0 THEN n ELSE 10, Cardinality(DOMAIN z))
  BY <1>4, <1>7 DEF LastRank, Least
<1>9. Part(l, z, 0, 1, m)
  <2>1. 0 \in Nat /\ 1 \in Int
    OBVIOUS
  <2>2. PICK k : k = LastRank(z, stop) - 0 + 1
    OBVIOUS
  <2>3. Part(l, z, 0, 1, k)
    BY <1>2, <1>6, <2>1, <2>2, EntriesLemma
  <2> QED BY <2>2, <2>3
<1>10. m \in Int
  BY <1>9 DEF Part
<1> HIDE DEF m
<1> QED BY <1>3, <1>5, <1>8, <1>9, <1>10

\* A request for the neighbours, as the entries of one leaderboard.
LEMMA AroundAnswerLemma ==
  ASSUME IsFiniteSet(User), NEW r, AroundAnswer(r), seen[r] \subseteq Leaderboards, req[r].n \in Int,
         ~(req[r].list = <<>> /\ Missing(r))
  PROVE  \E x, y, z \in seen[r] : \E m, start, first \in Int :
           LET u == req[r].user
               n == req[r].n
           IN
           /\ u \in DOMAIN x /\ u \in DOMAIN y /\ (scope = "regional" => DOMAIN y \subseteq DOMAIN z)
           /\ start = (IF RevRank(y, u) > n THEN RevRank(y, u) - n ELSE 0)
           /\ first = FirstRank(RevRank(x, u) + 1, n) /\ first > 0
           /\ m = LastRank(z, RevRank(y, u) + n) - start + 1
           /\ Part(req[r].list, z, start, first, m)
<1>1. PICK l : l = req[r].list
  OBVIOUS
<1>2. PICK u : u = req[r].user
  OBVIOUS
<1>3. PICK n \in Int : n = req[r].n
  OBVIOUS
<1>4. PICK x \in seen[r], y \in seen[r], z \in seen[r] :
       /\ u \in DOMAIN x /\ u \in DOMAIN y
       /\ l = Entries(Neighbours(z, RevRank(y, u), n), FirstRank(RevRank(x, u) + 1, n))
       /\ scope = "regional" => DOMAIN y \subseteq DOMAIN z
  BY <1>1, <1>2, <1>3 DEF AroundAnswer
<1>5. x \in Leaderboards /\ y \in Leaderboards /\ z \in Leaderboards
  OBVIOUS
<1>6. RevRank(x, u) \in Nat /\ RevRank(y, u) \in Nat
  BY <1>4, <1>5, BoardLemma, RankLemma
<1>7. PICK start \in Nat : start = IF RevRank(y, u) > n THEN RevRank(y, u) - n ELSE 0
  BY <1>6
<1>8. PICK stop \in Int : stop = RevRank(y, u) + n
  BY <1>6
<1>9. PICK first \in Int : first = FirstRank(RevRank(x, u) + 1, n) /\ first > 0
  BY <1>6 DEF FirstRank
<1>10. l = Entries(RevRange(z, start, stop), first)
  BY <1>4, <1>7, <1>8, <1>9 DEF Neighbours
<1>11. PICK m : m = LastRank(z, stop) - start + 1
  OBVIOUS
<1>12. Part(l, z, start, first, m)
  BY <1>5, <1>10, <1>11, EntriesLemma
<1>13. m \in Int /\ m = LastRank(z, RevRank(y, u) + n) - start + 1
  BY <1>8, <1>11, <1>12 DEF Part
<1> QED BY <1>1, <1>2, <1>3, <1>4, <1>7, <1>9, <1>12, <1>13

\* l is the m entries of the order s after one place, with their places.
CutRow(l, s, from, m) ==
  /\ l = [i \in 1 .. m |-> l[i]]
  /\ \A i \in 1 .. m :
       l[i].rank = from + i /\ l[i].entry.user = s[from + i] /\ from + i \in 1 .. Cardinality(User)
  /\ \A i, j \in 1 .. m : l[i].entry.user = l[j].entry.user => i = j

\* A cut of a group's order, from its bounds.
LEMMA CutLemma ==
  ASSUME IsFiniteSet(User), NEW z, NEW s \in Orders(z), NEW from \in 0 .. Cardinality(User),
         NEW to \in 0 .. Cardinality(User), NEW l, l = Cut(z, s, from, to)
  PROVE  CutRow(l, s, from, to - from)
<1>1. PICK N \in Nat : N = Cardinality(User)
  BY OrdersLemma
<1>2. from \in 0 .. N /\ to \in 0 .. N
  BY <1>1
<1>3. \A i \in 1 .. to - from : from + i \in 1 .. N
  BY <1>2
<1>4. l = [i \in 1 .. to - from |->
            [rank |-> from + i, entry |-> [user |-> s[from + i], score |-> Mirror(z, s[from + i])]]]
  BY DEF Cut
<1>5. \A i \in 1 .. to - from : l[i].rank = from + i /\ l[i].entry.user = s[from + i]
  BY <1>4
<1>6. ASSUME NEW i \in 1 .. to - from, NEW j \in 1 .. to - from, l[i].entry.user = l[j].entry.user
      PROVE  i = j
  <2>1. s[from + i] = s[from + j]
    BY <1>5, <1>6
  <2>2. from + i = from + j
    BY <1>1, <1>3, <2>1, OrdersLemma
  <2> QED BY <1>2, <2>2
<1>7. l = [i \in 1 .. to - from |-> l[i]]
  BY <1>4
<1> QED BY <1>1, <1>3, <1>5, <1>6, <1>7 DEF CutRow

\* Everybody in an order is at a place of its score.
LEMMA OrderPlace ==
  ASSUME IsFiniteSet(User), scope = "friends", NEW z, z \in Leaderboards, NEW s \in Orders(z),
         NEW k \in 1 .. Cardinality(User)
  PROVE  Place(z, s[k], k) /\ Cardinality(Group(z)) = Cardinality(User)
<1>1. PICK N \in Nat : N = Cardinality(User)
  BY OrdersLemma
<1>2. /\ s \in [1 .. N -> User]
      /\ \A i, j \in 1 .. N : s[i] = s[j] => i = j
      /\ \A i, j \in 1 .. N : i < j => Mirror(z, s[i]) >= Mirror(z, s[j])
      /\ \A u \in User : \E i \in 1 .. N : s[i] = u
  BY <1>1, OrdersLemma
<1>3. \A u \in User : Mirror(z, u) \in Int
  BY BoardLemma DEF Mirror, Board
<1>4. PICK u \in User : u = s[k]
  BY <1>1, <1>2
<1> DEFINE A == {v \in User : Mirror(z, v) > Mirror(z, u)}
           B == {v \in User : ~(Mirror(z, u) > Mirror(z, v))}
           F == {s[i] : i \in 1 .. k - 1}
           G == {s[i] : i \in 1 .. k}
<1>5. AtLeast(z, u) = Cardinality(A) + 1 /\ AtMost(z, u) = Cardinality(B) /\ Group(z) = User
  BY DEF AtLeast, AtMost, Group, Ahead
<1>6. A \in SUBSET F
  <2> SUFFICES ASSUME NEW v \in User, Mirror(z, v) > Mirror(z, u) PROVE v \in F
    OBVIOUS
  <2>1. PICK i \in 1 .. N : s[i] = v
    BY <1>2
  <2>2. ~(k < i) /\ k # i
    BY <1>1, <1>2, <1>3, <1>4, <2>1
  <2>3. i \in 1 .. k - 1
    BY <1>1, <2>2
  <2> QED BY <2>1, <2>3
<1>7. G \in SUBSET B
  <2> SUFFICES ASSUME NEW i \in 1 .. k PROVE s[i] \in B
    OBVIOUS
  <2>1. i \in 1 .. N /\ k \in 1 .. N /\ (i < k \/ i = k)
    BY <1>1
  <2>2. s[i] \in User /\ Mirror(z, s[i]) >= Mirror(z, s[k])
    <3>1. s[i] \in User /\ Mirror(z, s[i]) \in Int
      BY <1>2, <1>3, <2>1
    <3> QED BY <1>2, <2>1, <3>1
  <2> QED BY <1>3, <1>4, <2>2
<1>8. ASSUME NEW m \in 0 .. N
      PROVE  IsFiniteSet({s[i] : i \in 1 .. m}) /\ Cardinality({s[i] : i \in 1 .. m}) = m
  <2> DEFINE U == {s[i] : i \in 1 .. m}
             f == [i \in 1 .. m |-> s[i]]
             I == 1 .. m
  <2>1. I \subseteq 1 .. N
    OBVIOUS
  <2>2. f \in [I -> U] /\ (\A i, j \in I : f[i] = f[j] => i = j) /\ (\A w \in U : \E i \in I : f[i] = w)
    BY <1>2, <2>1
  <2>3. ExistsBijection(I, U)
    <3> HIDE DEF f, U, I
    <3> QED BY <2>2 DEF ExistsBijection, Bijection, Injection, Surjection, IsInjective
  <2>4. IsFiniteSet(I) /\ Cardinality(I) = m
    <3>1. 1 \in Int /\ m \in Int
      OBVIOUS
    <3>2. IsFiniteSet(I) /\ Cardinality(I) = IF 1 > m THEN 0 ELSE m - 1 + 1
      BY <3>1, FS_Interval
    <3> QED BY <3>2
  <2> HIDE DEF f, U, I
  <2>5. IsFiniteSet(U) /\ Cardinality(U) = m
    BY <2>3, <2>4, FS_Bijection
  <2> QED BY <2>5 DEF U
<1>9. IsFiniteSet(F) /\ Cardinality(F) = k - 1 /\ IsFiniteSet(G) /\ Cardinality(G) = k
  <2>1. k - 1 \in 0 .. N /\ k \in 0 .. N
    BY <1>1
  <2> QED BY <1>8, <2>1
<1>10. IsFiniteSet(B)
  <2> B \in SUBSET User /\ IsFiniteSet(User)
    OBVIOUS
  <2> HIDE DEF B
  <2> QED BY FS_Subset
<1> HIDE DEF A, B, F, G
<1>11. Cardinality(A) <= k - 1 /\ Cardinality(A) \in Nat
  BY <1>6, <1>9, FS_Subset, FS_CardinalityType
<1>12. k <= Cardinality(B) /\ Cardinality(B) \in Nat
  BY <1>7, <1>9, <1>10, FS_Subset, FS_CardinalityType
<1> QED BY <1>1, <1>4, <1>5, <1>11, <1>12 DEF Place


-----------------------------------------------------------------------------
(* The properties.                                                         *)

\* What is known of a request that is done.
LEMMA DoneLemma ==
  ASSUME IsFiniteSet(User), ReadsInv, NEW r \in Request, req[r].at = "done"
  PROVE  /\ Shape(r) /\ AsRead(r) /\ seen[r] \subseteq Leaderboards /\ req[r].n \in Int
         /\ req[r].kind \in Kinds /\ (req[r].kind # "top" => req[r].user \in User)
         /\ scope = "friends" => GroupAnswer(r)
         /\ scope # "friends" /\ req[r].kind = "top" => TopAnswer(r)
         /\ scope # "friends" /\ req[r].kind = "rank" => RankAnswer(r)
         /\ scope # "friends" /\ req[r].kind = "around" => AroundAnswer(r)
<1>1. Shape(r) /\ AsRead(r) /\ seen[r] \subseteq Leaderboards
  BY DEF ReadsInv, Asked, Progress, History
<1>2. req[r].n \in Int
  <2>1. req[r].n \in Counts \cup {0}
    BY <1>1 DEF Shape
  <2>2. Counts \subseteq Int
    BY ReadsAssumption, LeaderboardAssumption
  <2>3. PICK n \in Counts \cup {0} : n = req[r].n
    BY <2>1
  <2>4. n \in Counts => n \in Int
    BY <2>2
  <2>5. n = 0 => n \in Int
    OBVIOUS
  <2> QED BY <2>3, <2>4, <2>5
<1>3. req[r].kind \in Kinds /\ (req[r].kind # "top" => req[r].user \in User)
  BY <1>1 DEF Shape
<1> QED BY <1>1, <1>2, <1>3 DEF AsRead

\* The one entry of /rank.
LEMMA RankAnswerLemma ==
  ASSUME IsFiniteSet(User), NEW r, RankAnswer(r), seen[r] \subseteq Leaderboards, ~(req[r].list = <<>> /\ Missing(r))
  PROVE  \E y, z \in seen[r] : \E m \in Int, first \in Int :
           /\ req[r].user \in DOMAIN y /\ req[r].user \in DOMAIN z
           /\ m = 1 /\ first = RevRank(y, req[r].user) + 1 /\ first > 0
           /\ Part(req[r].list, z, RevRank(z, req[r].user), first, m)
           /\ Len(req[r].list) = 1 /\ req[r].list[1].entry.user = req[r].user
<1>1. PICK l : l = req[r].list
  OBVIOUS
<1>2. PICK u : u = req[r].user
  OBVIOUS
<1>3. PICK y \in seen[r], z \in seen[r] :
       /\ u \in DOMAIN y /\ u \in DOMAIN z
       /\ l = <<[rank |-> RevRank(y, u) + 1, entry |-> [user |-> u, score |-> z[u]]]>>
  BY <1>1, <1>2 DEF RankAnswer
<1>4. y \in Leaderboards /\ z \in Leaderboards
  OBVIOUS
<1>5. /\ RevRank(y, u) \in Nat /\ RevRank(z, u) \in 0 .. Cardinality(DOMAIN z) - 1
      /\ Cardinality(DOMAIN z) \in Nat /\ Cardinality(User) \in Nat
      /\ Cardinality(DOMAIN z) <= Cardinality(User)
  BY <1>3, <1>4, BoardLemma, RankLemma
<1>6. PICK first \in Int : first = RevRank(y, u) + 1 /\ first > 0
  BY <1>5
<1>7. l = <<[rank |-> first, entry |-> [user |-> u, score |-> z[u]]]>>
  BY <1>3, <1>6
<1>8. PICK m \in Int : m = 1
  OBVIOUS
<1>9. DOMAIN l = 1 .. m /\ l = [i \in 1 .. m |-> l[i]]
  BY ONLY <1>7, <1>8
<1>10. \A i \in 1 .. m : i = 1
  BY <1>8
<1>11. l[1].rank = first /\ l[1].entry.user = u /\ l[1].entry.score = z[u]
  BY <1>7
<1>12. PICK k \in Int : k = RevRank(z, u) /\ k \in 0 .. Cardinality(User) /\ k >= 0
                        /\ m <= Cardinality(DOMAIN z) - k
  BY <1>5, <1>8
<1>13. \A i \in 1 .. m :
         /\ l[i].rank = first + i - 1 /\ l[i].entry.user \in DOMAIN z
         /\ l[i].entry.score = z[l[i].entry.user] /\ RevRank(z, l[i].entry.user) = k + i - 1
  BY <1>3, <1>10, <1>11, <1>12
<1>14. Part(l, z, k, first, m)
  BY ONLY <1>8, <1>9, <1>10, <1>12, <1>13 DEF Part
<1> QED BY <1>1, <1>2, <1>3, <1>6, <1>8, <1>9, <1>11, <1>12, <1>14

\* The invariant has the types, and the reasons of an error and of a panic.
LEMMA TypesImplied ==
  ASSUME IsFiniteSet(User), ReadsInv
  PROVE  ReadsTypeOK
<1>1. scope \in {"regional", "global", "friends"} /\ zset \in Leaderboards
  BY DEF ReadsInv, History
<1>2. ASSUME NEW r \in Request, req[r].at = "done", NEW i \in DOMAIN req[r].list
      PROVE  req[r].list[i].rank > 0
  <2>1. CASE scope = "friends"
    <3>1. GroupAnswer(r)
      BY <1>2, <2>1, DoneLemma
    <3>2. PICK z \in seen[r] : \E s \in Orders(z), from, to \in 0 .. Cardinality(User) :
            req[r].list = Cut(z, s, from, to)
      BY <3>1 DEF GroupAnswer
    <3>3. PICK s \in Orders(z), from \in 0 .. Cardinality(User), to \in 0 .. Cardinality(User) :
            req[r].list = Cut(z, s, from, to)
      BY <3>2
    <3>4. PICK l : l = req[r].list
      OBVIOUS
    <3>5. CutRow(l, s, from, to - from)
      BY <3>4, <3>3, CutLemma
    <3>6. /\ l = [j \in 1 .. to - from |-> l[j]]
          /\ \A j \in 1 .. to - from : l[j].rank = from + j
      BY <3>4, <3>5 DEF CutRow
    <3>7. i \in 1 .. to - from /\ l[i].rank = from + i
      BY <3>4, <3>6
    <3> QED BY <3>4, <3>7
  <2>2. ASSUME NEW l, l = req[r].list, NEW z, NEW start, NEW first \in Int, first > 0, NEW m,
               Part(l, z, start, first, m)
        PROVE  l[i].rank > 0
    <3>1. /\ m \in Int /\ l = [j \in 1 .. m |-> l[j]]
          /\ \A j \in 1 .. m : l[j].rank = first + j - 1
      BY <2>2 DEF Part
    <3>2. i \in 1 .. m
      BY <2>2, <3>1
    <3> QED BY <2>2, <3>1, <3>2
  <2>3. CASE scope # "friends" /\ req[r].kind = "top"
    <3>1. \E z, m : Part(req[r].list, z, 0, 1, m)
      BY <1>2, <2>3, DoneLemma, TopLemma
    <3> QED BY <2>2, <3>1
  <2>4. CASE scope # "friends" /\ req[r].kind = "rank" /\ req[r].list # <<>>
    <3>1. \E z, k, m : \E first \in Int : first > 0 /\ Part(req[r].list, z, k, first, m)
      BY <1>2, <2>4, DoneLemma, RankAnswerLemma
    <3> QED BY <2>2, <3>1
  <2>5. CASE scope # "friends" /\ req[r].kind = "around" /\ req[r].list # <<>>
    <3>1. \E z, start, m : \E first \in Int : first > 0 /\ Part(req[r].list, z, start, first, m)
      BY <1>2, <2>5, DoneLemma, AroundAnswerLemma
    <3> QED BY <2>2, <3>1
  <2>6. req[r].kind \in {"top", "rank", "around"} /\ req[r].list # <<>>
    BY <1>2, DoneLemma DEF Kinds
  <2> QED BY <2>1, <2>3, <2>4, <2>5, <2>6
<1>3. ASSUME NEW r \in Request
      PROVE  /\ req[r].at \in {"new", "range", "rank", "score", "done", "error", "panic"}
             /\ req[r].user \in User \cup {0} /\ req[r].n \in Counts \cup {0}
             /\ req[r].at = "error" => scope = "global" /\ Cardinality(seen[r]) > 1
             /\ req[r].at = "panic" => scope = "friends" /\ req[r].n < 0
  BY DEF ReadsInv, Asked, Shape
<1> QED BY <1>1, <1>2, <1>3 DEF ReadsTypeOK

\* The rank of a user is below the size of every leaderboard that has grown since.
LEMMA FoundImplied ==
  ASSUME IsFiniteSet(User), ReadsInv
  PROVE  RegionalFound
<1> SUFFICES ASSUME NEW r \in Request, scope = "regional", req[r].n >= 0, req[r].kind \in {"rank", "around"},
                    \A z \in seen[r] : req[r].user \in DOMAIN z
             PROVE  /\ req[r].at # "error"
                    /\ req[r].at = "done" => req[r].list # <<>>
  BY DEF RegionalFound
<1>1. req[r].at # "error"
  BY DEF ReadsInv, Asked, Shape
<1>2. ~Missing(r)
  BY DEF Missing
<1>3. ASSUME req[r].at = "done" PROVE req[r].list # <<>>
  <2>1. PICK l : l = req[r].list
    OBVIOUS
  <2>2. ASSUME NEW z, NEW start, NEW first, NEW m, Part(l, z, start, first, m), m > 0
        PROVE  l # <<>>
    <3>1. m \in Int /\ l = [i \in 1 .. m |-> l[i]]
      BY <2>2 DEF Part
    <3> QED BY <2>2, <3>1, ListLemma
  <2>3. CASE req[r].kind = "rank"
    <3>1. \E z, k, first : Part(l, z, k, first, 1)
      BY <1>2, <1>3, <2>1, <2>3, DoneLemma, RankAnswerLemma
    <3> QED BY <2>1, <2>2, <3>1
  <2>4. CASE req[r].kind = "around"
    <3>1. PICK u : u = req[r].user
      OBVIOUS
    <3>2. PICK n \in Int : n = req[r].n /\ n >= 0
      BY <1>3, DoneLemma
    <3>3. PICK y \in seen[r], z \in seen[r], m \in Int, start \in Int, first \in Int :
            /\ u \in DOMAIN y /\ DOMAIN y \subseteq DOMAIN z
            /\ start = (IF RevRank(y, u) > n THEN RevRank(y, u) - n ELSE 0)
            /\ m = LastRank(z, RevRank(y, u) + n) - start + 1
            /\ Part(l, z, start, first, m)
      <4>1. AroundAnswer(r) /\ seen[r] \subseteq Leaderboards /\ req[r].n \in Int
        BY <1>3, <2>4, DoneLemma
      <4>2. PICK x \in seen[r], y \in seen[r], z \in seen[r] : \E m, start, first \in Int :
              /\ req[r].user \in DOMAIN y /\ (scope = "regional" => DOMAIN y \subseteq DOMAIN z)
              /\ start = (IF RevRank(y, req[r].user) > req[r].n THEN RevRank(y, req[r].user) - req[r].n ELSE 0)
              /\ m = LastRank(z, RevRank(y, req[r].user) + req[r].n) - start + 1
              /\ Part(req[r].list, z, start, first, m)
        BY <1>2, <4>1, AroundAnswerLemma
      <4> QED BY <2>1, <3>1, <3>2, <4>2
    <3>4. y \in Leaderboards /\ z \in Leaderboards
      BY DEF ReadsInv, History
    <3>5. Board(y) /\ Board(z)
      BY <3>4, BoardLemma
    <3>6. /\ Cardinality(DOMAIN y) \in Nat /\ Cardinality(DOMAIN z) \in Nat
          /\ RevRank(y, u) \in 0 .. Cardinality(DOMAIN y) - 1
      BY <3>3, <3>5, RankLemma
    <3>7. Cardinality(DOMAIN y) <= Cardinality(DOMAIN z)
      BY <3>3, <3>5, FS_Subset DEF Board
    <3>8. m > 0
      <4>1. PICK rank \in Nat, size \in Nat :
              rank = RevRank(y, u) /\ size = Cardinality(DOMAIN z) /\ rank < size
        BY <3>6, <3>7
      <4>2. m = (IF rank + n < 0 THEN size + (rank + n) ELSE IF rank + n < size THEN rank + n ELSE size - 1)
                - (IF rank > n THEN rank - n ELSE 0) + 1
        BY <3>3, <4>1 DEF LastRank
      <4> QED BY <3>2, <4>1, <4>2
    <3> QED BY <2>1, <2>2, <3>3, <3>8
  <2> QED BY <2>3, <2>4
<1> QED BY <1>1, <1>3

\* A part of a leaderboard is its entries at the places that were asked for.
LEMMA ShowsLemma ==
  ASSUME NEW l, NEW z, Cardinality(DOMAIN z) \in Nat, NEW start \in Int, NEW first, NEW last \in Int, NEW k,
         NEW m, Part(l, z, start, first, m), m = Least(last, Cardinality(DOMAIN z)) - start, k = start + 1
  PROVE  Shows(l, z, k, last)
<1> DEFINE to == Least(last, Cardinality(DOMAIN z))
<1>1. to \in Int
  BY DEF Least
<1>2. m \in Int /\ l = [i \in 1 .. m |-> l[i]]
  BY DEF Part
<1>3. Len(l) = (IF m < 0 THEN 0 ELSE m) /\ DOMAIN l = 1 .. m
  BY <1>2, ListLemma
<1>4. m = to - start
  OBVIOUS
<1> HIDE DEF to
<1>5. k \in Int
  OBVIOUS
<1>6. Cardinality(k .. to) = IF k > to THEN 0 ELSE to - k + 1
  BY <1>1, <1>5, FS_Interval
<1>7. Len(l) = Cardinality(k .. to)
  BY <1>1, <1>3, <1>4, <1>6
<1>8. \A i \in 1 .. m :
        LET e == l[i].entry
        IN  e.user \in DOMAIN z /\ z[e.user] = e.score /\ RevRank(z, e.user) + 1 = k + i - 1
  BY <1>2 DEF Part
<1> QED BY <1>3, <1>7, <1>8 DEF Shows, to

\* The answer of /top, once more of one leaderboard; it is empty if that was.
LEMMA TopMoment ==
  ASSUME IsFiniteSet(User), ReadsInv, NEW r \in Request, req[r].at = "done", scope # "friends", req[r].kind = "top"
  PROVE  /\ \E z \in seen[r] : Shows(req[r].list, z, 1, IF req[r].n > 0 THEN req[r].n ELSE 10)
         /\ req[r].list = <<>> => NoMembers \in seen[r]
<1>1. PICK n \in Int : n = req[r].n
  BY DoneLemma
<1>2. PICK last \in Int : last = (IF n > 0 THEN n ELSE 10) /\ last > 0
  OBVIOUS
<1>3. PICK l : l = req[r].list
  OBVIOUS
<1>4. TopAnswer(r) /\ seen[r] \subseteq Leaderboards
  BY DoneLemma
<1>5. PICK z \in seen[r], m \in Int : m = Least(last, Cardinality(DOMAIN z)) /\ Part(l, z, 0, 1, m)
  BY <1>1, <1>2, <1>3, <1>4, TopLemma
<1>6. z \in Leaderboards
  BY <1>4
<1>7. Board(z) /\ z \in [DOMAIN z -> Scores]
  BY <1>6, BoardLemma
<1>8. Cardinality(DOMAIN z) \in Nat
  BY <1>7, RankLemma
<1>9. Shows(l, z, 1, last)
  <2>1. 0 \in Int /\ 1 = 0 + 1 /\ m = Least(last, Cardinality(DOMAIN z)) - 0
    BY <1>5
  <2> QED BY <1>5, <1>8, <2>1, ShowsLemma
<1>10. ASSUME l = <<>> PROVE z = NoMembers
  <2>1. m <= 0
    BY <1>5, <1>10, ListLemma DEF Part
  <2>2. Cardinality(DOMAIN z) = 0
    BY <1>2, <1>5, <1>8, <2>1 DEF Least
  <2>3. DOMAIN z = {}
    BY <1>7, <2>2, FS_EmptySet DEF Board
  <2> QED BY <1>7, <2>3 DEF NoMembers
<1> QED BY <1>1, <1>2, <1>3, <1>5, <1>9, <1>10

\* The answer of /rank: a place and a score the user had.
LEMMA RankMoment ==
  ASSUME IsFiniteSet(User), ReadsInv, NEW r \in Request, req[r].at = "done", scope # "friends", req[r].kind = "rank"
  PROVE  LET q == req[r]
             with == {z \in seen[r] : q.user \in DOMAIN z}
         IN
         /\ q.list # <<>> =>
              /\ Len(q.list) = 1 /\ q.list[1].entry.user = q.user
              /\ \E z \in with : q.list[1].rank = RevRank(z, q.user) + 1
              /\ \E z \in with : q.list[1].entry.score = z[q.user]
         /\ q.list = <<>> => with # seen[r]
<1>1. PICK l : l = req[r].list
  OBVIOUS
<1>2. PICK u : u = req[r].user
  OBVIOUS
<1>3. RankAnswer(r) /\ seen[r] \subseteq Leaderboards
  BY DoneLemma
<1>4. CASE l = <<>> /\ Missing(r)
  BY <1>1, <1>2, <1>4 DEF Missing
<1>5. CASE ~(l = <<>> /\ Missing(r))
  <2>1. PICK y \in seen[r], z \in seen[r], first \in Int :
          /\ u \in DOMAIN y /\ u \in DOMAIN z /\ first = RevRank(y, u) + 1
          /\ Part(l, z, RevRank(z, u), first, 1) /\ Len(l) = 1 /\ l[1].entry.user = u
    BY <1>1, <1>2, <1>3, <1>5, RankAnswerLemma
  <2>2. 1 \in 1 .. 1 /\ \A i \in 1 .. 1 : l[i].rank = first + i - 1 /\ l[i].entry.score = z[l[i].entry.user]
    BY <2>1 DEF Part
  <2>3. l[1].rank = first /\ l[1].entry.score = z[u]
    BY <2>1, <2>2
  <2>4. l # <<>>
    BY <2>1
  <2> QED BY <1>1, <1>2, <2>1, <2>3, <2>4
<1> QED BY <1>4, <1>5

\* The answer of /around: the places around one the user had; never empty while the user is there.
LEMMA AroundMoment ==
  ASSUME IsFiniteSet(User), ReadsInv, NEW r \in Request, req[r].at = "done", scope # "friends",
         req[r].kind = "around", req[r].n >= 0
  PROVE  LET q == req[r]
             with == {z \in seen[r] : q.user \in DOMAIN z}
         IN
         /\ q.list # <<>> =>
              /\ \E y \in with, z \in seen[r] :
                   LET place == RevRank(y, q.user) + 1
                   IN  Shows(q.list, z, FirstPlace(place, q.n), place + q.n)
              /\ \E z \in with : q.list[1].rank = FirstPlace(RevRank(z, q.user) + 1, q.n)
         /\ q.list = <<>> => with # seen[r]
<1>1. PICK l : l = req[r].list
  OBVIOUS
<1>2. PICK u : u = req[r].user
  OBVIOUS
<1>3. PICK n \in Int : n = req[r].n /\ n >= 0
  BY DoneLemma
<1>4. AroundAnswer(r) /\ seen[r] \subseteq Leaderboards
  BY DoneLemma
<1>5. CASE l = <<>> /\ Missing(r)
  BY <1>1, <1>2, <1>5 DEF Missing
<1>6. CASE ~(l = <<>> /\ Missing(r))
  <2>1. PICK x \in seen[r], y \in seen[r], z \in seen[r], m \in Int, start \in Int, first \in Int :
          /\ u \in DOMAIN x /\ u \in DOMAIN y /\ (scope = "regional" => DOMAIN y \subseteq DOMAIN z)
          /\ start = (IF RevRank(y, u) > n THEN RevRank(y, u) - n ELSE 0)
          /\ first = FirstRank(RevRank(x, u) + 1, n)
          /\ m = LastRank(z, RevRank(y, u) + n) - start + 1
          /\ Part(l, z, start, first, m)
    BY <1>1, <1>2, <1>3, <1>4, <1>6, AroundAnswerLemma
  <2>2. Board(x) /\ Board(y) /\ Board(z)
    BY <1>4, BoardLemma
  <2>3. PICK rank \in Nat : rank = RevRank(y, u)
    BY <2>1, <2>2, RankLemma
  <2>4. PICK there \in Nat : there = RevRank(x, u)
    BY <2>1, <2>2, RankLemma
  <2>5. PICK size \in Nat : size = Cardinality(DOMAIN z)
    BY <2>2, RankLemma
  <2>6. PICK k : k = IF rank + 1 > n THEN rank + 1 - n ELSE 1
    OBVIOUS
  <2>7. PICK last : last = rank + 1 + n
    OBVIOUS
  <2>8. /\ k = start + 1 /\ last \in Int /\ m = Least(last, size) - start
        /\ rank < size => m > 0
    <3>1. /\ start = IF rank > n THEN rank - n ELSE 0
          /\ m = (IF rank + n < size THEN rank + n ELSE size - 1) - start + 1
      BY <1>3, <2>1, <2>3, <2>5 DEF LastRank
    <3>2. k = start + 1 /\ last \in Int
      BY ONLY <1>3, <2>6, <2>7, <3>1, rank \in Nat, n \in Int
    <3>3. m = Least(last, size) - start /\ (rank < size => m > 0)
      BY ONLY <1>3, <2>7, <3>1, rank \in Nat, n \in Int, size \in Nat DEF Least
    <3> QED BY <2>5, <3>2, <3>3
  <2>9. Shows(l, z, k, last)
    BY <2>1, <2>5, <2>8, ShowsLemma
  <2>10. first = IF there + 1 > n THEN there + 1 - n ELSE 1
    BY <1>3, <2>1, <2>4 DEF FirstRank
  <2>11. ASSUME l # <<>> PROVE l[1].rank = first
    <3>1. l = [i \in 1 .. m |-> l[i]] /\ \A i \in 1 .. m : l[i].rank = first + i - 1
      BY <2>1 DEF Part
    <3>2. 1 \in 1 .. m
      BY <2>11, <3>1, ListLemma
    <3>3. l[1].rank = first + 1 - 1
      BY <3>1, <3>2
    <3> QED BY <3>3
  <2>12. ASSUME l = <<>> PROVE Missing(r)
    <3>1. m <= 0
      BY <2>1, <2>12, ListLemma DEF Part
    <3>2. CASE y = z
      <4>1. rank < size
        BY <2>1, <2>2, <2>3, <2>5, <3>2, RankLemma
      <4> QED BY <2>8, <3>1, <4>1
    <3>3. CASE scope = "global" /\ y # z
      <4>1. NoMembers \in seen[r]
        BY <2>1, <3>3 DEF ReadsInv, History, EmptyBetween
      <4>2. u \notin DOMAIN NoMembers
        BY DEF NoMembers
      <4> QED BY <1>2, <4>1, <4>2 DEF Missing
    <3>4. CASE scope = "regional"
      <4>1. Cardinality(DOMAIN y) \in Nat /\ rank \in 0 .. Cardinality(DOMAIN y) - 1
        BY <2>1, <2>2, <2>3, RankLemma
      <4>2. Cardinality(DOMAIN y) <= size
        BY <2>1, <2>2, <2>5, <3>4, FS_Subset DEF Board
      <4>3. rank < size
        BY <4>1, <4>2
      <4> QED BY <2>8, <3>1, <4>3
    <3>5. scope \in {"regional", "global"}
      BY DEF ReadsInv, History
    <3> QED BY <3>2, <3>3, <3>4, <3>5
  <2>13. PICK with : with = {b \in seen[r] : req[r].user \in DOMAIN b}
    OBVIOUS
  <2>14. x \in with /\ y \in with
    BY <1>2, <2>1, <2>13
  <2>15. Shows(l, z, FirstPlace(RevRank(y, u) + 1, n), RevRank(y, u) + 1 + n)
    BY <2>3, <2>6, <2>7, <2>9 DEF FirstPlace
  <2>16. l # <<>> => l[1].rank = FirstPlace(RevRank(x, u) + 1, n)
    BY <2>4, <2>10, <2>11 DEF FirstPlace
  <2>17. l = <<>> => with # seen[r]
    BY <1>2, <2>12, <2>13 DEF Missing
  <2> QED BY <1>1, <1>2, <1>3, <2>13, <2>14, <2>15, <2>16, <2>17
<1> QED BY <1>5, <1>6

\* An answer is put together from moments of the request, and empty only for a reason.
LEMMA MomentImplied ==
  ASSUME IsFiniteSet(User), ReadsInv
  PROVE  ListsOfOneMoment
<1> SUFFICES ASSUME NEW r \in Done, scope # "friends"
             PROVE  LET q == req[r]
                        with == {z \in seen[r] : q.user \in DOMAIN z}
                    IN
                    /\ q.kind = "top" => \E z \in seen[r] : Shows(q.list, z, 1, IF q.n > 0 THEN q.n ELSE 10)
                    /\ q.kind = "rank" /\ q.list # <<>> =>
                         /\ Len(q.list) = 1 /\ q.list[1].entry.user = q.user
                         /\ \E z \in with : q.list[1].rank = RevRank(z, q.user) + 1
                         /\ \E z \in with : q.list[1].entry.score = z[q.user]
                    /\ q.kind = "around" /\ q.n >= 0 /\ q.list # <<>> =>
                         /\ \E y \in with, z \in seen[r] :
                              LET place == RevRank(y, q.user) + 1
                              IN  Shows(q.list, z, FirstPlace(place, q.n), place + q.n)
                         /\ \E z \in with : q.list[1].rank = FirstPlace(RevRank(z, q.user) + 1, q.n)
                    /\ q.kind # "top" /\ q.n >= 0 /\ q.list = <<>> => with # seen[r]
                    /\ q.kind = "top" /\ q.list = <<>> => NoMembers \in seen[r]
  BY DEF ListsOfOneMoment
<1>1. r \in Request /\ req[r].at = "done"
  BY DEF Done
<1>2. req[r].kind \in {"top", "rank", "around"}
  BY <1>1, DoneLemma DEF Kinds
<1>3. CASE req[r].kind = "top"
  BY <1>1, <1>3, TopMoment
<1>4. CASE req[r].kind = "rank"
  BY <1>1, <1>4, RankMoment
<1>5. CASE req[r].kind = "around"
  BY <1>1, <1>5, AroundMoment
<1> QED BY <1>2, <1>3, <1>4, <1>5

\* QuietExact, of one request: what its answer has to be.
Exact(r, z) ==
  LET q == req[r]
      ranks == {q.list[i].rank : i \in DOMAIN q.list}
  IN  /\ Len(q.list) = Cardinality(ranks)
      /\ Cardinality({q.list[i].entry.user : i \in DOMAIN q.list}) = Len(q.list)
      /\ \A i \in DOMAIN q.list : Place(z, q.list[i].entry.user, q.list[i].rank)
      /\ IF q.kind # "top" /\ q.user \notin Group(z)
         THEN q.list = <<>>
         ELSE q.n >= 0 \/ q.kind = "top" => \E k \in 1 .. Cardinality(Group(z)) \cup {0} :
                /\ q.kind # "top" => Place(z, q.user, k)
                /\ ranks = Wanted(z, q, k)

\* A list with numbers in a row, nobody twice and everybody at a place.
Placed(l, z, a, m) ==
  /\ m \in Int /\ l = [i \in 1 .. m |-> l[i]]
  /\ \A i \in 1 .. m : l[i].rank = a + i /\ Place(z, l[i].entry.user, l[i].rank)
  /\ \A i, j \in 1 .. m : l[i].entry.user = l[j].entry.user => i = j

\* A list of that kind, with the places wanted, is exact.
LEMMA ExactLemma ==
  ASSUME NEW r, NEW z, NEW m, NEW a \in Int, Placed(req[r].list, z, a, m),
         NEW k \in 1 .. Cardinality(Group(z)) \cup {0},
         req[r].kind # "top" => req[r].user \in Group(z) /\ Place(z, req[r].user, k),
         req[r].n >= 0 \/ req[r].kind = "top" => Wanted(z, req[r], k) = a + 1 .. a + m
  PROVE  Exact(r, z)
<1>1. PICK l : l = req[r].list
  OBVIOUS
<1>2. /\ m \in Int /\ l = [i \in 1 .. m |-> l[i]]
      /\ \A i \in 1 .. m : l[i].rank = a + i /\ Place(z, l[i].entry.user, l[i].rank)
      /\ \A i, j \in 1 .. m : l[i].entry.user = l[j].entry.user => i = j
  BY <1>1 DEF Placed
<1>3. /\ {l[i].rank : i \in DOMAIN l} = a + 1 .. a + m
      /\ Len(l) = Cardinality({l[i].rank : i \in DOMAIN l})
      /\ Cardinality({l[i].entry.user : i \in DOMAIN l}) = Len(l)
  <2>1. \A i \in 1 .. m : l[i].rank = a + i
    BY <1>2
  <2>2. \A i, j \in 1 .. m : l[i].entry.user = l[j].entry.user => i = j
    BY <1>2
  <2> QED BY ONLY a \in Int, <1>2, <2>1, <2>2, CountLemma
<1>4. DOMAIN l = 1 .. m
  BY <1>2
<1>5. \A i \in DOMAIN l : Place(z, l[i].entry.user, l[i].rank)
  BY <1>2, <1>4
<1> QED BY <1>1, <1>3, <1>5 DEF Exact

\* An answer with nothing in it, to a user who is not there.
LEMMA NobodyLemma ==
  ASSUME NEW r, NEW z, req[r].list = <<>>, req[r].kind # "top", req[r].user \notin Group(z)
  PROVE  Exact(r, z)
<1>1. PICK l : l = req[r].list
  OBVIOUS
<1>2. l = <<>> /\ DOMAIN l = {} /\ Len(l) = 0
  BY <1>1
<1>3. {l[i].rank : i \in DOMAIN l} = {} /\ {l[i].entry.user : i \in DOMAIN l} = {}
  BY <1>2
<1>4. Cardinality({}) = 0
  BY FS_EmptySet
<1> QED BY <1>1, <1>2, <1>3, <1>4 DEF Exact

\* A part of a leaderboard from the rank it was read from has everybody at its place.
LEMMA PartPlace ==
  ASSUME IsFiniteSet(User), NEW z \in Leaderboards, scope # "friends", NEW l, NEW start \in Nat, NEW m,
         Part(l, z, start, start + 1, m)
  PROVE  Placed(l, z, start, m)
<1>1. /\ m \in Int /\ l = [i \in 1 .. m |-> l[i]]
      /\ \A i \in 1 .. m : /\ l[i].rank = start + 1 + i - 1 /\ l[i].entry.user \in DOMAIN z
                           /\ RevRank(z, l[i].entry.user) = start + i - 1
      /\ \A i, j \in 1 .. m : l[i].entry.user = l[j].entry.user => i = j
  BY DEF Part
<1>2. ASSUME NEW i \in 1 .. m
      PROVE  l[i].rank = start + i /\ Place(z, l[i].entry.user, l[i].rank)
  <2>1. PICK u \in DOMAIN z : u = l[i].entry.user
    BY <1>1
  <2>2. l[i].rank = start + i /\ l[i].rank = RevRank(z, u) + 1
    BY <1>1, <2>1
  <2>3. Place(z, u, RevRank(z, u) + 1)
    BY BoardLemma, PlaceLemma
  <2> QED BY <2>1, <2>2, <2>3
<1> QED BY <1>1, <1>2 DEF Placed

\* With one leaderboard read, the rank and the list are of the same.
LEMMA QuietImplied ==
  ASSUME IsFiniteSet(User), ReadsInv
  PROVE  QuietExact
<1> SUFFICES ASSUME NEW r \in Request, req[r].at = "done", NEW z \in seen[r], seen[r] = {z}
             PROVE  Exact(r, z)
  BY DEF QuietExact, Done, Exact
<1>1. PICK l : l = req[r].list
  OBVIOUS
<1>2. PICK u : u = req[r].user
  OBVIOUS
<1>3. PICK n \in Int : n = req[r].n
  BY DoneLemma
<1>4. /\ req[r].kind \in {"top", "rank", "around"} /\ seen[r] \subseteq Leaderboards
      /\ (req[r].kind # "top" => u \in User)
  BY <1>2, DoneLemma DEF Kinds
<1>5. z \in Leaderboards /\ Board(z)
  BY <1>4, BoardLemma
<1>6. \A x \in seen[r] : x = z
  OBVIOUS
<1>7. PICK size \in Nat : size = Cardinality(DOMAIN z)
  BY <1>5, RankLemma
<1>8. scope # "friends" => Group(z) = DOMAIN z
  BY DEF Group
<1>9. CASE scope # "friends" /\ req[r].kind = "top"
  <2>1. PICK m \in Int : m = Least(IF n > 0 THEN n ELSE 10, size) /\ Part(l, z, 0, 1, m)
    BY <1>1, <1>3, <1>4, <1>6, <1>7, <1>9, DoneLemma, TopLemma
  <2>2. Part(l, z, 0, 0 + 1, m)
    BY <2>1
  <2>3. 0 \in Nat /\ 0 \in Int /\ 0 + 1 .. 0 + m = 1 .. m
    OBVIOUS
  <2>4. Placed(l, z, 0, m)
    BY <1>5, <1>9, <2>2, <2>3, PartPlace
  <2>5. Wanted(z, req[r], 0) = 0 + 1 .. 0 + m
    BY <1>3, <1>7, <1>8, <1>9, <2>1, <2>3 DEF Wanted, Least
  <2>6. 0 \in 1 .. Cardinality(Group(z)) \cup {0}
    OBVIOUS
  <2>7. Placed(req[r].list, z, 0, m)
    BY <1>1, <2>4
  <2> QED BY <1>9, <2>3, <2>5, <2>6, <2>7, ExactLemma
<1>10. CASE scope # "friends" /\ req[r].kind # "top" /\ req[r].list = <<>> /\ Missing(r)
  <2>1. req[r].user \notin Group(z)
    BY <1>6, <1>8, <1>10 DEF Missing
  <2> QED BY <1>10, <2>1, NobodyLemma
<1>11. CASE scope # "friends" /\ req[r].kind = "rank" /\ ~(req[r].list = <<>> /\ Missing(r))
  <2>1. PICK first \in Int : u \in DOMAIN z /\ first = RevRank(z, u) + 1 /\ Part(l, z, RevRank(z, u), first, 1)
    BY <1>1, <1>2, <1>4, <1>6, <1>11, DoneLemma, RankAnswerLemma
  <2>2. PICK k \in Nat : k = RevRank(z, u)
    BY <1>5, <2>1, RankLemma
  <2>3. Part(l, z, k, k + 1, 1)
    BY <2>1, <2>2
  <2>4. Placed(l, z, k, 1)
    BY <1>5, <1>11, <2>3, PartPlace
  <2>5. Place(z, u, k + 1) /\ k + 1 \in 1 .. Cardinality(Group(z))
    BY <1>5, <1>11, <2>1, <2>2, PlaceLemma
  <2>6. Wanted(z, req[r], k + 1) = k + 1 .. k + 1
    <3>1. Wanted(z, req[r], k + 1) = {k + 1}
      BY <1>11 DEF Wanted
    <3> QED BY <3>1
  <2>7. 1 \in Int /\ k \in Int /\ u \in Group(z)
    BY <1>8, <1>11, <2>1
  <2>8. Placed(req[r].list, z, k, 1) /\ k + 1 \in 1 .. Cardinality(Group(z)) \cup {0}
    BY <1>1, <2>4, <2>5
  <2> QED BY <1>2, <2>5, <2>6, <2>7, <2>8, ExactLemma
<1>12. CASE scope # "friends" /\ req[r].kind = "around" /\ ~(req[r].list = <<>> /\ Missing(r))
  <2>1. PICK m \in Int, start \in Int, first \in Int :
          /\ u \in DOMAIN z
          /\ start = (IF RevRank(z, u) > n THEN RevRank(z, u) - n ELSE 0)
          /\ first = FirstRank(RevRank(z, u) + 1, n)
          /\ m = LastRank(z, RevRank(z, u) + n) - start + 1
          /\ Part(l, z, start, first, m)
    BY <1>1, <1>2, <1>3, <1>4, <1>6, <1>12, DoneLemma, AroundAnswerLemma
  <2>2. PICK k \in Nat : k = RevRank(z, u) /\ k < size
    BY <1>5, <1>7, <2>1, RankLemma
  <2>3. start \in Nat /\ first = start + 1
    BY <2>1, <2>2, AroundLemma
  <2>4. Placed(l, z, start, m)
    BY <1>5, <1>12, <2>1, <2>3, PartPlace
  <2>5. Place(z, u, k + 1) /\ k + 1 \in 1 .. Cardinality(Group(z))
    BY <1>5, <1>12, <2>1, <2>2, PlaceLemma
  <2>6. ASSUME n >= 0 PROVE Wanted(z, req[r], k + 1) = start + 1 .. start + m
    <3>1. Wanted(z, req[r], k + 1) = {i \in 1 .. size : k + 1 - n <= i /\ i <= k + 1 + n}
      BY <1>3, <1>7, <1>8, <1>12 DEF Wanted
    <3>2. start = IF k > n THEN k - n ELSE 0
      BY <2>1, <2>2
    <3>3. start + m = IF k + n < size THEN k + n + 1 ELSE size
      BY <1>7, <2>1, <2>2, <2>6 DEF LastRank
    <3>4. {i \in 1 .. size : k + 1 - n <= i /\ i <= k + 1 + n} = start + 1 .. start + m
      BY <2>2, <2>6, <3>2, <3>3
    <3> QED BY <3>1, <3>4
  <2>7. u \in Group(z)
    BY <1>8, <1>12, <2>1
  <2>8. Placed(req[r].list, z, start, m) /\ k + 1 \in 1 .. Cardinality(Group(z)) \cup {0}
    BY <1>1, <2>4, <2>5
  <2>9. req[r].n >= 0 \/ req[r].kind = "top" => Wanted(z, req[r], k + 1) = start + 1 .. start + m
    BY <1>3, <1>12, <2>6
  <2> QED BY <1>2, <2>5, <2>7, <2>8, <2>9, ExactLemma
<1>13. CASE scope = "friends"
  <2>1. PICK s \in Orders(z) : \E c \in 1 .. Cardinality(User), from, to \in 0 .. Cardinality(User) :
          /\ s[c] = u /\ from <= to /\ l = Cut(z, s, from, to)
          /\ req[r].kind = "top" => from = 0 /\ to = Least(n, Cardinality(User))
          /\ req[r].kind = "rank" => from = c - 1 /\ to = c
          /\ req[r].kind = "around" => from = FirstRank(c, n) - 1 /\ to = Least(c + n, Cardinality(User))
    BY <1>1, <1>2, <1>3, <1>6, <1>13, DoneLemma DEF GroupAnswer
  <2>2. PICK N \in Nat : N = Cardinality(User)
    BY OrdersLemma
  <2>3. PICK c \in 1 .. N, from \in 0 .. N, to \in 0 .. N :
          /\ s[c] = u /\ from <= to /\ l = Cut(z, s, from, to)
          /\ req[r].kind = "top" => from = 0 /\ to = Least(n, N)
          /\ req[r].kind = "rank" => from = c - 1 /\ to = c
          /\ req[r].kind = "around" => from = FirstRank(c, n) - 1 /\ to = Least(c + n, N)
    BY <2>1, <2>2
  <2>4. PICK m \in Int : m = to - from
    OBVIOUS
  <2>5. CutRow(l, s, from, to - from)
    <3>1. from \in 0 .. Cardinality(User) /\ to \in 0 .. Cardinality(User)
      BY <2>2
    <3>2. l = Cut(z, s, from, to)
      BY <2>3
    <3> QED BY <3>1, <3>2, CutLemma
  <2>6. \A k \in 1 .. N : Place(z, s[k], k)
    BY <1>5, <1>13, <2>2, OrderPlace
  <2>7. Placed(l, z, from, m)
    BY <2>2, <2>4, <2>5, <2>6 DEF Placed, CutRow
  <2>8. Group(z) = User
    BY <1>13 DEF Group
  <2>9. Place(z, u, c) /\ {c, 0} \subseteq 1 .. Cardinality(Group(z)) \cup {0}
    BY <2>2, <2>3, <2>6, <2>8
  <2>10. from + 1 .. from + m = from + 1 .. to
    BY <2>3, <2>4
  <2>11. ASSUME n >= 0 \/ req[r].kind = "top" PROVE Wanted(z, req[r], c) = from + 1 .. to
    <3>1. CASE req[r].kind = "top"
      <4>1. Wanted(z, req[r], c) = 1 .. Least(n, N)
        BY <1>3, <1>13, <2>2, <2>8, <3>1 DEF Wanted
      <4> QED BY <2>3, <3>1, <4>1
    <3>2. CASE req[r].kind = "rank"
      <4>1. Wanted(z, req[r], c) = {c}
        BY <3>2 DEF Wanted
      <4>2. from + 1 = c /\ to = c
        BY <2>3, <3>2
      <4> QED BY <2>3, <4>1, <4>2
    <3>3. CASE req[r].kind = "around"
      <4>1. Wanted(z, req[r], c) = {i \in 1 .. N : c - n <= i /\ i <= c + n}
        BY <1>3, <2>2, <2>8, <3>3 DEF Wanted
      <4>2. n >= 0
        BY <2>11, <3>3
      <4>3. from + 1 = (IF c - n < 1 THEN 1 ELSE c - n) /\ to = IF c + n < N THEN c + n ELSE N
        BY <2>3, <3>3 DEF FirstRank, Least
      <4>4. {i \in 1 .. N : c - n <= i /\ i <= c + n} = from + 1 .. to
        BY <2>3, <4>2, <4>3
      <4> QED BY <4>1, <4>4
    <3> QED BY <1>4, <3>1, <3>2, <3>3
  <2>12. from \in Int /\ (req[r].kind # "top" => u \in Group(z))
    BY <1>4, <2>3, <2>8
  <2>13. n >= 0 \/ req[r].kind = "top" => Wanted(z, req[r], c) = from + 1 .. from + m
    BY <2>10, <2>11
  <2>14. Placed(req[r].list, z, from, m)
    BY <1>1, <2>7
  <2> QED BY <1>2, <1>3, <2>9, <2>12, <2>13, <2>14, ExactLemma
<1> QED BY <1>4, <1>9, <1>10, <1>11, <1>12, <1>13

(* Types; no answer has a rank below the first; only a replacement of the  *)
(* global leaderboard turns a request of /rank or /around into an error,   *)
(* and only a negative n or count of a friends group into a panic.         *)
THEOREM ReadsTypeCorrect ==
  ASSUME IsFiniteSet(User)
  PROVE  ReadsSpec => []ReadsTypeOK
<1>1. ReadsInv => ReadsTypeOK
  BY TypesImplied
<1> QED BY <1>1, ReadsInvariant, PTL

(* What top, rank and around answer of a leaderboard that stays as it is   *)
(* is right to the place, for the ranks of the handler and the cuts of     *)
(* Around and of a friends group alike.                                    *)
THEOREM QuietIsExact ==
  ASSUME IsFiniteSet(User)
  PROVE  ReadsSpec => []QuietExact
<1>1. ReadsInv => QuietExact
  BY QuietImplied
<1> QED BY <1>1, ReadsInvariant, PTL

(* A user who is on a regional leaderboard is found by /rank, and has a    *)
(* list from /around, whatever increments come between the commands.       *)
THEOREM RegionalIsFound ==
  ASSUME IsFiniteSet(User)
  PROVE  ReadsSpec => []RegionalFound
<1>1. ReadsInv => RegionalFound
  BY FoundImplied
<1> QED BY <1>1, ReadsInvariant, PTL

(* Under writers, too, the list of /top is the top of one leaderboard and  *)
(* that of /around the places around one the user had; the place and the   *)
(* score of /rank were the user's, each at a moment of the request.  An    *)
(* answer is empty only if the user was off the leaderboard meanwhile, and *)
(* that of /top only if it was read between DEL and ZADD or nobody plays.  *)
THEOREM ListsAreOfOneMoment ==
  ASSUME IsFiniteSet(User)
  PROVE  ReadsSpec => []ListsOfOneMoment
<1>1. ReadsInv => ListsOfOneMoment
  BY MomentImplied
<1> QED BY <1>1, ReadsInvariant, PTL
=============================================================================
