--------------------------- MODULE NotifierProofs ---------------------------
(***************************************************************************)
(* The notifier for every set of users and scores, every limit of the      *)
(* queue, however many updates there are and whatever fails.               *)
(***************************************************************************)
EXTENDS Notifier, RabbitProofs, FiniteSetTheorems

Scores == UNION {[S -> Int] : S \in SUBSET User}

\* The user of the event in the loop's hands, once its rank is being read.
Current == bodies[Head(queue.unacked)]
Busy == loop.at \in {"ranked", "publish", "published"}

\* TypeOK and the types of what it leaves out.
Types ==
  /\ TypeOK
  /\ zset \in Scores
  /\ updates \in 0 .. MaxUpdates /\ \A u \in User : owed[u] <= updates
  /\ entered \in [User -> Nat] /\ announced \in [User -> Nat] /\ repeats \in Nat
  /\ loop \in [at : {"down", "receiving", "ranked", "publish", "published"}, rank : Nat,
               previous : Nat]

\* Every event is about a user with a score.
Scored ==
  /\ \A u \in User : owed[u] > 0 => u \in DOMAIN zset
  /\ \A m \in DOMAIN bodies : bodies[m] # Garbage => bodies[m] \in DOMAIN zset

\* The loop holds the event it works on, has nothing in memory when it starts, and has
\* remembered the rank it is about to publish.
Placed ==
  /\ Busy => queue.unacked # <<>> /\ Current # Garbage
  /\ loop.at = "down" => memory = NoMemory
  /\ loop.at = "publish" => memory[Current] = loop.rank

\* The memory has u in the top.
InMemory(u) == memory[u] # 0 /\ InTop(memory[u])

\* The loop may announce u without u coming into the top once more.
MayBeTold(u) ==
  \/ u \in Top(zset) /\ ~InMemory(u)
  \/ /\ loop.at = "ranked" /\ Current = u
     /\ IF InTop(loop.rank) THEN ~InMemory(u) ELSE u \in Top(zset)
  \/ loop.at = "publish" /\ Current = u /\ IsEntry

Counted ==
  \A u \in User :
    /\ announced[u] <= entered[u] + repeats
    /\ MayBeTold(u) => announced[u] + 1 <= entered[u] + repeats

IInv == Types /\ Scored /\ Placed /\ Counted

\* The rank of u is going to be read again.
Pending(u) ==
  \/ owed[u] > 0
  \/ \E m \in Held(queue) : bodies[m] = u /\ ~(Busy /\ m = Head(queue.unacked))

\* The loop is about to announce u.
Announcing(u) ==
  \/ loop.at = "ranked" /\ Current = u /\ InTop(loop.rank) /\ ~InMemory(u)
  \/ loop.at = "publish" /\ Current = u /\ IsEntry

\* Who is in the top has been announced or will be; who is remembered to be in it, too.
Told ==
  \A u \in User \ refused :
    /\ u \in Top(zset) /\ missed[u] # "last" => announced[u] > 0 \/ Pending(u) \/ Announcing(u)
    /\ InMemory(u) => announced[u] > 0 \/ Announcing(u)

-----------------------------------------------------------------------------
(* Ranks.                                                                  *)

\* A user's score is changed or set, and nobody else's.
LEMMA ZIncrByLemma ==
  ASSUME NEW z \in Scores, NEW u \in User, NEW d \in Int
  PROVE  /\ ZIncrBy(z, u, d) \in Scores
         /\ DOMAIN ZIncrBy(z, u, d) = DOMAIN z \cup {u}
         /\ \A v \in DOMAIN z \ {u} : ZIncrBy(z, u, d)[v] = z[v]
         /\ u \in DOMAIN z => ZIncrBy(z, u, d)[u] = z[u] + d
<1>1. PICK S \in SUBSET User : z \in [S -> Int]
  BY DEF Scores
<1>2. ZIncrBy(z, u, d) \in [S \cup {u} -> Int] /\ S \cup {u} \in SUBSET User
  BY <1>1 DEF ZIncrBy
<1>3. ZIncrBy(z, u, d) \in Scores
  BY <1>2 DEF Scores
<1>4. \A v \in S \ {u} : ZIncrBy(z, u, d)[v] = z[v]
  BY <1>1 DEF ZIncrBy
<1> QED BY <1>1, <1>2, <1>3, <1>4 DEF ZIncrBy

\* Nobody beats itself: the ranks, counted from 1, are at most the number of users.
LEMMA RankBound ==
  ASSUME NEW z \in Scores, NEW u \in DOMAIN z
  PROVE  RevRank(z, u) + 1 \in 1 .. Cardinality(User)
<1> DEFINE B == {v \in DOMAIN z : Beats(z, v, u)}
<1>1. DOMAIN z \subseteq User /\ z \in [DOMAIN z -> Int]
  BY DEF Scores
<1>2. B \in SUBSET (User \ {u})
  BY <1>1, ConstantsAssumption DEF Beats
<1>3. IsFiniteSet(User) /\ u \in User
  BY <1>1, ConstantsAssumption
<1>4. /\ IsFiniteSet(User \ {u}) /\ Cardinality(User \ {u}) = Cardinality(User) - 1
      /\ Cardinality(User) \in Nat
  BY <1>3, FS_RemoveElement, FS_CardinalityType
<1>5. /\ IsFiniteSet(B) /\ Cardinality(B) <= Cardinality(User \ {u}) /\ Cardinality(B) \in Nat
  BY <1>2, <1>4, FS_Subset, FS_CardinalityType
<1> QED BY <1>4, <1>5 DEF RevRank

\* A user does not rise when another one gains: only its own update brings it up.
LEMMA RankKept ==
  ASSUME NEW z \in Scores, NEW u \in User, NEW d \in Nat, NEW v \in DOMAIN z, u # v
  PROVE  /\ v \in DOMAIN ZIncrBy(z, u, d)
         /\ RevRank(z, v) <= RevRank(ZIncrBy(z, u, d), v)
         /\ RevRank(z, v) \in Nat /\ RevRank(ZIncrBy(z, u, d), v) \in Nat
<1> DEFINE y == ZIncrBy(z, u, d)
           B == {w \in DOMAIN z : Beats(z, w, v)}
           C == {w \in DOMAIN y : Beats(y, w, v)}
<1>1. /\ y \in Scores /\ DOMAIN y = DOMAIN z \cup {u}
      /\ \A w \in DOMAIN z \ {u} : y[w] = z[w]
      /\ u \in DOMAIN z => y[u] = z[u] + d
  <2>1. d \in Int
    OBVIOUS
  <2> QED BY <2>1, ZIncrByLemma
<1> HIDE DEF y
<1>2. z \in [DOMAIN z -> Int] /\ DOMAIN y \subseteq User /\ DOMAIN z \subseteq User
  BY <1>1 DEF Scores
<1>3. B \subseteq C
  <2> SUFFICES ASSUME NEW w \in DOMAIN z, Beats(z, w, v) PROVE w \in DOMAIN y /\ Beats(y, w, v)
    OBVIOUS
  <2>1. CASE w # u
    BY <1>1, <2>1 DEF Beats
  <2>2. CASE w = u
    <3>1. z[u] \in Int /\ z[v] \in Int /\ y[u] = z[u] + d /\ y[v] = z[v] /\ u \in Nat /\ v \in Nat
      BY <1>1, <1>2, <2>2, ConstantsAssumption
    <3> QED BY <1>1, <2>2, <3>1 DEF Beats
  <2> QED BY <2>1, <2>2
<1>4. IsFiniteSet(C) /\ IsFiniteSet(B)
  <2>1. B \in SUBSET User /\ C \in SUBSET User
    BY <1>2
  <2> QED BY <2>1, FS_Subset, ConstantsAssumption
<1>5. Cardinality(B) <= Cardinality(C) /\ Cardinality(B) \in Nat /\ Cardinality(C) \in Nat
  BY <1>3, <1>4, FS_Subset, FS_CardinalityType
<1> QED BY <1>1, <1>5 DEF RevRank, y

-----------------------------------------------------------------------------
(* What the steps have in common.                                          *)

\* An entry is announced when the rank is in the top and the memory is not.
LEMMA ReasonLemma ==
  ASSUME NEW rank \in Nat, NEW previous \in Nat
  PROVE  Reason(rank, previous) = "top10" <=> InTop(rank) /\ ~(previous # 0 /\ InTop(previous))
BY DEF Reason

\* The limits are numbers, and a threshold of the top is one.
LEMMA Limits ==
  /\ MaxUpdates \in Nat /\ MaxFaults \in Nat /\ TopNThreshold \in Nat /\ Prefetch \in Nat
  /\ Cardinality(User) \in Nat /\ Deltas \subseteq Int /\ Garbage \notin User
BY ConstantsAssumption, FS_CardinalityType

\* The types of the parts; what the queue holds are numbers of messages.
LEMMA Parts ==
  ASSUME Types
  PROVE  /\ DOMAIN zset \subseteq User /\ zset \in Scores
         /\ bodies \in Seq(User \cup {Garbage}) /\ DOMAIN bodies = 1 .. Len(bodies)
         /\ Len(bodies) \in Nat /\ \A m \in DOMAIN bodies : bodies[m] \in User \cup {Garbage}
         /\ queue \in Queues(DOMAIN bodies) /\ WellFormed(queue)
         /\ Held(queue) \subseteq DOMAIN bodies
         /\ queue.unacked # <<>> => /\ Head(queue.unacked) \in DOMAIN bodies
                                    /\ Head(queue.unacked) \in Held(queue)
                                    /\ Len(queue.unacked) \in Nat \ {0}
         /\ Len(queue.unacked) \in Nat /\ queue.unacked \in Seq(DOMAIN bodies)
<1>1. /\ DOMAIN zset \subseteq User /\ zset \in Scores
      /\ bodies \in Seq(User \cup {Garbage}) /\ queue \in Queues(DOMAIN bodies) /\ WellFormed(queue)
  BY DEF Types, TypeOK
<1>2. /\ DOMAIN bodies = 1 .. Len(bodies) /\ Len(bodies) \in Nat
      /\ \A m \in DOMAIN bodies : bodies[m] \in User \cup {Garbage}
  BY <1>1, LenProperties, ElementOfSeq
<1>3. queue.unacked \in Seq(DOMAIN bodies) /\ queue.ready \subseteq DOMAIN bodies
  BY <1>1 DEF Queues
<1>4. Held(queue) \subseteq DOMAIN bodies
  BY <1>3, RangeOfSeq DEF Held
<1>5. ASSUME queue.unacked # <<>>
      PROVE  /\ Head(queue.unacked) \in DOMAIN bodies /\ Head(queue.unacked) \in Held(queue)
             /\ Len(queue.unacked) \in Nat \ {0}
  <2>1. Head(queue.unacked) \in Range(queue.unacked)
    BY <1>3, <1>5, HeadTailProperties, LenProperties, EmptySeq DEF Range
  <2>2. Len(queue.unacked) \in Nat \ {0}
    BY <1>3, <1>5, HeadTailProperties, LenProperties, EmptySeq
  <2> QED BY <1>4, <2>1, <2>2 DEF Held
<1>6. Len(queue.unacked) \in Nat
  BY <1>3, LenProperties
<1> QED BY <1>1, <1>2, <1>3, <1>4, <1>5, <1>6

\* A step that announces nobody and gives nobody another right to be announced.
LEMMA CountedKept ==
  ASSUME Types, Counted, UNCHANGED announced, repeats' \in Nat, repeats' >= repeats,
         \A u \in User : entered'[u] \in Nat /\ entered'[u] >= entered[u],
         \A u \in User : MayBeTold(u)' => \/ MayBeTold(u)
                                          \/ entered'[u] + repeats' > entered[u] + repeats
  PROVE  Counted'
<1> SUFFICES ASSUME NEW u \in User
             PROVE  /\ announced'[u] <= entered'[u] + repeats'
                    /\ MayBeTold(u)' => announced'[u] + 1 <= entered'[u] + repeats'
  BY DEF Counted
<1>1. /\ announced[u] \in Nat /\ entered[u] \in Nat /\ repeats \in Nat /\ announced'[u] = announced[u]
      /\ announced[u] <= entered[u] + repeats
      /\ MayBeTold(u) => announced[u] + 1 <= entered[u] + repeats
  BY DEF Types, Counted
<1> QED BY <1>1

-----------------------------------------------------------------------------
(* The api.                                                                *)

\* The publisher's steps: nothing of what the notifier has changes.
PublishStep ==
  PublishGarbage \/ \E u \in User : PublishEvent(u) \/ LosePublish(u)

\* What a publish, a lost one and other publishers' garbage do.
LEMMA PublishEffect ==
  ASSUME Types, PublishStep
  PROVE  /\ UNCHANGED <<zset, memory, loop, updates, entered, announced, fresh, refused>>
         /\ repeats' \in Nat /\ repeats' >= repeats
         /\ \A m \in DOMAIN bodies : m \in DOMAIN bodies' /\ bodies'[m] = bodies[m]
         /\ queue'.unacked = queue.unacked /\ Held(queue) \subseteq Held(queue')
         /\ \A u \in User : owed'[u] <= owed[u]
         /\ \A u \in User : owed'[u] = owed[u] \/ missed'[u] = "last"
                              \/ \E m \in Held(queue') \ Held(queue) : bodies'[m] = u
         /\ \A u \in User : missed[u] # "last" \/ missed'[u] = "last"
                              \/ \E m \in Held(queue') \ Held(queue) : bodies'[m] = u
         /\ \A m \in DOMAIN bodies' \ DOMAIN bodies :
              bodies'[m] = Garbage \/ (bodies'[m] \in User /\ owed[bodies'[m]] > 0)
         /\ Types'
<1>1. /\ UNCHANGED <<zset, memory, loop, updates, entered, announced, fresh, refused>>
      /\ repeats' = repeats \/ repeats' = repeats + 1
  BY DEF PublishStep, PublishGarbage, PublishEvent, LosePublish, Fault
<1>2. repeats \in Nat /\ repeats' \in Nat /\ repeats' >= repeats
  BY <1>1 DEF Types
<1>3. \A u \in User : owed[u] \in 0 .. MaxUpdates
  BY DEF Types, TypeOK
<1>4. ASSUME NEW x \in User \cup {Garbage}, bodies' = Append(bodies, x),
             queue' = Publish(queue, Len(bodies'))
      PROVE  /\ bodies' \in Seq(User \cup {Garbage}) /\ DOMAIN bodies' = DOMAIN bodies \cup {Len(bodies')}
             /\ \A m \in DOMAIN bodies : bodies'[m] = bodies[m]
             /\ bodies'[Len(bodies')] = x /\ Len(bodies') \notin DOMAIN bodies
             /\ queue' \in Queues(DOMAIN bodies') /\ WellFormed(queue')
             /\ queue.bound => Held(queue') = Held(queue) \cup {Len(bodies')}
             /\ ~queue.bound => Held(queue') = Held(queue)
             /\ Len(bodies') \notin Held(queue)
             /\ queue'.unacked = queue.unacked
  <2>1. /\ bodies' \in Seq(User \cup {Garbage}) /\ Len(bodies') = Len(bodies) + 1
        /\ DOMAIN bodies' = 1 .. Len(bodies) + 1 /\ DOMAIN bodies = 1 .. Len(bodies)
        /\ \A m \in 1 .. Len(bodies) : bodies'[m] = bodies[m]
        /\ bodies'[Len(bodies) + 1] = x /\ Len(bodies) \in Nat
    BY <1>4, Parts, AppendProperties, LenProperties
  <2>2. Len(bodies') \notin DOMAIN bodies /\ DOMAIN bodies' = DOMAIN bodies \cup {Len(bodies')}
    BY <2>1
  <2>3. (\A m \in DOMAIN bodies : bodies'[m] = bodies[m]) /\ bodies'[Len(bodies')] = x
    BY <2>1
  <2>4. bodies' \in Seq(User \cup {Garbage})
    BY <2>1
  <2>5. /\ queue \in Queues(DOMAIN bodies') /\ WellFormed(queue) /\ Len(bodies') \in DOMAIN bodies'
        /\ Len(bodies') \notin Held(queue)
    BY <2>2, Parts, QueuesMonotonic
  <2>6. /\ queue' \in Queues(DOMAIN bodies') /\ WellFormed(queue')
        /\ queue.bound => Held(queue') = Held(queue) \cup {Len(bodies')}
        /\ ~queue.bound => Held(queue') = Held(queue)
        /\ queue'.unacked = queue.unacked
    BY <1>4, <2>5, PublishLemma
  <2> QED BY <2>2, <2>5, <2>6, <2>3, <2>4
<1>5. CASE PublishGarbage
  <2>1. bodies' = Append(bodies, Garbage) /\ queue' = Publish(queue, Len(bodies'))
        /\ UNCHANGED <<owed, missed>>
    BY <1>5 DEF PublishGarbage
  <2>2. Types'
    BY <1>1, <1>2, <1>4, <2>1 DEF Types, TypeOK
  <2>3. Held(queue) \subseteq Held(queue')
    BY <1>4, <2>1
  <2> QED BY <1>1, <1>2, <1>3, <1>4, <2>1, <2>2, <2>3
<1>6. ASSUME NEW u \in User, PublishEvent(u)
      PROVE  /\ \A m \in DOMAIN bodies : m \in DOMAIN bodies' /\ bodies'[m] = bodies[m]
             /\ queue'.unacked = queue.unacked /\ Held(queue) \subseteq Held(queue')
             /\ \A v \in User : owed'[v] <= owed[v]
             /\ \A v \in User : owed'[v] = owed[v] \/ missed'[v] = "last"
                                  \/ \E m \in Held(queue') \ Held(queue) : bodies'[m] = v
             /\ \A v \in User : missed[v] # "last" \/ missed'[v] = "last"
                                  \/ \E m \in Held(queue') \ Held(queue) : bodies'[m] = v
             /\ \A m \in DOMAIN bodies' \ DOMAIN bodies :
                  bodies'[m] = Garbage \/ (bodies'[m] \in User /\ owed[bodies'[m]] > 0)
             /\ Types'
  <2>1. /\ owed[u] > 0 /\ owed' = [owed EXCEPT ![u] = owed[u] - 1]
        /\ bodies' = Append(bodies, u) /\ queue' = Publish(queue, Len(bodies'))
        /\ queue.bound => missed' = [missed EXCEPT ![u] = IF missed[u] = "last" THEN "earlier" ELSE missed[u]]
        /\ ~queue.bound => missed' = [missed EXCEPT ![u] = "last"]
    BY <1>6 DEF PublishEvent, Misses, Reaches
  <2>2. /\ owed' \in [User -> 0 .. MaxUpdates] /\ owed'[u] = owed[u] - 1
        /\ \A v \in User \ {u} : owed'[v] = owed[v]
        /\ \A v \in User : owed'[v] <= owed[v]
    <3>1. owed \in [User -> 0 .. MaxUpdates] /\ owed[u] - 1 \in 0 .. MaxUpdates
      BY <1>3, <2>1, Limits DEF Types, TypeOK
    <3> QED BY <1>3, <2>1, <3>1, Limits
  <2>3. /\ missed' \in [User -> {"never", "last", "earlier"}]
        /\ \A v \in User \ {u} : missed'[v] = missed[v]
        /\ queue.bound \/ missed'[u] = "last"
    BY <2>1 DEF Types, TypeOK
  <2>4. Types'
    <3>1. \A v \in User : owed'[v] <= updates
      BY <1>3, <2>2, Limits DEF Types
    <3> QED BY <1>1, <1>2, <1>4, <2>1, <2>2, <2>3, <3>1 DEF Types, TypeOK
  <2>5. queue.bound => \E m \in Held(queue') \ Held(queue) : bodies'[m] = u
    BY <1>4, <2>1
  <2>6. /\ \A m \in DOMAIN bodies : m \in DOMAIN bodies' /\ bodies'[m] = bodies[m]
        /\ queue'.unacked = queue.unacked /\ Held(queue) \subseteq Held(queue')
        /\ \A m \in DOMAIN bodies' \ DOMAIN bodies : bodies'[m] = u
    BY <1>4, <2>1
  <2>7. \A v \in User : /\ owed'[v] = owed[v] \/ missed'[v] = "last"
                             \/ \E m \in Held(queue') \ Held(queue) : bodies'[m] = v
                        /\ missed[v] # "last" \/ missed'[v] = "last"
                             \/ \E m \in Held(queue') \ Held(queue) : bodies'[m] = v
    BY <2>2, <2>3, <2>5
  <2> QED BY <2>1, <2>2, <2>4, <2>6, <2>7
<1>7. ASSUME NEW u \in User, LosePublish(u)
      PROVE  /\ UNCHANGED <<bodies, queue>>
             /\ \A v \in User : owed'[v] <= owed[v]
             /\ \A v \in User : owed'[v] = owed[v] \/ missed'[v] = "last"
             /\ \A v \in User : missed[v] # "last" \/ missed'[v] = "last"
             /\ Types'
  <2>1. /\ owed[u] > 0 /\ owed' = [owed EXCEPT ![u] = owed[u] - 1]
        /\ missed' = [missed EXCEPT ![u] = "last"] /\ UNCHANGED <<bodies, queue>>
    BY <1>7 DEF LosePublish, Misses
  <2>2. /\ owed' \in [User -> 0 .. MaxUpdates] /\ owed'[u] = owed[u] - 1
        /\ \A v \in User \ {u} : owed'[v] = owed[v]
        /\ \A v \in User : owed'[v] <= owed[v]
    <3>1. owed \in [User -> 0 .. MaxUpdates] /\ owed[u] - 1 \in 0 .. MaxUpdates
      BY <1>3, <2>1, Limits DEF Types, TypeOK
    <3> QED BY <1>3, <2>1, <3>1, Limits
  <2>3. /\ missed' \in [User -> {"never", "last", "earlier"}] /\ missed'[u] = "last"
        /\ \A v \in User \ {u} : missed'[v] = missed[v]
    BY <2>1 DEF Types, TypeOK
  <2>4. Types'
    <3>1. \A v \in User : owed'[v] <= updates
      BY <1>3, <2>2, Limits DEF Types
    <3> QED BY <1>1, <1>2, <2>1, <2>2, <2>3, <3>1 DEF Types, TypeOK
  <2> QED BY <2>1, <2>2, <2>3, <2>4
<1> QED BY <1>1, <1>2, <1>5, <1>6, <1>7 DEF PublishStep

\* An update of u: only u can come into the top by it, if scores only grow.
LEMMA ScoreEffect ==
  ASSUME Types, NEW u \in User, Score(u)
  PROVE  /\ UNCHANGED <<bodies, queue, memory, loop, repeats, announced, missed, refused>>
         /\ DOMAIN zset' = DOMAIN zset \cup {u}
         /\ owed'[u] = owed[u] + 1 /\ owed'[u] > 0 /\ \A v \in User \ {u} : owed'[v] = owed[v]
         /\ \A v \in User : /\ entered'[v] \in Nat /\ entered'[v] >= entered[v]
                            /\ v \in Top(zset') \ Top(zset) => entered'[v] > entered[v]
         /\ Deltas \subseteq Nat => Top(zset') \ {u} \subseteq Top(zset)
         /\ Types'
<1>1. /\ updates < MaxUpdates /\ updates' = updates + 1
      /\ entered' = [v \in User |-> entered[v] + IF v \in Top(zset') \ Top(zset) THEN 1 ELSE 0]
      /\ owed' = [owed EXCEPT ![u] = owed[u] + 1]
      /\ UNCHANGED <<bodies, queue, memory, loop, repeats, announced, missed, refused>>
  BY DEF Score, Entrants
<1>2. PICK d \in Deltas : zset' = ZIncrBy(zset, u, d)
  BY DEF Score
<1>3. d \in Int /\ zset \in Scores
  BY Limits DEF Types
<1>4. zset' \in Scores /\ DOMAIN zset' = DOMAIN zset \cup {u}
  BY <1>2, <1>3, ZIncrByLemma
<1>5. /\ \A v \in User : owed[v] \in 0 .. MaxUpdates /\ owed[v] <= updates /\ entered[v] \in Nat
      /\ updates \in 0 .. MaxUpdates
  BY DEF Types, TypeOK
<1>6. /\ owed'[u] = owed[u] + 1 /\ \A v \in User \ {u} : owed'[v] = owed[v]
      /\ owed' \in [User -> 0 .. MaxUpdates] /\ \A v \in User : owed'[v] <= updates'
      /\ updates' \in 0 .. MaxUpdates
  <2>1. owed \in [User -> 0 .. MaxUpdates] /\ owed[u] + 1 \in 0 .. MaxUpdates
    BY <1>1, <1>5, Limits DEF Types, TypeOK
  <2> QED BY <1>1, <1>5, <2>1, Limits
<1>7. /\ entered' \in [User -> Nat]
      /\ \A v \in User : /\ entered'[v] \in Nat /\ entered'[v] >= entered[v]
                         /\ v \in Top(zset') \ Top(zset) => entered'[v] > entered[v]
  BY <1>1, <1>5
<1>8. Types'
  <2>1. DOMAIN zset' \subseteq User
    BY <1>4 DEF Scores
  <2> QED BY <1>1, <1>4, <1>6, <1>7, <2>1 DEF Types, TypeOK
<1>9. ASSUME Deltas \subseteq Nat, NEW v \in Top(zset') \ {u}
      PROVE  v \in Top(zset)
  <2>1. v \in DOMAIN zset' /\ InTop(RevRank(zset', v) + 1)
    BY <1>9 DEF Top
  <2>2. v \in DOMAIN zset /\ d \in Nat /\ u # v
    BY <1>4, <1>9, <2>1
  <2>3. /\ RevRank(zset, v) <= RevRank(zset', v)
        /\ RevRank(zset, v) \in Nat /\ RevRank(zset', v) \in Nat
    BY <1>2, <1>3, <2>2, RankKept
  <2> QED BY <2>1, <2>2, <2>3, Limits DEF Top, InTop
<1>10. owed'[u] > 0
  BY <1>5, <1>6, Limits
<1> QED BY <1>1, <1>4, <1>6, <1>7, <1>8, <1>9, <1>10

-----------------------------------------------------------------------------
(* The loop.                                                               *)

\* The process starts with nothing in memory: the backlog stays.
LEMMA StartEffect ==
  ASSUME Types, Start
  PROVE  /\ UNCHANGED <<apiVars, repeats, announced, missed, refused>>
         /\ loop.at = "down" /\ loop'.at = "receiving" /\ memory' = NoMemory
         /\ Held(queue') = Held(queue)
         /\ Types'
<1>1. /\ UNCHANGED <<apiVars, repeats, announced, missed, refused>>
      /\ loop.at = "down" /\ loop' = At("receiving") /\ memory' = NoMemory
      /\ queue' = DeclareAndBindQueue(queue)
  BY DEF Start
<1>2. /\ queue' \in Queues(DOMAIN bodies) /\ WellFormed(queue') /\ Held(queue') = Held(queue)
      /\ queue'.unacked = queue.unacked
  BY <1>1, Parts, DeclareLemma
<1>3. loop'.at = "receiving" /\ memory' \in [User -> 0 .. Cardinality(User)]
  BY <1>1, Limits DEF At, NoMemory
<1>4. Types'
  BY <1>1, <1>2, <1>3 DEF Types, TypeOK, apiVars, At
<1> QED BY <1>1, <1>2, <1>3, <1>4

\* The broker pushes a message behind those the loop has.
LEMMA DeliverEffect ==
  ASSUME Types, NEW m \in DOMAIN bodies, DeliverEvent(m)
  PROVE  /\ UNCHANGED <<apiVars, memory, loop, repeats, announced, missed, refused>>
         /\ Held(queue') = Held(queue)
         /\ queue.unacked # <<>> => /\ queue'.unacked # <<>>
                                    /\ Head(queue'.unacked) = Head(queue.unacked)
         /\ Types'
<1>1. /\ UNCHANGED <<apiVars, memory, loop, repeats, announced, missed, refused>>
      /\ m \in queue.ready /\ Len(queue.unacked) < Prefetch /\ queue' = Deliver(queue, m)
  BY DEF DeliverEvent, CanDeliver, Oldest
<1>2. /\ queue' \in Queues(DOMAIN bodies) /\ WellFormed(queue') /\ Held(queue') = Held(queue)
      /\ Len(queue'.unacked) = Len(queue.unacked) + 1
      /\ queue.unacked # <<>> => /\ queue'.unacked # <<>>
                                 /\ Head(queue'.unacked) = Head(queue.unacked)
  BY <1>1, Parts, DeliverLemma
<1>3. Len(queue'.unacked) <= Prefetch
  BY <1>1, <1>2, Parts, Limits
<1>4. Types'
  BY <1>1, <1>2, <1>3 DEF Types, TypeOK, apiVars
<1> QED BY <1>1, <1>2, <1>4

\* The process goes down, and the broker has everything back.
LEMMA CrashEffect ==
  ASSUME Types, Crash
  PROVE  /\ UNCHANGED <<apiVars, announced, missed, refused>>
         /\ loop'.at = "down" /\ memory' = NoMemory /\ repeats' = repeats + 1
         /\ Held(queue') = Held(queue)
         /\ Types'
<1>1. /\ UNCHANGED <<apiVars, announced, missed, refused>>
      /\ loop' = At("down") /\ memory' = NoMemory /\ repeats' = repeats + 1
      /\ queue' = ConsumerGone(queue)
  BY DEF Crash, Fault
<1>2. /\ queue' \in Queues(DOMAIN bodies) /\ WellFormed(queue') /\ Held(queue') = Held(queue)
      /\ queue'.unacked = <<>>
  BY <1>1, Parts, ConsumerGoneLemma
<1>3. /\ loop'.at = "down" /\ memory' \in [User -> 0 .. Cardinality(User)]
      /\ Len(queue'.unacked) <= Prefetch /\ repeats' \in Nat
  BY <1>1, <1>2, Limits, EmptySeq DEF At, NoMemory, Types
<1>4. Types'
  BY <1>1, <1>2, <1>3 DEF Types, TypeOK, apiVars, At
<1> QED BY <1>1, <1>2, <1>3, <1>4

\* The loop's message leaves it, settled or given back; the others stay.
LEMMA SettleEffect ==
  ASSUME Types, queue.unacked # <<>>, UNCHANGED <<apiVars, announced, missed>>,
         memory' \in [User -> 0 .. Cardinality(User)], refused' \subseteq User,
         repeats' \in {repeats, repeats + 1},
         Settled(Ack(queue)) \/ Settled(Nack(queue, FALSE)) \/ Settled(Nack(queue, TRUE))
  PROVE  /\ loop'.at = "receiving" /\ repeats' \in Nat /\ repeats' >= repeats
         /\ Held(queue) \ {Head(queue.unacked)} \subseteq Held(queue')
         /\ Settled(Nack(queue, TRUE)) => Held(queue') = Held(queue)
         /\ Types'
<1>1. /\ loop' = At("receiving")
      /\ queue' \in {Ack(queue), Nack(queue, FALSE), Nack(queue, TRUE)}
      /\ Settled(Nack(queue, TRUE)) => queue' = Nack(queue, TRUE)
  BY DEF Settled
<1>2. queue \in Queues(DOMAIN bodies) /\ WellFormed(queue) /\ Len(queue.unacked) \in Nat
  BY Parts
<1>3. /\ Nack(queue, FALSE) = Ack(queue)
      /\ Ack(queue) \in Queues(DOMAIN bodies) /\ WellFormed(Ack(queue))
      /\ Held(Ack(queue)) = Held(queue) \ {Head(queue.unacked)}
      /\ Len(Ack(queue).unacked) = Len(queue.unacked) - 1
  BY <1>2, AckLemma, NackDropLemma
<1>4. /\ Nack(queue, TRUE) \in Queues(DOMAIN bodies) /\ WellFormed(Nack(queue, TRUE))
      /\ Held(Nack(queue, TRUE)) = Held(queue)
      /\ Len(Nack(queue, TRUE).unacked) = Len(queue.unacked) - 1
  BY <1>2, NackRequeueLemma
<1>5. /\ queue' \in Queues(DOMAIN bodies) /\ WellFormed(queue')
      /\ Held(queue) \ {Head(queue.unacked)} \subseteq Held(queue')
      /\ Settled(Nack(queue, TRUE)) => Held(queue') = Held(queue)
      /\ Len(queue'.unacked) = Len(queue.unacked) - 1
  BY <1>1, <1>3, <1>4
<1>6. loop'.at = "receiving" /\ repeats' \in Nat /\ repeats' >= repeats
  BY <1>1 DEF At, Types
<1>7. Types'
  <2>1. Len(queue'.unacked) <= Prefetch
    BY <1>2, <1>5, Limits DEF Types, TypeOK
  <2> QED BY <1>1, <1>5, <1>6, <2>1 DEF Types, TypeOK, apiVars, At
<1> QED BY <1>5, <1>6, <1>7

\* The loop reads the rank of the user as it is now.
LEMMA ReadRankEffect ==
  ASSUME Types, Scored, NEW m, ReadRank(m)
  PROVE  /\ UNCHANGED <<apiVars, queue, memory, repeats, announced, missed, refused>>
         /\ loop.at = "receiving" /\ loop'.at = "ranked" /\ queue.unacked # <<>>
         /\ Current \in User /\ Current # Garbage /\ loop'.rank \in Nat
         /\ InTop(loop'.rank) <=> Current \in Top(zset)
         /\ Types'
<1>1. /\ UNCHANGED <<apiVars, queue, memory, repeats, announced, missed, refused>>
      /\ loop.at = "receiving" /\ queue.unacked # <<>> /\ m = Head(queue.unacked)
      /\ Current # Garbage
      /\ loop' = [At("ranked") EXCEPT !.rank = RevRank(zset, Current) + 1]
  BY DEF ReadRank, Handling, Current
<1>2. Current \in DOMAIN zset /\ Current \in User /\ zset \in Scores
  BY <1>1, Parts DEF Scored, Current
<1>3. RevRank(zset, Current) + 1 \in 1 .. Cardinality(User)
  BY <1>2, RankBound
<1> DEFINE r == RevRank(zset, Current) + 1
<1>4. r \in Nat
  BY <1>3, Limits
<1>5. InTop(r) <=> Current \in Top(zset)
  BY <1>2 DEF Top
<1> HIDE DEF r
<1>6. loop' = [at |-> "ranked", rank |-> r, previous |-> 0]
  BY <1>1 DEF At, r
<1>7. Types'
  BY <1>1, <1>3, <1>4, <1>6 DEF Types, TypeOK, apiVars, r
<1> QED BY <1>1, <1>2, <1>4, <1>5, <1>6, <1>7

\* The loop remembers the rank, and goes on to publish or settles the event.
LEMMA DecideEffect ==
  ASSUME Types, Placed, NEW m, Decide(m)
  PROVE  /\ UNCHANGED <<apiVars, repeats, announced, missed, refused>>
         /\ loop.at = "ranked" /\ queue.unacked # <<>> /\ Current \in User /\ loop.rank \in Nat
         /\ memory'[Current] = loop.rank /\ loop.rank # 0
         /\ \A v \in User \ {Current} : memory'[v] = memory[v]
         /\ \/ /\ UNCHANGED queue /\ loop'.at = "publish" /\ loop'.rank = loop.rank
               /\ IsEntry' <=> InTop(loop.rank) /\ ~InMemory(Current)
            \/ /\ loop'.at = "receiving" /\ ~(InTop(loop.rank) /\ ~InMemory(Current))
               /\ Held(queue) \ {Head(queue.unacked)} \subseteq Held(queue')
         /\ Types'
<1> DEFINE u == Current
           previous == memory[u]
<1>1. /\ UNCHANGED <<apiVars, repeats, announced, missed, refused>>
      /\ loop.at = "ranked" /\ queue.unacked # <<>> /\ m = Head(queue.unacked)
      /\ memory' = [memory EXCEPT ![u] = loop.rank]
      /\ IF Reason(loop.rank, previous) = ""
         THEN Settled(Ack(queue))
         ELSE loop' = [loop EXCEPT !.at = "publish", !.previous = previous] /\ UNCHANGED queue
  BY DEF Decide, Handling, Remember, Current
<1>2. u \in User /\ loop.rank \in 1 .. Cardinality(User)
  BY <1>1, Parts DEF Placed, Busy, Types, TypeOK, Current
<1>3. /\ memory \in [User -> 0 .. Cardinality(User)] /\ previous \in Nat
      /\ loop.rank \in Nat /\ loop.rank # 0 /\ loop.rank \in 0 .. Cardinality(User)
  BY <1>2, Limits DEF Types, TypeOK
<1>4. /\ memory' \in [User -> 0 .. Cardinality(User)] /\ memory'[u] = loop.rank
      /\ \A v \in User \ {u} : memory'[v] = memory[v]
  BY <1>1, <1>2, <1>3
<1>5. Reason(loop.rank, previous) = "top10" <=> InTop(loop.rank) /\ ~InMemory(u)
  BY <1>3, ReasonLemma DEF InMemory
<1>6. CASE Reason(loop.rank, previous) = ""
  <2>1. Settled(Ack(queue)) /\ ~(InTop(loop.rank) /\ ~InMemory(u))
    BY <1>1, <1>5, <1>6
  <2>2. refused' \subseteq User /\ repeats' \in {repeats, repeats + 1}
    BY <1>1 DEF Types, TypeOK
  <2>3. /\ loop'.at = "receiving" /\ Types'
        /\ Held(queue) \ {Head(queue.unacked)} \subseteq Held(queue')
    BY <1>1, <1>4, <2>1, <2>2, SettleEffect
  <2> QED BY <1>1, <1>2, <1>3, <1>4, <2>1, <2>3
<1>7. CASE Reason(loop.rank, previous) # ""
  <2> HIDE DEF u, previous
  <2>1. /\ loop' = [loop EXCEPT !.at = "publish", !.previous = previous] /\ UNCHANGED queue
    BY <1>1, <1>7
  <2>2. /\ loop' \in [at : {"down", "receiving", "ranked", "publish", "published"}, rank : Nat,
                      previous : Nat]
        /\ loop'.at = "publish" /\ loop'.rank = loop.rank /\ loop'.previous = previous
    BY <1>3, <2>1 DEF Types
  <2>3. IsEntry' <=> InTop(loop.rank) /\ ~InMemory(u)
    BY <1>5, <2>2 DEF IsEntry
  <2>4. Types'
    BY <1>1, <1>2, <1>4, <2>1, <2>2 DEF Types, TypeOK, apiVars
  <2> QED BY <1>1, <1>2, <1>3, <1>4, <2>1, <2>2, <2>3, <2>4 DEF u
<1> QED BY <1>6, <1>7

\* Redis gets the notification, perhaps not for the last time.
LEMMA NotifyEffect ==
  ASSUME Types, Placed, NEW m, Notify(m)
  PROVE  /\ UNCHANGED <<apiVars, queue, memory, missed, refused>>
         /\ loop.at = "publish" /\ queue.unacked # <<>> /\ Current \in User
         /\ \/ loop'.at = "published" /\ repeats' = repeats
            \/ UNCHANGED loop /\ repeats' = repeats + 1
         /\ announced'[Current] = announced[Current] + IF IsEntry THEN 1 ELSE 0
         /\ \A v \in User \ {Current} : announced'[v] = announced[v]
         /\ Types'
<1>1. /\ UNCHANGED <<apiVars, queue, memory, missed, refused>>
      /\ loop.at = "publish" /\ queue.unacked # <<>>
      /\ announced' = IF IsEntry THEN [announced EXCEPT ![Current] = announced[Current] + 1]
                      ELSE announced
      /\ \/ loop' = At("published") /\ repeats' = repeats
         \/ UNCHANGED loop /\ repeats' = repeats + 1
  BY DEF Notify, PublishNotification, PublishAgain, Handling, Announce, Current, Fault
<1>2. Current \in User /\ announced \in [User -> Nat]
  BY <1>1, Parts DEF Placed, Busy, Current, Types
<1>3. /\ announced' \in [User -> Nat]
      /\ announced'[Current] = announced[Current] + IF IsEntry THEN 1 ELSE 0
      /\ \A v \in User \ {Current} : announced'[v] = announced[v]
  BY <1>1, <1>2
<1>4. /\ loop' \in [at : {"down", "receiving", "ranked", "publish", "published"}, rank : Nat,
                    previous : Nat]
      /\ loop'.at \in {"ranked", "publish"} => loop'.rank \in 1 .. Cardinality(User)
      /\ \/ loop'.at = "published" /\ repeats' = repeats
         \/ UNCHANGED loop /\ repeats' = repeats + 1
      /\ repeats' \in Nat
  <2>1. CASE loop' = At("published") /\ repeats' = repeats
    <3>1. loop' = [at |-> "published", rank |-> 0, previous |-> 0]
      BY <2>1 DEF At
    <3> QED BY <2>1, <3>1 DEF Types
  <2>2. CASE UNCHANGED loop /\ repeats' = repeats + 1
    BY <2>2 DEF Types, TypeOK
  <2> QED BY <1>1, <2>1, <2>2
<1>5. Types'
  BY <1>1, <1>3, <1>4 DEF Types, TypeOK, apiVars
<1> QED BY <1>1, <1>2, <1>3, <1>4, <1>5

-----------------------------------------------------------------------------
(* Each step preserves the invariant.                                      *)

\* The event in the loop's hands is the same after the steps of others.
LEMMA SameEvent ==
  ASSUME Types, queue.unacked # <<>>, Head(queue'.unacked) = Head(queue.unacked),
         \A m \in DOMAIN bodies : bodies'[m] = bodies[m]
  PROVE  Current' = Current
BY Parts DEF Current

\* What is published is about users with a score.
LEMMA PublishStepKeeps ==
  ASSUME IInv, PublishStep
  PROVE  IInv'
<1>1. /\ UNCHANGED <<zset, memory, loop, entered, announced>>
      /\ repeats' \in Nat /\ repeats' >= repeats
      /\ \A m \in DOMAIN bodies : m \in DOMAIN bodies' /\ bodies'[m] = bodies[m]
      /\ queue'.unacked = queue.unacked
      /\ \A u \in User : owed'[u] <= owed[u]
      /\ \A m \in DOMAIN bodies' \ DOMAIN bodies :
           bodies'[m] = Garbage \/ (bodies'[m] \in User /\ owed[bodies'[m]] > 0)
      /\ Types'
  BY PublishEffect DEF IInv
<1>2. Busy' <=> Busy
  BY <1>1 DEF Busy
<1>3. Busy => Current' = Current
  BY <1>1, SameEvent DEF IInv, Placed
<1>4. Scored'
  <2>1. \A u \in User : owed[u] \in Nat /\ owed'[u] \in Nat
    BY <1>1, Limits DEF IInv, Types, TypeOK
  <2> QED BY <1>1, <2>1 DEF IInv, Scored
<1>5. Placed'
  BY <1>1, <1>2, <1>3 DEF IInv, Placed, Busy
<1>6. Counted'
  <2>1. \A u \in User : MayBeTold(u)' => MayBeTold(u)
    BY <1>1, <1>3 DEF MayBeTold, InMemory, Busy, IsEntry
  <2>2. \A u \in User : entered'[u] \in Nat /\ entered'[u] >= entered[u]
    BY <1>1 DEF IInv, Types
  <2> QED BY <1>1, <2>1, <2>2, CountedKept DEF IInv
<1> QED BY <1>1, <1>4, <1>5, <1>6 DEF IInv

\* Who comes into the top has entered it once more.
LEMMA ScoreKeeps ==
  ASSUME IInv, NEW u \in User, Score(u)
  PROVE  IInv'
<1>1. /\ UNCHANGED <<bodies, queue, memory, loop, repeats, announced>>
      /\ DOMAIN zset' = DOMAIN zset \cup {u}
      /\ \A v \in User \ {u} : owed'[v] = owed[v]
      /\ \A v \in User : /\ entered'[v] \in Nat /\ entered'[v] >= entered[v]
                         /\ v \in Top(zset') \ Top(zset) => entered'[v] > entered[v]
      /\ Types'
  BY ScoreEffect DEF IInv
<1>2. Scored'
  BY <1>1 DEF IInv, Scored
<1>3. Placed'
  BY <1>1 DEF IInv, Placed, Busy, Current
<1>4. Counted'
  <2>1. \A v \in User : MayBeTold(v)' => MayBeTold(v) \/ entered'[v] > entered[v]
    <3> SUFFICES ASSUME NEW v \in User, MayBeTold(v)' PROVE MayBeTold(v) \/ entered'[v] > entered[v]
      OBVIOUS
    <3>1. CASE v \in Top(zset') \ Top(zset)
      BY <1>1, <3>1
    <3>2. CASE v \notin Top(zset') \ Top(zset)
      BY <1>1, <3>2 DEF MayBeTold, InMemory, Current, IsEntry
    <3> QED BY <3>1, <3>2
  <2>2. repeats' \in Nat /\ repeats' >= repeats /\ \A v \in User : entered[v] \in Nat /\ repeats' = repeats
    BY <1>1 DEF IInv, Types
  <2>3. \A v \in User : MayBeTold(v)' => \/ MayBeTold(v)
                                         \/ entered'[v] + repeats' > entered[v] + repeats
    BY <1>1, <2>1, <2>2
  <2> QED BY <1>1, <2>2, <2>3, CountedKept DEF IInv
<1> QED BY <1>1, <1>2, <1>3, <1>4 DEF IInv

\* There was nothing in memory already.
LEMMA StartKeeps ==
  ASSUME IInv, Start
  PROVE  IInv'
<1>1. /\ UNCHANGED <<zset, owed, bodies, entered, repeats, announced>>
      /\ loop.at = "down" /\ loop'.at = "receiving" /\ memory' = NoMemory
      /\ Types'
  BY StartEffect DEF IInv, apiVars
<1>2. memory' = memory
  BY <1>1 DEF IInv, Placed
<1>3. Scored' /\ Placed'
  BY <1>1 DEF IInv, Scored, Placed, Busy
<1>4. Counted'
  <2>1. \A u \in User : MayBeTold(u)' => MayBeTold(u)
    BY <1>1, <1>2 DEF MayBeTold, InMemory
  <2>2. /\ repeats' \in Nat /\ repeats' >= repeats
        /\ \A u \in User : entered'[u] \in Nat /\ entered'[u] >= entered[u]
    BY <1>1 DEF IInv, Types
  <2> QED BY <1>1, <2>1, <2>2, CountedKept DEF IInv
<1> QED BY <1>1, <1>3, <1>4 DEF IInv

\* The event in the loop's hands stays the first.
LEMMA DeliverKeeps ==
  ASSUME IInv, NEW m \in DOMAIN bodies, DeliverEvent(m)
  PROVE  IInv'
<1>1. /\ UNCHANGED <<zset, owed, bodies, entered, memory, loop, repeats, announced>>
      /\ queue.unacked # <<>> => /\ queue'.unacked # <<>>
                                 /\ Head(queue'.unacked) = Head(queue.unacked)
      /\ Types'
  BY DeliverEffect DEF IInv, apiVars
<1>2. Busy => queue'.unacked # <<>> /\ Current' = Current
  BY <1>1, SameEvent DEF IInv, Placed
<1>3. Scored' /\ Placed'
  BY <1>1, <1>2 DEF IInv, Scored, Placed, Busy
<1>4. Counted'
  <2>1. \A u \in User : MayBeTold(u)' => MayBeTold(u)
    BY <1>1, <1>2 DEF MayBeTold, InMemory, Busy, IsEntry
  <2>2. /\ repeats' \in Nat /\ repeats' >= repeats
        /\ \A u \in User : entered'[u] \in Nat /\ entered'[u] >= entered[u]
    BY <1>1 DEF IInv, Types
  <2> QED BY <1>1, <2>1, <2>2, CountedKept DEF IInv
<1> QED BY <1>1, <1>3, <1>4 DEF IInv

\* The memory is lost, and one fault more allows for what is told again.
LEMMA CrashKeeps ==
  ASSUME IInv, Crash
  PROVE  IInv'
<1>1. /\ UNCHANGED <<zset, owed, bodies, entered, announced>>
      /\ loop'.at = "down" /\ memory' = NoMemory /\ repeats' = repeats + 1
      /\ Types'
  BY CrashEffect DEF IInv, apiVars
<1>2. Scored' /\ Placed'
  BY <1>1 DEF IInv, Scored, Placed, Busy
<1>3. Counted'
  <2>1. /\ repeats' \in Nat /\ repeats' >= repeats /\ repeats \in Nat
        /\ \A u \in User : /\ entered'[u] \in Nat /\ entered'[u] >= entered[u]
                           /\ entered[u] \in Nat /\ entered'[u] + repeats' > entered[u] + repeats
    BY <1>1 DEF IInv, Types
  <2> QED BY <1>1, <2>1, CountedKept DEF IInv
<1> QED BY <1>1, <1>2, <1>3 DEF IInv

\* The steps that end the handling of an event, but for Decide.
SettleStep(m) == DropMalformed(m) \/ RankFails(m) \/ PublishFails(m) \/ AckEvent(m)

\* What is settled: garbage, an event given back, one refused or one announced.
LEMMA SettleStepEffect ==
  ASSUME IInv, NEW m, SettleStep(m)
  PROVE  /\ UNCHANGED <<apiVars, memory, announced, missed>>
         /\ queue.unacked # <<>> /\ m = Head(queue.unacked)
         /\ loop'.at = "receiving" /\ repeats' \in Nat /\ repeats' >= repeats
         /\ Held(queue) \ {m} \subseteq Held(queue')
         /\ \/ DropMalformed(m) /\ bodies[m] = Garbage /\ UNCHANGED refused
            \/ RankFails(m) /\ Held(queue') = Held(queue) /\ UNCHANGED refused
            \/ PublishFails(m) /\ refused' = refused \cup {bodies[m]}
            \/ AckEvent(m) /\ loop.at = "published" /\ UNCHANGED refused
         /\ Types'
<1>1. /\ UNCHANGED <<apiVars, memory, announced, missed>>
      /\ queue.unacked # <<>> /\ m = Head(queue.unacked)
      /\ Settled(Ack(queue)) \/ Settled(Nack(queue, FALSE)) \/ Settled(Nack(queue, TRUE))
      /\ repeats' = repeats \/ repeats' = repeats + 1
      /\ \/ DropMalformed(m) /\ bodies[m] = Garbage /\ UNCHANGED refused
         \/ RankFails(m) /\ Settled(Nack(queue, TRUE)) /\ UNCHANGED refused
         \/ /\ PublishFails(m) /\ refused' = refused \cup {bodies[m]}
            /\ loop.at = "publish"
         \/ AckEvent(m) /\ loop.at = "published" /\ UNCHANGED refused
  BY DEF SettleStep, DropMalformed, RankFails, PublishFails, AckEvent, Handling, Fault
<1>2. memory' \in [User -> 0 .. Cardinality(User)]
  BY <1>1 DEF IInv, Types, TypeOK
<1>3. refused' \subseteq User
  <2>1. refused \subseteq User
    BY DEF IInv, Types, TypeOK
  <2>2. loop.at = "publish" => bodies[m] \in User
    BY <1>1, Parts DEF IInv, Placed, Busy, Current
  <2> QED BY <1>1, <2>1, <2>2
<1>4. /\ loop'.at = "receiving" /\ repeats' \in Nat /\ repeats' >= repeats
      /\ Held(queue) \ {Head(queue.unacked)} \subseteq Held(queue')
      /\ Settled(Nack(queue, TRUE)) => Held(queue') = Held(queue)
      /\ Types'
  <2>1. repeats' \in {repeats, repeats + 1}
    BY <1>1
  <2> QED BY <1>1, <1>2, <1>3, <2>1, SettleEffect DEF IInv
<1> QED BY <1>1, <1>4

\* Settling an event announces nobody.
LEMMA SettleKeeps ==
  ASSUME IInv, NEW m, SettleStep(m)
  PROVE  IInv'
<1>1. /\ UNCHANGED <<zset, owed, bodies, entered, memory, announced>>
      /\ loop'.at = "receiving" /\ repeats' \in Nat /\ repeats' >= repeats
      /\ Types'
  BY SettleStepEffect DEF apiVars
<1>2. Scored' /\ Placed'
  BY <1>1 DEF IInv, Scored, Placed, Busy
<1>3. Counted'
  <2>1. \A u \in User : MayBeTold(u)' => MayBeTold(u)
    BY <1>1 DEF MayBeTold, InMemory
  <2>2. \A u \in User : entered'[u] \in Nat /\ entered'[u] >= entered[u]
    BY <1>1 DEF IInv, Types
  <2> QED BY <1>1, <2>1, <2>2, CountedKept DEF IInv
<1> QED BY <1>1, <1>2, <1>3 DEF IInv

\* A rank in the top is read of who is in it.
LEMMA ReadRankKeeps ==
  ASSUME IInv, NEW m, ReadRank(m)
  PROVE  IInv'
<1>1. /\ UNCHANGED <<zset, owed, bodies, entered, queue, memory, repeats, announced>>
      /\ loop'.at = "ranked" /\ queue.unacked # <<>> /\ Current \in User /\ Current # Garbage
      /\ InTop(loop'.rank) <=> Current \in Top(zset)
      /\ Types'
  BY ReadRankEffect DEF IInv, apiVars
<1>2. Current' = Current
  BY <1>1 DEF Current
<1>3. Scored' /\ Placed'
  BY <1>1, <1>2 DEF IInv, Scored, Placed
<1>4. Counted'
  <2>1. \A u \in User : MayBeTold(u)' => MayBeTold(u)
    BY <1>1, <1>2 DEF MayBeTold, InMemory
  <2>2. /\ repeats' \in Nat /\ repeats' >= repeats
        /\ \A u \in User : entered'[u] \in Nat /\ entered'[u] >= entered[u]
    BY <1>1 DEF IInv, Types
  <2> QED BY <1>1, <2>1, <2>2, CountedKept DEF IInv
<1> QED BY <1>1, <1>3, <1>4 DEF IInv

\* The rank that is remembered is the one compared: what it allows was allowed before.
LEMMA DecideKeeps ==
  ASSUME IInv, NEW m, Decide(m)
  PROVE  IInv'
<1>1. /\ UNCHANGED <<zset, owed, bodies, entered, repeats, announced>>
      /\ loop.at = "ranked" /\ queue.unacked # <<>> /\ Current \in User
      /\ memory'[Current] = loop.rank /\ loop.rank # 0
      /\ \A v \in User \ {Current} : memory'[v] = memory[v]
      /\ \/ /\ UNCHANGED queue /\ loop'.at = "publish" /\ loop'.rank = loop.rank
            /\ IsEntry' <=> InTop(loop.rank) /\ ~InMemory(Current)
         \/ loop'.at = "receiving" /\ ~(InTop(loop.rank) /\ ~InMemory(Current))
      /\ Types'
  BY DecideEffect DEF IInv, apiVars
<1>2. loop'.at = "publish" => Current' = Current /\ queue' = queue
  BY <1>1 DEF Current
<1>3. Scored'
  BY <1>1 DEF IInv, Scored
<1>4. Placed'
  BY <1>1, <1>2 DEF IInv, Placed, Busy
<1>5. Counted'
  <2>1. ASSUME NEW u \in User, MayBeTold(u)' PROVE MayBeTold(u)
    <3>1. CASE u # Current
      BY <1>1, <1>2, <2>1, <3>1 DEF MayBeTold, InMemory
    <3>2. CASE u = Current
      <4>1. InMemory(u)' <=> InTop(loop.rank)
        BY <1>1, <3>2 DEF InMemory
      <4> QED BY <1>1, <2>1, <3>2, <4>1 DEF MayBeTold
    <3> QED BY <3>1, <3>2
  <2>2. /\ repeats' \in Nat /\ repeats' >= repeats
        /\ \A u \in User : entered'[u] \in Nat /\ entered'[u] >= entered[u]
    BY <1>1 DEF IInv, Types
  <2> QED BY <1>1, <2>1, <2>2, CountedKept DEF IInv
<1> QED BY <1>1, <1>3, <1>4, <1>5 DEF IInv

\* An entry is announced once for the right to it, and after a fault once more.
LEMMA NotifyKeeps ==
  ASSUME IInv, NEW m, Notify(m)
  PROVE  IInv'
<1> DEFINE c == Current
<1>1. /\ UNCHANGED <<zset, owed, bodies, entered, queue, memory>>
      /\ loop.at = "publish" /\ queue.unacked # <<>> /\ c \in User
      /\ \/ loop'.at = "published" /\ repeats' = repeats
         \/ UNCHANGED loop /\ repeats' = repeats + 1
      /\ announced'[c] = announced[c] + IF IsEntry THEN 1 ELSE 0
      /\ \A v \in User \ {c} : announced'[v] = announced[v]
      /\ Types'
  BY NotifyEffect DEF IInv, apiVars
<1>2. Current' = Current
  BY <1>1 DEF Current
<1>3. Scored' /\ Placed'
  BY <1>1, <1>2 DEF IInv, Scored, Placed, Busy
<1>4. /\ repeats \in Nat /\ repeats' \in Nat /\ repeats' >= repeats
      /\ \A u \in User : entered[u] \in Nat /\ announced[u] \in Nat /\ entered'[u] = entered[u]
  BY <1>1 DEF IInv, Types
<1>5. IsEntry => InMemory(c)
  <2>1. loop.rank \in 1 .. Cardinality(User) /\ loop.previous \in Nat /\ memory[c] = loop.rank
    BY <1>1 DEF IInv, Types, TypeOK, Placed
  <2>2. loop.rank \in Nat /\ loop.rank # 0
    BY <2>1, Limits
  <2> QED BY <2>1, <2>2, ReasonLemma DEF IsEntry, InMemory
<1>6. \A u \in User : MayBeTold(u)' => MayBeTold(u)
  BY <1>1, <1>2 DEF MayBeTold, InMemory, IsEntry
<1>7. Counted'
  <2> SUFFICES ASSUME NEW u \in User
               PROVE  /\ announced'[u] <= entered'[u] + repeats'
                      /\ MayBeTold(u)' => announced'[u] + 1 <= entered'[u] + repeats'
    BY DEF Counted
  <2>1. /\ announced[u] <= entered[u] + repeats
        /\ MayBeTold(u) => announced[u] + 1 <= entered[u] + repeats
    BY DEF IInv, Counted
  <2>2. CASE u # c \/ ~IsEntry
    <3>1. announced'[u] = announced[u]
      BY <1>1, <1>4, <2>2
    <3> QED BY <1>4, <1>6, <2>1, <3>1
  <2>3. CASE u = c /\ IsEntry
    <3>1. announced'[u] = announced[u] + 1 /\ announced[u] + 1 <= entered[u] + repeats
      BY <1>1, <2>1, <2>3 DEF MayBeTold
    <3>2. CASE loop'.at = "published" /\ repeats' = repeats
      <4>1. ~MayBeTold(u)'
        BY <1>1, <1>5, <2>3, <3>2 DEF MayBeTold, InMemory
      <4> QED BY <1>4, <3>1, <3>2, <4>1
    <3>3. CASE repeats' = repeats + 1
      BY <1>4, <3>1, <3>3
    <3> QED BY <1>1, <3>2, <3>3
  <2> QED BY <2>2, <2>3
<1> QED BY <1>1, <1>3, <1>7 DEF IInv

\* At the start nothing was announced, and who is in the top came into it once.
LEMMA Initially == Init => IInv
<1> SUFFICES ASSUME Init PROVE IInv
  OBVIOUS
<1>1. /\ zset = Board /\ bodies = <<>> /\ queue = NoQueue /\ memory = NoMemory
      /\ loop = [at |-> "down", rank |-> 0, previous |-> 0] /\ updates = 0 /\ repeats = 0
      /\ owed = [u \in User |-> 0] /\ announced = [u \in User |-> 0] /\ refused = {}
      /\ entered = [u \in User |-> IF u \in Top(Board) THEN 1 ELSE 0]
      /\ missed = [u \in User |-> IF u \in DOMAIN Board THEN "last" ELSE "never"]
  BY DEF Init, At
<1>2. Board \in Scores /\ DOMAIN Board \subseteq User
  BY ConstantsAssumption DEF Scores
<1>3. /\ bodies \in Seq(User \cup {Garbage}) /\ DOMAIN bodies = {}
      /\ queue \in Queues(DOMAIN bodies) /\ WellFormed(queue) /\ Len(queue.unacked) <= Prefetch
  <2>1. NoQueue \in Queues(DOMAIN bodies) /\ WellFormed(NoQueue)
    BY NoQueueLemma
  <2>2. Len(NoQueue.unacked) <= Prefetch
    BY Limits, EmptySeq DEF NoQueue
  <2> QED BY <1>1, <2>1, <2>2, EmptySeq
<1>4. TypeOK
  <2>1. owed \in [User -> 0 .. MaxUpdates] /\ memory \in [User -> 0 .. Cardinality(User)]
    BY <1>1, Limits DEF NoMemory
  <2> QED BY <1>1, <1>2, <1>3, <2>1 DEF TypeOK
<1>5. Types
  BY <1>1, <1>2, <1>4, Limits DEF Types
<1>6. Scored /\ Placed
  BY <1>1, <1>3 DEF Scored, Placed, Busy
<1>7. Counted
  <2> SUFFICES ASSUME NEW u \in User
               PROVE  /\ announced[u] <= entered[u] + repeats
                      /\ MayBeTold(u) => announced[u] + 1 <= entered[u] + repeats
    BY DEF Counted
  <2>1. announced[u] = 0 /\ repeats = 0 /\ entered[u] = IF u \in Top(zset) THEN 1 ELSE 0
    BY <1>1
  <2>2. MayBeTold(u) => u \in Top(zset)
    BY <1>1 DEF MayBeTold
  <2> QED BY <2>1, <2>2
<1> QED BY <1>5, <1>6, <1>7 DEF IInv

\* Every step of the specification, and a stutter.
LEMMA Inductive == IInv /\ [Next]_vars => IInv'
<1> SUFFICES ASSUME IInv, [Next]_vars PROVE IInv'
  OBVIOUS
<1>1. CASE Next
  <2>1. CASE Api
    BY <2>1, PublishStepKeeps, ScoreKeeps DEF Api, PublishStep
  <2>2. CASE Start \/ Crash
    BY <2>2, StartKeeps, CrashKeeps
  <2>3. ASSUME NEW m \in DOMAIN bodies, DeliverEvent(m) \/ Body(m) \/ Notify(m) PROVE IInv'
    BY <2>3, DeliverKeeps, SettleKeeps, ReadRankKeeps, DecideKeeps, NotifyKeeps DEF Body, SettleStep
  <2> QED BY <1>1, <2>1, <2>2, <2>3 DEF Next, Local
<1>2. CASE UNCHANGED vars
  BY <1>2 DEF vars, apiVars, IInv, Types, TypeOK, Scored, Placed, Counted, Busy, Current, MayBeTold,
              InMemory, IsEntry
<1> QED BY <1>1, <1>2

\* The inductive invariant holds of every behaviour.
LEMMA Invariant == Spec => []IInv
BY Initially, Inductive, PTL DEF Spec

-----------------------------------------------------------------------------
(* Who is in the top is announced: for scores that only grow.              *)

\* The message in the loop's hands is one the queue holds.
LEMMA InHands ==
  ASSUME IInv, Busy
  PROVE  /\ queue.unacked # <<>> /\ Head(queue.unacked) \in Held(queue)
         /\ Current = bodies[Head(queue.unacked)] /\ Current \in User
BY Parts DEF IInv, Placed, Current

\* An event that does not reach the queue is the user's last to miss it.
LEMMA PublishStepTells ==
  ASSUME IInv, Told, PublishStep
  PROVE  Told'
<1>1. /\ UNCHANGED <<zset, memory, loop, announced, refused>>
      /\ \A m \in DOMAIN bodies : m \in DOMAIN bodies' /\ bodies'[m] = bodies[m]
      /\ queue'.unacked = queue.unacked /\ Held(queue) \subseteq Held(queue')
      /\ \A u \in User : owed'[u] = owed[u] \/ missed'[u] = "last"
                           \/ \E m \in Held(queue') \ Held(queue) : bodies'[m] = u
      /\ \A u \in User : missed[u] # "last" \/ missed'[u] = "last"
                           \/ \E m \in Held(queue') \ Held(queue) : bodies'[m] = u
  BY PublishEffect DEF IInv
<1>2. Busy' <=> Busy
  BY <1>1 DEF Busy
<1>3. Busy => Current' = Current
  BY <1>1, SameEvent DEF IInv, Placed
<1>4. \A u \in User : Announcing(u)' <=> Announcing(u)
  BY <1>1, <1>3 DEF Announcing, Busy, InMemory, IsEntry
<1>5. ASSUME NEW u \in User, NEW m \in Held(queue') \ Held(queue), bodies'[m] = u
      PROVE  Pending(u)'
  <2>1. ~(Busy /\ m = Head(queue.unacked))
    BY <1>5, InHands
  <2> QED BY <1>1, <1>2, <1>5, <2>1 DEF Pending
<1>6. ASSUME NEW u \in User, missed'[u] # "last", Pending(u)
      PROVE  Pending(u)'
  <2>1. CASE owed[u] > 0
    BY <1>1, <1>5, <1>6, <2>1 DEF Pending
  <2>2. CASE \E m \in Held(queue) : bodies[m] = u /\ ~(Busy /\ m = Head(queue.unacked))
    <3>1. PICK m \in Held(queue) : bodies[m] = u /\ ~(Busy /\ m = Head(queue.unacked))
      BY <2>2
    <3>2. m \in DOMAIN bodies
      BY Parts DEF IInv
    <3>3. m \in Held(queue') /\ bodies'[m] = u /\ ~(Busy' /\ m = Head(queue'.unacked))
      BY <1>1, <1>2, <3>1, <3>2
    <3> QED BY <3>3 DEF Pending
  <2> QED BY <1>6, <2>1, <2>2 DEF Pending
<1>7. ASSUME NEW u \in User \ refused
      PROVE  /\ u \in Top(zset) /\ missed'[u] # "last" =>
                  announced[u] > 0 \/ Pending(u)' \/ Announcing(u)'
             /\ InMemory(u) => announced[u] > 0 \/ Announcing(u)'
  <2>1. missed'[u] # "last" => missed[u] # "last" \/ Pending(u)'
    BY <1>1, <1>5
  <2> QED BY <1>4, <1>6, <2>1 DEF Told
<1>8. \A u \in User : InMemory(u)' <=> InMemory(u)
  BY <1>1 DEF InMemory
<1> QED BY <1>1, <1>7, <1>8 DEF Told

\* Who comes into the top by an update has an event to come.
LEMMA ScoreTells ==
  ASSUME IInv, Told, Deltas \subseteq Nat, NEW u \in User, Score(u)
  PROVE  Told'
<1>1. /\ UNCHANGED <<bodies, queue, memory, loop, repeats, announced, missed, refused>>
      /\ owed'[u] > 0 /\ \A v \in User \ {u} : owed'[v] = owed[v]
      /\ Top(zset') \ {u} \subseteq Top(zset)
  BY ScoreEffect DEF IInv
<1>2. \A v \in User : /\ Announcing(v)' <=> Announcing(v)
                      /\ InMemory(v)' <=> InMemory(v)
                      /\ Pending(v) => Pending(v)'
  BY <1>1 DEF Announcing, InMemory, Pending, Current, IsEntry, Busy
<1>3. Pending(u)'
  BY <1>1 DEF Pending
<1> QED BY <1>1, <1>2, <1>3 DEF Told

\* Nothing is lost of what waits when the process starts or is pushed a message.
LEMMA StartOrDeliverTells ==
  ASSUME IInv, Told, Start \/ \E m \in DOMAIN bodies : DeliverEvent(m)
  PROVE  Told'
<1>1. /\ UNCHANGED <<zset, owed, bodies, announced, missed, refused>>
      /\ Held(queue') = Held(queue)
  BY StartEffect, DeliverEffect DEF IInv, apiVars
<1>2. \A u \in User : InMemory(u)' <=> InMemory(u)
  <2>1. memory' = memory
    BY StartEffect, DeliverEffect DEF IInv, Placed
  <2> QED BY <2>1 DEF InMemory
<1>3. /\ Busy' <=> Busy
      /\ Busy => UNCHANGED loop /\ Head(queue'.unacked) = Head(queue.unacked)
      /\ loop'.at = loop.at \/ (~Busy /\ ~Busy')
  BY InHands, StartEffect, DeliverEffect DEF IInv, Busy
<1>4. Busy => Current' = Current
  BY <1>1, <1>3 DEF Current
<1>5. \A u \in User : Announcing(u)' <=> Announcing(u)
  <2>1. CASE Busy
    BY <1>2, <1>3, <1>4, <2>1 DEF Announcing, IsEntry
  <2>2. CASE ~Busy
    BY <1>3, <2>2 DEF Announcing, Busy
  <2> QED BY <2>1, <2>2
<1>6. \A u \in User : Pending(u)' <=> Pending(u)
  BY <1>1, <1>3 DEF Pending
<1> QED BY <1>1, <1>2, <1>5, <1>6 DEF Told

\* The memory is gone, and the event in the loop's hands waits again.
LEMMA CrashTells ==
  ASSUME IInv, Told, Crash
  PROVE  Told'
<1>1. /\ UNCHANGED <<zset, owed, bodies, announced, missed, refused>>
      /\ loop'.at = "down" /\ memory' = NoMemory /\ Held(queue') = Held(queue)
  BY CrashEffect DEF IInv, apiVars
<1>2. ~Busy' /\ \A u \in User : ~InMemory(u)'
  BY <1>1 DEF Busy, InMemory, NoMemory
<1>3. \A u \in User : Pending(u) => Pending(u)'
  BY <1>1, <1>2 DEF Pending
<1>4. ASSUME NEW u \in User, Announcing(u) PROVE Pending(u)'
  <2>1. Busy /\ Current = u
    BY <1>4 DEF Announcing, Busy
  <2>2. Head(queue.unacked) \in Held(queue') /\ bodies'[Head(queue.unacked)] = u
    BY <1>1, <2>1, InHands
  <2> QED BY <1>2, <2>2 DEF Pending
<1> QED BY <1>1, <1>2, <1>3, <1>4 DEF Told

\* An event that is settled was announced, refused, or says nothing; others wait on.
LEMMA SettleTells ==
  ASSUME IInv, Told, NEW m, SettleStep(m)
  PROVE  Told'
<1>1. /\ UNCHANGED <<zset, owed, bodies, memory, announced, missed>>
      /\ queue.unacked # <<>> /\ m = Head(queue.unacked) /\ loop'.at = "receiving"
      /\ Held(queue) \ {m} \subseteq Held(queue') /\ refused \subseteq refused'
      /\ \/ DropMalformed(m) /\ bodies[m] = Garbage
         \/ RankFails(m) /\ Held(queue') = Held(queue)
         \/ PublishFails(m) /\ refused' = refused \cup {bodies[m]}
         \/ AckEvent(m) /\ loop.at = "published"
  BY SettleStepEffect DEF apiVars
<1>2. ~Busy' /\ (\A u : ~Announcing(u)') /\ \A u \in User : InMemory(u)' <=> InMemory(u)
  BY <1>1 DEF Busy, Announcing, InMemory
<1>3. ASSUME NEW u \in User, Pending(u) PROVE Pending(u)'
  <2>1. CASE owed[u] > 0
    BY <1>1, <2>1 DEF Pending
  <2>2. CASE \E k \in Held(queue) : bodies[k] = u /\ ~(Busy /\ k = m)
    <3>1. PICK k \in Held(queue) : bodies[k] = u /\ ~(Busy /\ k = m)
      BY <2>2
    <3>2. k \in Held(queue')
      <4>1. CASE Busy
        BY <1>1, <3>1, <4>1
      <4>2. CASE bodies[m] = Garbage
        BY <1>1, <3>1, <4>2, Limits
      <4>3. CASE Held(queue') = Held(queue)
        BY <4>3
      <4>4. PublishFails(m) \/ AckEvent(m) => Busy
        BY DEF PublishFails, AckEvent, Handling, Busy
      <4> QED BY <1>1, <4>1, <4>2, <4>3, <4>4
    <3> QED BY <1>1, <1>2, <3>1, <3>2 DEF Pending
  <2> QED BY <1>1, <1>3, <2>1, <2>2 DEF Pending
<1>4. ASSUME NEW u \in User \ refused', Announcing(u)
      PROVE  Pending(u)' /\ ~InMemory(u)
  <2>1. Busy /\ Current = u /\ u \in User
    BY <1>4 DEF Announcing, Busy
  <2>2. m \in Held(queue) /\ bodies[m] = u
    BY <1>1, <2>1, InHands
  <2>3. ~DropMalformed(m) /\ ~AckEvent(m) /\ ~PublishFails(m)
    <3>1. u \notin refused'
      BY <1>4
    <3>2. ~DropMalformed(m) /\ ~AckEvent(m)
      BY <1>4, <2>1, <2>2, Limits DEF DropMalformed, AckEvent, Handling, Announcing
    <3>3. PublishFails(m) => bodies[m] \in refused'
      BY DEF PublishFails
    <3> QED BY <2>2, <3>1, <3>2, <3>3
  <2>4. loop.at = "ranked" /\ Held(queue') = Held(queue)
    BY <1>1, <1>4, <2>3 DEF RankFails, Handling, Announcing
  <2>5. ~InMemory(u)
    BY <1>4, <2>4 DEF Announcing
  <2> QED BY <1>1, <1>2, <2>2, <2>4, <2>5 DEF Pending
<1> QED BY <1>1, <1>2, <1>3, <1>4 DEF Told

\* Who is in the top by now is found there, and is remembered to be or is announced.
LEMMA ReadRankTells ==
  ASSUME IInv, Told, NEW m, ReadRank(m)
  PROVE  Told'
<1>1. /\ UNCHANGED <<zset, owed, bodies, queue, memory, announced, missed, refused>>
      /\ loop.at = "receiving" /\ loop'.at = "ranked" /\ Current \in User
      /\ InTop(loop'.rank) <=> Current \in Top(zset)
  BY ReadRankEffect DEF IInv, apiVars
<1>2. Current' = Current /\ Busy' /\ ~Busy
  BY <1>1 DEF Current, Busy
<1>3. \A u \in User : /\ ~Announcing(u)
                      /\ InMemory(u)' <=> InMemory(u)
                      /\ Announcing(u)' <=> u = Current /\ u \in Top(zset) /\ ~InMemory(u)
  BY <1>1, <1>2 DEF Announcing, InMemory
<1>4. \A u \in User : u # Current /\ Pending(u) => Pending(u)'
  <2>1. Current = bodies[Head(queue.unacked)]
    BY DEF Current
  <2> QED BY <1>1, <1>2, <2>1 DEF Pending
<1> QED BY <1>1, <1>3, <1>4 DEF Told

\* An entry that was found is kept for the publish.
LEMMA DecideTells ==
  ASSUME IInv, Told, NEW m, Decide(m)
  PROVE  Told'
<1>1. /\ UNCHANGED <<zset, owed, bodies, announced, missed, refused>>
      /\ loop.at = "ranked" /\ Current \in User
      /\ memory'[Current] = loop.rank /\ loop.rank # 0
      /\ \A v \in User \ {Current} : memory'[v] = memory[v]
      /\ \/ /\ UNCHANGED queue /\ loop'.at = "publish" /\ loop'.rank = loop.rank
            /\ IsEntry' <=> InTop(loop.rank) /\ ~InMemory(Current)
         \/ /\ loop'.at = "receiving" /\ ~(InTop(loop.rank) /\ ~InMemory(Current))
            /\ Held(queue) \ {Head(queue.unacked)} \subseteq Held(queue')
  BY DecideEffect DEF IInv, apiVars
<1>2. Busy /\ (loop'.at = "publish" => Current' = Current /\ queue' = queue)
  BY <1>1 DEF Current, Busy
<1>3. ASSUME NEW u \in User, Pending(u) PROVE Pending(u)'
  <2>1. CASE owed[u] > 0
    BY <1>1, <2>1 DEF Pending
  <2>2. CASE \E k \in Held(queue) : bodies[k] = u /\ ~(Busy /\ k = Head(queue.unacked))
    <3>1. PICK k \in Held(queue) : bodies[k] = u /\ k # Head(queue.unacked)
      BY <1>2, <2>2
    <3>2. k \in Held(queue') /\ bodies'[k] = u /\ ~(Busy' /\ k = Head(queue'.unacked))
      BY <1>1, <3>1 DEF Busy
    <3> QED BY <3>2 DEF Pending
  <2> QED BY <1>3, <2>1, <2>2 DEF Pending
<1>4. \A u \in User : Announcing(u) <=> u = Current /\ InTop(loop.rank) /\ ~InMemory(u)
  BY <1>1 DEF Announcing
<1>5. \A u \in User : Announcing(u)' <=> Announcing(u)
  BY <1>1, <1>2, <1>4 DEF Announcing
<1>6. \A u \in User : InMemory(u)' <=> IF u = Current THEN InTop(loop.rank) ELSE InMemory(u)
  BY <1>1 DEF InMemory
<1> QED BY <1>1, <1>3, <1>4, <1>5, <1>6 DEF Told

\* What was found is announced.
LEMMA NotifyTells ==
  ASSUME IInv, Told, NEW m, Notify(m)
  PROVE  Told'
<1> DEFINE c == Current
<1>1. /\ UNCHANGED <<zset, owed, bodies, queue, memory, missed, refused>>
      /\ loop.at = "publish" /\ c \in User /\ loop'.at \in {"publish", "published"}
      /\ announced'[c] = announced[c] + IF IsEntry THEN 1 ELSE 0
      /\ \A v \in User \ {c} : announced'[v] = announced[v]
  BY NotifyEffect DEF IInv, apiVars
<1>2. Busy /\ Busy'
  BY <1>1 DEF Busy
<1>3. \A u \in User : announced[u] \in Nat
  BY DEF IInv, Types
<1>4. \A u \in User : (announced[u] > 0 => announced'[u] > 0) /\ (Announcing(u) => announced'[u] > 0)
  BY <1>1, <1>3 DEF Announcing
<1>5. \A u \in User : /\ InMemory(u)' <=> InMemory(u)
                      /\ Pending(u) => Pending(u)'
  BY <1>1, <1>2 DEF InMemory, Pending
<1> QED BY <1>1, <1>4, <1>5 DEF Told

\* The second invariant, on top of the first.
LEMMA Tells ==
  ASSUME Deltas \subseteq Nat
  PROVE  Spec => []Told
<1>1. Init => Told
  <2> SUFFICES ASSUME Init PROVE Told
    OBVIOUS
  <2>1. Top(zset) \subseteq DOMAIN Board
    BY DEF Init, Top
  <2>2. \A u \in User : ~InMemory(u) /\ (u \in DOMAIN Board => missed[u] = "last")
    BY DEF Init, NoMemory, InMemory
  <2> QED BY <2>1, <2>2 DEF Told
<1>2. IInv /\ Told /\ [Next]_vars => Told'
  <2> SUFFICES ASSUME IInv, Told, [Next]_vars PROVE Told'
    OBVIOUS
  <2>1. CASE Next
    <3>1. CASE Api
      BY <3>1, PublishStepTells, ScoreTells DEF Api, PublishStep
    <3>2. CASE Start \/ Crash
      BY <3>2, StartOrDeliverTells, CrashTells
    <3>3. ASSUME NEW m \in DOMAIN bodies, DeliverEvent(m) \/ Body(m) \/ Notify(m) PROVE Told'
      BY <3>3, StartOrDeliverTells, SettleTells, ReadRankTells, DecideTells, NotifyTells
         DEF Body, SettleStep
    <3> QED BY <2>1, <3>1, <3>2, <3>3 DEF Next, Local
  <2>2. CASE UNCHANGED vars
    BY <2>2 DEF vars, apiVars, Told, Pending, Announcing, InMemory, Busy, Current, IsEntry
  <2> QED BY <2>1, <2>2
<1> QED BY <1>1, <1>2, Invariant, PTL DEF Spec

-----------------------------------------------------------------------------
(* What holds always.                                                      *)

(* Types hold, notifier-queue is a queue, prefetch is kept, and only a rank *)
(* that was read is compared, remembered or published.                     *)
THEOREM TypeCorrect == Spec => []TypeOK
BY Invariant, PTL DEF IInv, Types

(* handleEvent tells a user to be in the top at most as often as it came   *)
(* into it, but for one repetition per crash or repeated publish: whatever *)
(* order events come in and however stale the rank it compares is.         *)
THEOREM EntriesAreTrue == Spec => []NoFalseEntry
<1>1. IInv => NoFalseEntry
  BY DEF IInv, Counted, NoFalseEntry
<1> QED BY <1>1, Invariant, PTL

(* When scores only grow, nobody in the top stays unannounced once its     *)
(* events are handled: remembering the rank before the publish loses       *)
(* nothing but what Redis refuses.                                         *)
THEOREM TopGetsAnnounced ==
  ASSUME Deltas \subseteq Nat
  PROVE  Spec => []TopIsAnnounced
<1>1. IInv /\ Told => TopIsAnnounced
  <2> SUFFICES ASSUME IInv, Told, Drained, NEW u \in Top(zset) \ refused
               PROVE  missed[u] = "last" \/ announced[u] > 0
    BY DEF TopIsAnnounced
  <2>1. u \in User
    BY Parts DEF IInv, Top
  <2>2. ~Pending(u) /\ ~Announcing(u)
    <3>1. owed[u] = 0 /\ loop.at = "receiving" /\ \A m \in Held(queue) : bodies[m] # u
      BY <2>1, Limits DEF Drained
    <3> QED BY <3>1 DEF Pending, Announcing
  <2> QED BY <2>1, <2>2 DEF Told
<1> QED BY <1>1, Invariant, Tells, PTL
=============================================================================
