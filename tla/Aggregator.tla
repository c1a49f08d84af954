----------------------------- MODULE Aggregator -----------------------------
(***************************************************************************)
(* cmd/aggregator for one leaderboard (one comboKey; the combos share      *)
(* nothing).  A consumer goroutine notes which regions are active, and on  *)
(* a ticker runCycle reads each noted region's ZSET, merges them, and      *)
(* replaces the global ZSET with a pipeline that is not a transaction.     *)
(* cmd/api is reduced to its effects: it adds to a region's ZSET and then  *)
(* publishes an event, or fails to.                                        *)
(***************************************************************************)
EXTENDS Rabbit, Zset

CONSTANTS
  User,       \* user ids, numbers as in Redis member strings of one length
  Region,
  Garbage,    \* stands for the region of a body that is not JSON
  PerRegionN, GlobalTopN,  \* 50 and 50 in the code
  Prefetch,   \* consumePref, 10 in the code
  Deltas,     \* score_delta: any number but zero
  MaxUpdates, \* bound: score updates, and messages that are no events
  MaxFaults   \* bound: lost publishes, failed Redis calls, lost connections, crashes

ASSUME ConstantsAssumption ==
  /\ User \subseteq Nat /\ IsFiniteSet(User)
  /\ Region # {} /\ IsFiniteSet(Region) /\ Garbage \notin Region
  /\ GlobalTopN \in Nat \ {0} /\ PerRegionN \in Nat /\ PerRegionN >= GlobalTopN
  /\ Prefetch \in Nat \ {0}
  /\ Deltas \subseteq Int \ {0}
  /\ {MaxUpdates, MaxFaults} \subseteq Nat

VARIABLES
  zset,       \* the regional ZSETs
  global,     \* the global ZSET
  owed,       \* per region: updates that are scored and not yet published
  bodies,     \* the region in message m, for the messages published
  queue,      \* aggregator-queue
  up,         \* the process runs
  consuming,  \* its delivery channel is open
  tracker,    \* activityTracker: the regions of this combo
  cycle,      \* runCycle: where it is, the regions left to read, the merge, the ranking;
              \* history: seen, each region as it was when it was read, and had, the
              \* scores of each user in any region since the cycle began
  updates, faults

vars == <<zset, global, owed, bodies, queue, up, consuming, tracker, cycle, updates, faults>>

NoScores == [g \in Region |-> NoMembers]
Idle == [at |-> "idle", left |-> {}, merged |-> NoMembers, ranked |-> NoMembers,
         seen |-> NoScores, had |-> [u \in User |-> {}]]

Init ==
  /\ zset = NoScores
  /\ global = NoMembers
  /\ owed = [g \in Region |-> 0]
  /\ bodies = <<>>
  /\ queue = NoQueue
  /\ up = FALSE /\ consuming = FALSE
  /\ tracker = {}
  /\ cycle = Idle
  /\ updates = 0 /\ faults = 0

Fault == faults < MaxFaults /\ faults' = faults + 1

-----------------------------------------------------------------------------
(* ZSETs.                                                                  *)

\* The members ZREVRANGE 0 n-1 returns.
Leaders(z, n) == {u \in DOMAIN z : RevRank(z, u) < n}

\* A bug: the cut is missing, everyone is written.
RankingsUncut(z, n) == {z}

\* z in descending order cut after n entries; sort.Slice may leave equal scores in
\* any order.
Rankings(z, n) ==
  {[u \in S |-> z[u]] : S \in
     {T \in SUBSET DOMAIN z :
        /\ Cardinality(T) = IF Cardinality(DOMAIN z) < n THEN Cardinality(DOMAIN z) ELSE n
        /\ \A u \in T, v \in DOMAIN z \ T : z[u] >= z[v]}}

\* A user's scores in the regions that have the user.
ScoresOf(zsets, u) == {zsets[g][u] : g \in {h \in Region : u \in DOMAIN zsets[h]}}

-----------------------------------------------------------------------------
(* cmd/api.                                                                *)

Score(g, u) ==
  /\ updates < MaxUpdates
  /\ updates' = updates + 1
  /\ \E d \in Deltas : zset' = [zset EXCEPT ![g] = ZIncrBy(@, u, d)]
  /\ owed' = [owed EXCEPT ![g] = @ + 1]
  /\ cycle' = IF cycle.at = "idle" THEN cycle
              ELSE [cycle EXCEPT !.had[u] = @ \cup {zset'[g][u]}]
  /\ UNCHANGED <<global, bodies, queue, up, consuming, tracker, faults>>

PublishEvent(g) ==
  /\ owed[g] > 0
  /\ owed' = [owed EXCEPT ![g] = @ - 1]
  /\ bodies' = Append(bodies, g)
  /\ queue' = Publish(queue, Len(bodies) + 1)
  /\ UNCHANGED <<zset, global, up, consuming, tracker, cycle, updates, faults>>

LosePublish(g) ==
  /\ owed[g] > 0
  /\ Fault
  /\ owed' = [owed EXCEPT ![g] = @ - 1]
  /\ UNCHANGED <<zset, global, bodies, queue, up, consuming, tracker, cycle, updates>>

\* Something else on the exchange.
PublishGarbage ==
  /\ updates < MaxUpdates /\ updates' = updates + 1
  /\ bodies' = Append(bodies, Garbage)
  /\ queue' = Publish(queue, Len(bodies) + 1)
  /\ UNCHANGED <<zset, global, owed, up, consuming, tracker, cycle, faults>>

-----------------------------------------------------------------------------
(* main and the consumer goroutine.                                        *)

Start ==
  /\ ~up
  /\ up' = TRUE /\ consuming' = TRUE
  /\ tracker' = {} /\ cycle' = Idle
  /\ queue' = DeclareAndBindQueue(queue)
  /\ UNCHANGED <<zset, global, owed, bodies, updates, faults>>

DeliverEvent(m) ==
  /\ consuming
  /\ CanDeliver(queue, m, Prefetch)
  /\ queue' = Deliver(queue, m)
  /\ UNCHANGED <<zset, global, owed, bodies, up, consuming, tracker, cycle, updates, faults>>

Handling(m) == consuming /\ queue.unacked # <<>> /\ m = Head(queue.unacked)

DropMalformed(m) ==
  /\ Handling(m)
  /\ bodies[m] = Garbage
  /\ queue' = Nack(queue, FALSE)
  /\ UNCHANGED <<zset, global, owed, bodies, up, consuming, tracker, cycle, updates, faults>>

\* markActive, then Ack: the tracker dies with the process, so no crash between
\* the two differs from one before or after both.
MarkActive(m) ==
  /\ Handling(m)
  /\ bodies[m] # Garbage
  /\ tracker' = tracker \cup {bodies[m]}
  /\ queue' = Ack(queue)
  /\ UNCHANGED <<zset, global, owed, bodies, up, consuming, cycle, updates, faults>>

\* The connection to RabbitMQ closes: the goroutine ends, main goes on ticking.
ConsumerLost ==
  /\ consuming
  /\ Fault
  /\ consuming' = FALSE
  /\ queue' = ConsumerGone(queue)
  /\ UNCHANGED <<zset, global, owed, bodies, up, tracker, cycle, updates>>

Crash ==
  /\ up
  /\ Fault
  /\ up' = FALSE /\ consuming' = FALSE
  /\ tracker' = {} /\ cycle' = Idle
  /\ queue' = ConsumerGone(queue)
  /\ UNCHANGED <<zset, global, owed, bodies, updates>>

-----------------------------------------------------------------------------
(* runCycle.                                                               *)

InCycle == UNCHANGED <<zset, owed, bodies, queue, up, consuming, tracker, updates>>

\* The ticker fires, and the snapshot of the tracker has this combo.
Tick ==
  /\ up /\ cycle.at = "idle" /\ tracker # {}
  /\ cycle' = [Idle EXCEPT !.at = "read", !.left = tracker,
                             !.had = [u \in User |-> ScoresOf(zset, u)]]
  /\ InCycle /\ UNCHANGED <<global, faults>>

\* A bug: the scores of a user are added up.
MergeSum(merged, g) ==
  LET read == Leaders(zset[g], PerRegionN)
  IN  [u \in DOMAIN merged \cup read |->
         (IF u \in DOMAIN merged THEN merged[u] ELSE 0) + (IF u \in read THEN zset[g][u] ELSE 0)]

\* A bug: a user whom the merge does not have yet counts as one with zero points.
MergePositive(merged, g) ==
  LET higher == {u \in Leaders(zset[g], PerRegionN) :
                   zset[g][u] > IF u \in DOMAIN merged THEN merged[u] ELSE 0}
  IN  [u \in DOMAIN merged \cup higher |-> IF u \in higher THEN zset[g][u] ELSE merged[u]]

\* A bug: the regional lists are one shorter than the global one.
MergeShort(merged, g) ==
  LET higher == {u \in Leaders(zset[g], GlobalTopN - 1) :
                   u \in DOMAIN merged => zset[g][u] > merged[u]}
  IN  [u \in DOMAIN merged \cup higher |-> IF u \in higher THEN zset[g][u] ELSE merged[u]]

\* Of a user's scores in several regions the highest counts.
Merge(merged, g) ==
  LET higher == {u \in Leaders(zset[g], PerRegionN) :
                   u \in DOMAIN merged => zset[g][u] > merged[u]}
  IN  [u \in DOMAIN merged \cup higher |-> IF u \in higher THEN zset[g][u] ELSE merged[u]]

ReadRegion(g) ==
  /\ cycle.at = "read" /\ g \in cycle.left
  /\ cycle' = [cycle EXCEPT !.left = @ \ {g}, !.merged = Merge(@, g), !.seen[g] = zset[g]]
  /\ InCycle /\ UNCHANGED <<global, faults>>

\* TopN fails: the region is missing from this cycle's merge.
ReadFails(g) ==
  /\ cycle.at = "read" /\ g \in cycle.left
  /\ Fault
  /\ cycle' = [cycle EXCEPT !.left = @ \ {g}]
  /\ InCycle /\ UNCHANGED global

\* ReplaceZSet, first command; the ranking it will add is fixed by now.
Del ==
  /\ cycle.at = "read" /\ cycle.left = {}
  /\ \E r \in Rankings(cycle.merged, GlobalTopN) :
       cycle' = [cycle EXCEPT !.at = "zadd", !.merged = NoMembers, !.ranked = r]
  /\ global' = NoMembers
  /\ InCycle /\ UNCHANGED faults

\* ReplaceZSet, second command (none if there is nothing to add).
ZAdd ==
  /\ cycle.at = "zadd"
  /\ global' = cycle.ranked
  /\ cycle' = Idle
  /\ InCycle /\ UNCHANGED faults

\* Exec fails before or between the commands: logged, and left to the next tick.
ReplaceFails ==
  /\ cycle.at = "zadd" \/ (cycle.at = "read" /\ cycle.left = {})
  /\ Fault
  /\ cycle' = Idle
  /\ InCycle /\ UNCHANGED global

-----------------------------------------------------------------------------
Next ==
  \/ \E g \in Region, u \in User : Score(g, u)
  \/ \E g \in Region : PublishEvent(g) \/ LosePublish(g) \/ ReadRegion(g) \/ ReadFails(g)
  \/ PublishGarbage
  \/ Start \/ ConsumerLost \/ Crash
  \/ \E m \in DOMAIN bodies : DeliverEvent(m) \/ DropMalformed(m) \/ MarkActive(m)
  \/ Tick \/ Del \/ ZAdd \/ ReplaceFails

Spec == Init /\ [][Next]_vars

\* The api publishes or fails to, the two goroutines run, the ticker ticks;
\* nobody restarts the process.
Fairness ==
  /\ WF_vars(\E g \in Region : PublishEvent(g))
  /\ WF_vars(\E m \in DOMAIN bodies : DeliverEvent(m))
  /\ WF_vars(\E m \in DOMAIN bodies : DropMalformed(m) \/ MarkActive(m))
  /\ WF_vars(Tick \/ (\E g \in Region : ReadRegion(g)) \/ Del \/ ZAdd)

LiveSpec == Spec /\ Fairness

-----------------------------------------------------------------------------
(* Properties.                                                             *)

\* A ZSET of users.
IsBoard(z) == DOMAIN z \subseteq User /\ z \in [DOMAIN z -> Int]

(* Types, the broker's queue, the size of the global ZSET, and: a cycle    *)
(* and a consumer exist only while the process runs.                       *)
TypeOK ==
  /\ DOMAIN zset = Region /\ \A g \in Region : IsBoard(zset[g])
  /\ IsBoard(global) /\ Cardinality(DOMAIN global) <= GlobalTopN
  /\ bodies \in Seq(Region \cup {Garbage})
  /\ queue \in Queues(DOMAIN bodies) /\ WellFormed(queue) /\ Len(queue.unacked) <= Prefetch
  /\ tracker \subseteq Region /\ cycle.left \subseteq Region
  /\ cycle.at \in {"idle", "read", "zadd"}
  /\ ~up => ~consuming /\ tracker = {} /\ cycle = Idle

\* Each user's best score over the regions.
BestOf(zsets) ==
  [u \in UNION {DOMAIN zsets[g] : g \in Region} |->
     CHOOSE s \in ScoresOf(zsets, u) : \A t \in ScoresOf(zsets, u) : t <= s]

(* Whatever rises, falls or fails while runCycle reads region after region, *)
(* a score that it writes to the global leaderboard is one the user had in *)
(* some region since the cycle began: no sum of regions, no score of       *)
(* before.                                                                 *)
NeverInvents ==
  [][\A u \in DOMAIN global' : global' # global => global'[u] \in cycle.had[u]]_vars

(* What a cycle is about to write is the exact top of the regions as it    *)
(* read them (one it could not read counts as empty), although it asked    *)
(* each for no more than perRegionN entries.                               *)
MergeExact == cycle.at = "zadd" => cycle.ranked \in Rankings(BestOf(cycle.seen), GlobalTopN)

\* The global ZSET is the top of all regions (equal scores in some order).
Exact == global \in Rankings(BestOf(zset), GlobalTopN)

\* The tracker knows each region that has scores.
AllTracked == \A g \in Region : zset[g] # NoMembers => g \in tracker

(* Once the tracker knows the active regions for good, the cycles bring    *)
(* the global leaderboard to the exact top of all regions, although each   *)
(* region contributes only its first perRegionN entries.                   *)
Converges ==
  <>[](up /\ AllTracked) => <>[](cycle.at # "zadd" => Exact)

(* "the merge is always correct even if a message was missed": all it      *)
(* should take is that the process runs.                                   *)
CorrectEvenIfMissed ==
  <>[]up => <>[](cycle.at # "zadd" => Exact)
=============================================================================
