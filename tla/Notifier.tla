------------------------------ MODULE Notifier ------------------------------
(***************************************************************************)
(* cmd/notifier for one leaderboard (a region and a period; leaderboards   *)
(* share nothing, the memory is keyed by them).  For each event the loop   *)
(* reads the user's rank as it is by then, compares it with the rank it    *)
(* remembers, remembers the new one, and only then publishes.  cmd/api is  *)
(* reduced to its effects: it scores and then publishes an event, or fails *)
(* to.  A member never leaves a regional ZSET, so the rank read of a user  *)
(* with an event always finds it.                                          *)
(***************************************************************************)
EXTENDS Rabbit, Zset

CONSTANTS
  User,
  Garbage,            \* stands for the user of a body that is not JSON
  Board,              \* the regional ZSET when notifier-queue is first bound
  Deltas,             \* bound: the score deltas clients send
  TopNThreshold,      \* 10 in the code
  RankCrossThreshold, \* 3 unless configured
  Prefetch,           \* consumePref, 10 in the code
  MaxUpdates,         \* bound: score updates
  MaxGarbage,         \* bound: messages that are not events
  MaxFaults           \* bound: lost publishes, failed Redis calls, crashes

ASSUME ConstantsAssumption ==
  /\ User \subseteq Nat /\ IsFiniteSet(User) /\ Garbage \notin User
  /\ DOMAIN Board \subseteq User /\ Board \in [DOMAIN Board -> Int]
  /\ Deltas \subseteq Int
  /\ {TopNThreshold, RankCrossThreshold, MaxUpdates, MaxGarbage, MaxFaults} \subseteq Nat
  /\ Prefetch \in Nat \ {0}

VARIABLES
  zset,      \* the regional ZSET
  owed,      \* per user: updates that are scored and not yet published
  bodies,    \* the user in message m, for the messages published
  queue,     \* notifier-queue
  memory,    \* rankMemory; 0: unknown
  loop,      \* the loop of main: where it is, the rank it read, the previous one
  updates, faults,
  repeats,   \* history: faults after which an announcement may come once more
  entered,   \* history: how often a user came into the top
  announced, \* history: how often that was published ("top10")
  fresh,     \* history: users who came into the top and were not announced since
  missed,    \* history: per user, did an event miss notifier-queue: its last one?
  refused    \* history: users one of whose notifications Redis refused

apiVars == <<zset, owed, bodies, updates, entered>>
vars == <<apiVars, queue, memory, loop, faults, repeats, announced, fresh, missed, refused>>

NoMemory == [u \in User |-> 0]
At(place) == [at |-> place, rank |-> 0, previous |-> 0]

InTop(rank) == rank <= TopNThreshold

Top(z) == {u \in DOMAIN z : InTop(RevRank(z, u) + 1)}

Init ==
  /\ zset = Board
  /\ owed = [u \in User |-> 0]
  /\ bodies = <<>>
  /\ queue = NoQueue
  /\ memory = NoMemory
  /\ loop = At("down")
  /\ updates = 0 /\ faults = 0 /\ repeats = 0
  /\ entered = [u \in User |-> IF u \in Top(Board) THEN 1 ELSE 0]
  /\ announced = [u \in User |-> 0]
  /\ fresh = Top(Board)
  /\ missed = [u \in User |-> IF u \in DOMAIN Board THEN "last" ELSE "never"]
  /\ refused = {}

Fault == faults < MaxFaults /\ faults' = faults + 1

Misses(u) == missed' = [missed EXCEPT ![u] = "last"]
Reaches(u) == missed' = [missed EXCEPT ![u] = IF @ = "last" THEN "earlier" ELSE @]

-----------------------------------------------------------------------------
(* cmd/api, and other publishers.                                          *)

Entrants == Top(zset') \ Top(zset)

Score(u) ==
  /\ updates < MaxUpdates
  /\ updates' = updates + 1
  /\ \E d \in Deltas : zset' = ZIncrBy(zset, u, d)
  /\ entered' = [v \in User |-> entered[v] + IF v \in Entrants THEN 1 ELSE 0]
  /\ fresh' = fresh \cup Entrants
  /\ owed' = [owed EXCEPT ![u] = @ + 1]
  /\ UNCHANGED <<bodies, queue, memory, loop, faults, repeats, announced, missed, refused>>

PublishEvent(u) ==
  /\ owed[u] > 0
  /\ owed' = [owed EXCEPT ![u] = @ - 1]
  /\ bodies' = Append(bodies, u)
  /\ queue' = Publish(queue, Len(bodies'))
  /\ IF queue.bound THEN Reaches(u) ELSE Misses(u)
  /\ UNCHANGED <<zset, memory, loop, updates, faults, repeats, entered, announced, fresh, refused>>

LosePublish(u) ==
  /\ owed[u] > 0
  /\ Fault
  /\ owed' = [owed EXCEPT ![u] = @ - 1]
  /\ Misses(u)
  /\ UNCHANGED <<zset, bodies, queue, memory, loop, updates, repeats, entered, announced, fresh, refused>>

PublishGarbage ==
  /\ Cardinality({m \in DOMAIN bodies : bodies[m] = Garbage}) < MaxGarbage
  /\ bodies' = Append(bodies, Garbage)
  /\ queue' = Publish(queue, Len(bodies'))
  /\ UNCHANGED <<zset, owed, memory, loop, updates, faults, repeats, entered, announced, fresh, missed, refused>>

-----------------------------------------------------------------------------
(* main.                                                                   *)

Start ==
  /\ loop.at = "down"
  /\ loop' = At("receiving")
  /\ memory' = NoMemory
  /\ queue' = DeclareAndBindQueue(queue)
  /\ UNCHANGED <<apiVars, faults, repeats, announced, fresh, missed, refused>>

DeliverEvent(m) ==
  /\ loop.at # "down"
  /\ CanDeliver(queue, m, Prefetch)
  /\ queue' = Deliver(queue, m)
  /\ UNCHANGED <<apiVars, memory, loop, faults, repeats, announced, fresh, missed, refused>>

\* The loop is at a place of its body, with message m.
Handling(m, place) == loop.at = place /\ queue.unacked # <<>> /\ m = Head(queue.unacked)

\* The body is done with the message, which was acknowledged or given back.
Settled(q) == queue' = q /\ loop' = At("receiving")

DropMalformed(m) ==
  /\ Handling(m, "receiving") /\ bodies[m] = Garbage
  /\ Settled(Nack(queue, FALSE))
  /\ UNCHANGED <<apiVars, memory, faults, repeats, announced, fresh, missed, refused>>

\* Rank, first command: ZREVRANK.
ReadRank(m) ==
  /\ Handling(m, "receiving") /\ bodies[m] # Garbage
  /\ loop' = [At("ranked") EXCEPT !.rank = RevRank(zset, bodies[m]) + 1]
  /\ UNCHANGED <<apiVars, queue, memory, faults, repeats, announced, fresh, missed, refused>>

\* One of the two commands of Rank fails: the event is given back.
RankFails(m) ==
  /\ Handling(m, "receiving") \/ Handling(m, "ranked")
  /\ bodies[m] # Garbage
  /\ Fault
  /\ Settled(Nack(queue, TRUE))
  /\ UNCHANGED <<apiVars, memory, repeats, announced, fresh, missed, refused>>

\* A bug: strictly less, the last place of the top is not announced.
ReasonShort(rank, previous) ==
  IF rank < TopNThreshold /\ (previous = 0 \/ ~InTop(previous)) THEN "top10"
  ELSE IF previous > 0 /\ previous - rank > RankCrossThreshold THEN "rank_jump" ELSE ""

\* The first case of the switch that holds.
Reason(rank, previous) ==
  IF InTop(rank) /\ (previous = 0 \/ ~InTop(previous)) THEN "top10"
  ELSE IF previous > 0 /\ previous - rank > RankCrossThreshold THEN "rank_jump" ELSE ""

\* A bug: comboKey leaves the user out, all users share one remembered rank.
RememberForAll(u, rank) == memory' = [v \in User |-> rank]

Remember(u, rank) == memory' = [memory EXCEPT ![u] = rank]

\* ZSCORE, then the memory: the new rank is remembered before anything is published.
Decide(m) ==
  LET previous == memory[bodies[m]]
  IN  /\ Handling(m, "ranked")
      /\ Remember(bodies[m], loop.rank)
      /\ IF Reason(loop.rank, previous) = ""
         THEN Settled(Ack(queue))
         ELSE loop' = [loop EXCEPT !.at = "publish", !.previous = previous] /\ UNCHANGED queue
      /\ UNCHANGED <<apiVars, faults, repeats, announced, fresh, missed, refused>>

IsEntry == Reason(loop.rank, loop.previous) = "top10"

Announce(u) ==
  /\ announced' = IF IsEntry THEN [announced EXCEPT ![u] = @ + 1] ELSE announced
  /\ fresh' = IF IsEntry THEN fresh \ {u} ELSE fresh

\* Redis has the notification, and the event is acknowledged in the next step.
PublishNotification(m) ==
  /\ Handling(m, "publish")
  /\ Announce(bodies[m])
  /\ loop' = At("published")
  /\ UNCHANGED <<apiVars, queue, memory, faults, repeats, missed, refused>>

\* Redis has it, but the reply is lost: go-redis sends it again.
PublishAgain(m) ==
  /\ Handling(m, "publish")
  /\ Fault /\ repeats' = repeats + 1
  /\ Announce(bodies[m])
  /\ UNCHANGED <<apiVars, queue, memory, loop, missed, refused>>

\* The publish fails for good: the event is given back, but the rank is remembered.
PublishFails(m) ==
  /\ Handling(m, "publish")
  /\ Fault
  /\ Settled(Nack(queue, TRUE))
  /\ refused' = refused \cup {bodies[m]}
  /\ UNCHANGED <<apiVars, memory, repeats, announced, fresh, missed>>

AckEvent(m) ==
  /\ Handling(m, "published")
  /\ Settled(Ack(queue))
  /\ UNCHANGED <<apiVars, memory, faults, repeats, announced, fresh, missed, refused>>

\* The process dies, or its RabbitMQ connection closes and main returns.
Crash ==
  /\ loop.at # "down"
  /\ Fault /\ repeats' = repeats + 1
  /\ loop' = At("down")
  /\ memory' = NoMemory
  /\ queue' = ConsumerGone(queue)
  /\ UNCHANGED <<apiVars, announced, fresh, missed, refused>>

-----------------------------------------------------------------------------
\* The steps that hand a notification to Redis, and all others.
Notify(m) == PublishNotification(m) \/ PublishAgain(m)

Api == PublishGarbage \/ \E u \in User : Score(u) \/ PublishEvent(u) \/ LosePublish(u)

Body(m) ==
  \/ DropMalformed(m) \/ ReadRank(m) \/ RankFails(m) \/ Decide(m)
  \/ PublishFails(m) \/ AckEvent(m)

Local == Api \/ Start \/ Crash \/ \E m \in DOMAIN bodies : DeliverEvent(m) \/ Body(m)

Next == Local \/ \E m \in DOMAIN bodies : Notify(m)

Spec == Init /\ [][Next]_vars

\* The api publishes, the broker delivers, the loop of main runs and Redis answers
\* at last; nobody restarts the process.
Fairness ==
  /\ WF_vars(\E u \in User : PublishEvent(u))
  /\ WF_vars(\E m \in DOMAIN bodies : DeliverEvent(m))
  /\ WF_vars(\E m \in DOMAIN bodies :
       DropMalformed(m) \/ ReadRank(m) \/ Decide(m) \/ PublishNotification(m) \/ AckEvent(m))

-----------------------------------------------------------------------------
(* Properties.                                                             *)

(* Types, the broker's queue, and: only a rank that was read is compared,  *)
(* published or remembered.                                                *)
TypeOK ==
  /\ DOMAIN zset \subseteq User
  /\ owed \in [User -> 0 .. MaxUpdates] /\ refused \subseteq User
  /\ missed \in [User -> {"never", "last", "earlier"}]
  /\ bodies \in Seq(User \cup {Garbage})
  /\ queue \in Queues(DOMAIN bodies) /\ WellFormed(queue) /\ Len(queue.unacked) <= Prefetch
  /\ memory \in [User -> 0 .. Cardinality(User)]
  /\ loop.at \in {"down", "receiving", "ranked", "publish", "published"}
  /\ loop.at \in {"ranked", "publish"} => loop.rank \in 1 .. Cardinality(User)

(* Whatever order events are handled in, and however late: a user is told  *)
(* to be in the top ten at most as often as it came into it, but for one   *)
(* repetition per crash (the memory is lost) or publish sent again; lost   *)
(* publishes, failed reads and refused notifications repeat nothing.       *)
NoFalseEntry == \A u \in User : announced[u] <= entered[u] + repeats

\* No event is on its way to the notifier or in its hands.
Drained ==
  /\ \A u \in User : owed[u] = 0
  /\ loop.at = "receiving"
  /\ \A m \in Held(queue) : bodies[m] = Garbage

(* Once the events are handled, each user in the top has been announced,   *)
(* unless its last event was lost on the way or Redis refused to publish   *)
(* for it (the loop remembers the rank before it gives the event back).    *)
(* Scores only grow: a loss of others would lift a user without an event.  *)
TopIsAnnounced ==
  Drained => \A u \in Top(zset) \ refused : missed[u] = "last" \/ announced[u] > 0

(* "publishes a Redis Pub/Sub notification when they enter the top 10":    *)
(* once the events are handled, a user in the top was told since it last   *)
(* came into it, if all its events reached the notifier and nothing failed. *)
LastEntryPublished ==
  Drained /\ faults = 0 => \A u \in Top(zset) : missed[u] = "never" => u \notin fresh
=============================================================================
