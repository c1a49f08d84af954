# ClassicCheese in TLA+

ClassicCheese holds two programs: `leaderboard-poc`, four Go services around Redis, RabbitMQ and
MySQL, and `livestream-poc`, a Go comment server with a React client. This directory models the
parts in which processes, goroutines or messages meet, checks them with TLC on small instances, and
proves with TLAPS what can be proved for every instance. Paths below are relative to the repository.

    tlc -workers 2 -config MCConsumers.cfg MCConsumers.tla
    for m in *Proofs.tla; do tlapm $m; done

## 1. The system

### leaderboard-poc

| component | state | operations | interacts through |
|---|---|---|---|
| score update (`cmd/api/handlers.go`, `redisclient.IncrementScore`, `models`) | none of its own but one AMQP channel, opened at start and never again | `POST /score/update`: three pipelines ZINCRBY+INCRBY, one event each | Redis; the fanout exchange |
| RabbitMQ topology (`rabbitmqclient`) | a durable queue per consumer: waiting and unsettled messages | declare and bind, publish, consume with Qos and manual acks | every service |
| history writer (`cmd/historywriter`, `mysqlclient`) | none; its queue and `score_events` | insert, ack, nack with or without requeue | its queue; MySQL |
| aggregator (`cmd/aggregator`, `redisclient.TopN`, `ReplaceZSet`) | the tracker of active regions, in memory | mark a region; on a ticker: read, merge, replace | its queue; Redis |
| notifier (`cmd/notifier`) | the last rank of each user, in memory | compare the rank, publish a notification | its queue; Redis PubSub |
| WebSocket hub (`cmd/api/hub.go`) | clients per channel, one PubSub reader per channel | register, unregister, broadcast | Redis PubSub; WebSocket clients |
| snapshots (`handleAdminSnapshot`, `handleLeaderboardHistory`) | `leaderboard_snapshots` | one transaction per snapshot; two-query read | Redis; MySQL |
| reads (top, rank, around, friends) | none | one or two Redis reads | Redis |

### livestream-poc

| component | state | operations | interacts through |
|---|---|---|---|
| comments (`server/internal/comments`) | per room: a sequence, a counter, subscribers with a mailbox and a kill channel | `PostComment`, `Stream`, `Subscribe`, `Unsubscribe`, `Publish` | goroutines over one mutex, channels and atomics; SSE |
| `useCommentStream` | comments shown, count, one EventSource | open, handle, reopen, close | the stream |
| host and viewer pages | SDK client, tracks, status | effects with awaits and a clean-up | a hosted SDK |
| token minting, configuration, seeder, forms | none after start | stateless | - |

### What is hard here, and what makes each part correct

- **History writer.** Crash between insert and ack, a reply lost after the commit, an outage, messages
  that can never be inserted. Correct when nothing the queue accepted is lost, copies are bounded by
  the faults, and a backlog drains.
- **Score update.** Redis commands of several requests interleave (a pipeline is no transaction); a
  late reply makes go-redis send the pipeline again while the first one may still run; the second of
  three periods fails; the day ends in the middle; publishing is fire-and-forget. Correct when the two
  Redis views of a score agree, an answer 200 means it was counted, and no request has more events
  than increments.
- **Aggregator.** Regions are read one after the other while they change; the tracker forgets at a
  restart; the replacement is two commands; scores fall as well as rise. Correct when every score it writes
  is one the user had since the cycle began, and when it converges to the exact top.
- **Comments.** Full mailboxes, targets used after the lock is released, two connections of one page,
  counts published out of order, writes without deadline. Correct when the registry is exact, no
  event is lost without a drop, nothing is shown twice, counts settle and posting never waits.
- **Notifier.** The rank is read when an event is handled and remembered before anything is published;
  Redis may refuse or repeat the publish, a restart forgets. Correct when nobody is announced more often
  than it entered the top ten (but for faults) and everybody in it has been announced.
- **WebSocket hub.** Clients come and go during a broadcast, SUBSCRIBE is asynchronous, Redis PubSub
  keeps nothing, a client that does not read blocks the rest. Correct when each channel has one reader,
  the registry is exact, and whoever stays connected gets what Redis delivered, once and in order.
- **Reads.** Two or three Redis commands per answer, with increments and replacements in between; ranks
  computed in two places; slice bounds. Correct when answers are exact if nobody writes, and of
  one moment otherwise.
- **Snapshots.** One-second timestamps, a transaction, a read in two statements. Correct when a reader
  gets one whole snapshot, and never an older one than a reader before it.
- **Pages**: see the plan.

`PROJECT.json` ("hazards") lists each at its line with the properties that cover it.

## 2. Modules

| module | models |
|---|---|
| `Rabbit` | one queue bound to the fanout exchange, as a value, with the operations of `rabbitmqclient` and of the broker as operators |
| `EventLog` | abstract: what the history writer promises |
| `HistoryWriter` | the process, its queue, MySQL, the publisher; EXTENDS `Rabbit`, refines `EventLog` |
| `ScoreUpdate`, `MCScoreUpdate` | the handler, its pipelines in Redis, the AMQP channel |
| `Aggregator` | consumer goroutine, ticker, `runCycle`, the API's effects; EXTENDS `Rabbit`, `Zset` |
| `MCConsumers` | an instance of `Aggregator` and one of `HistoryWriter`; a behaviour is of one or of the other |
| `LiveComments`, `MCLiveComments` | `AddComment`, `Publish`, `Stream`, the EventSource |
| `Zset` | a Redis sorted set as a value, with the commands of `redisclient` as operators |
| `Notifier`, `MCNotifier` | the loop of `cmd/notifier`, its memory and queue, the API's effects; EXTENDS `Rabbit`, `Zset` |
| `WsHub` | the hub, its connections and go-redis' subscription, for one channel |
| `Notifications`, `MCNotifications` | composes the two: EXTENDS `WsHub`, an INSTANCE of `Notifier` |
| `Leaderboard` | the users and the sorted set that the next two have in common; EXTENDS `Zset` |
| `Reads` | top, rank and around on the three kinds of leaderboard, against their writers; EXTENDS `Leaderboard` |
| `Snapshots` | `POST /admin/snapshot`, `GET /leaderboard/history`, the table; EXTENDS `Leaderboard` |
| `MCRequests` | an instance of `Reads` and one of `Snapshots`; a behaviour is of one or of the other |
| `RabbitProofs` | lemmas about the operators of `Rabbit` |
| `HistoryWriterProofs` | the theorems about `HistoryWriter` |
| `WsHubProofs` | the theorems about the hub, as theorems of `Notifications` |
| `LiveCommentsProofs`, `NotifierProofs`, `AggregatorProofs`, `ScoreUpdateProofs` | the theorems about the module each is named after |
| `LeaderboardProofs` | the theorems about `Snapshots` and about `Reads` |

In each module a block of operators whose comment starts with "A bug" holds plausible wrong versions
of the definition that follows. No specification uses them. They show that a property can fail: put
in place of the right definition, each makes TLC report the property it is listed with in
`PROJECT.json` ("mutants").

### Rabbit
A message is the number of its publication, so order is `<`; a requeued message returns to its
position. The waiting messages are therefore a set, and the oldest is next. `Publish` to an unbound
queue does nothing: the API declares the exchange, each consumer its own queue. `ConsumerGone`
returns what was unsettled, because `Consume` asks for manual acks.

### HistoryWriter
`hw` is the place of the loop of `main`: *down*, *receiving*, or *recorded* between the insert and the
ack. Each branch of the loop is an action: `DropUnparseable` (Nack without requeue), `InsertScoreEvent`,
`InsertFails` (an error that wrote nothing), `InsertReplyLost` (an error after the commit), `AckRecorded`.
`StartWriter` needs MySQL, since `mysqlclient.New` pings before the queue is declared. The deliveries that
wait in the Go channel are `writerQueue.unacked`, handled from the head. Events MySQL refuses for good
(`Rejected`) exist: `region` is VARCHAR(50) in the schema and unlimited in the handler.

### ScoreUpdate
A pipeline in Redis is a record that names the request, the period, the attempt and the next command;
`ZIncrBy` and `IncrBy` are single steps of Redis, so any other command may come between. `Replied`,
`Resend` and `GiveUp` are the three ways `Exec` can turn out for the handler; a pipeline nobody waits
for may still run or be cut (`Abandoned`). `Accept` reads the clock once, as the handler does, and
`Calendar` gives the period of an instant: ISO weeks and time zones are data. `PublishScoreEvent` is
the publish and the loop's step to the next period. `applied` is history: how often Redis ran ZINCRBY for a
request in a period, whoever waits for it. Deltas have either sign, since the handler refuses zero only; sums of
them say nothing of single requests (increments may cancel), so what is promised per request is
stated with `applied`, and `ReplayNeverAhead` also says that the leaderboards are the sums of what was applied.
Events are compared as what the exchange got; the composition with the history writer is in the plan.

### Aggregator
One combo (period type and key), for the combos share nothing. ZSETs are partial functions: a member may have any
score, zero and below included, and `Deltas` are any numbers but zero, as the handler admits. `ConsumerLost` is the
end of `range deliveries` in the goroutine while `main` keeps ticking. `Tick` takes the snapshot of the tracker,
`ReadRegion`/`ReadFails` are the reads, `Merge` keeps a user's higher score or the first one met, `Del` fixes the
ranking (`Rankings`: any order of equal scores, as `sort.Slice` is not stable) and sends the first command, `ZAdd`
the second. `Leaders` breaks ties by member, backwards, as ZREVRANGE does. In `cycle`, `seen` and `had` are history:
what the cycle read of each region (nothing, if the read failed), and which scores each user had in any region since
it began. Periods that have ended and are never forgotten by the tracker are not modelled (a second combo
would add nothing to this one's behaviour).

### LiveComments
`AddComment` is `AssignId`, then two rounds of `Snapshot` and `Send`, with `CountUp` between: the copy
of the subscribers is taken under the read lock, the sends happen outside. `Subscribe`, `Prime`,
`TakeEvent`, `WriteEvent`, `End` are the `Stream` handler. A write blocks while its page does not read
and returns at once when the connection is gone. `Connect` is EventSource opening and reopening.
Left out: the keep-alive comment every 15 s, the sleep before a reconnection, a page that changes
its room while mounted, and a restart of the server: it would set a room's sequence back, and pages that show
comments of before take the new ones with the same ids for repetitions.

### Notifier
One leaderboard, since the memory is keyed by leaderboard and user. `loop` is the place in the body of
`main`'s loop: *receiving*, *ranked* between ZREVRANK and ZSCORE, *publish* once a reason was found,
*published* before the ack; it carries the rank read and the previous one. `Decide` is ZSCORE, the
update of the memory and the switch, which nothing can come between; `PublishFails` gives the event
back with the memory already changed, `PublishAgain` is go-redis repeating a command whose reply
was lost. `entered`, `announced`, `fresh`, `missed`, `refused` and `repeats` (crashes and publishes sent again, the
faults that can repeat an announcement) are history. The `!ok` branch of
`handleEvent` is out of reach: an event follows its ZINCRBY and nobody leaves a regional leaderboard.

### WsHub and Notifications
`Register` and `Unregister` are single steps, as their bodies are under the mutex. A reader is named
after the connection whose `Register` started it, so two of them could be told apart; it has the
subscription's inbox and the broadcast: the message, and the connections of the copied set still to be
written to. `Write` does not happen while the client does not read, which is what blocks the rest.
`HandlerEnds` is the read loop of `handleWebSocket` returning an error. In `Notifications` every step of
the notifier that hands a notification to Redis (`Notify`) is also the step `PublishNote` of the hub;
all other steps are of one of the two. `told` records what a notification says.

### Reads
A request goes through its Redis commands one step at a time: *range* (second command of `Around`),
*rank* and *score* (the two of `Rank`). Score changes of either sign (`Rescored`), or DEL and ZADD of the aggregator for
a global leaderboard, come in between. `seen` collects the leaderboards there were meanwhile. A friends group is
read in one MGET, sorted with equal scores in any order, and cut; bounds that do not nest are Go's
panic, which net/http turns into a dropped connection: it is reachable for a negative `n` or `count`, and
`ReadsTypeOK` says for these only. An error 500 is reachable for a global leaderboard that is
replaced between ZREVRANK and ZSCORE, and `ReadsTypeOK` says only there. The list of friends itself is external.

### Snapshots
The clock counts half seconds and a TIMESTAMP rounds to the nearest second, so times that differ may
be stored alike. `Insert` collects rows in the transaction, `Commit` makes them visible (its reply may be
lost), `Rollback` is a failing statement. `of` in a row is history. Rows of equal position come in any order.

## 3. Runs

| run | question | result |
|---|---|---|
| `consumers` | Aggregator: is what a cycle writes made of scores of this cycle, the exact top of what it read, and does it converge? History writer: do crashes, lost replies and outages lose or multiply events, does the backlog drain? | `NeverInvents`, `MergeExact`, `Converges`; `NothingRoutedIsLost`, `CopiesBounded`, refinement of `EventLog`, `BacklogDrains` hold |
| `aggregator_missed` | Does it converge although a message was missed? | fails |
| `score_update` | Do mirror, answers and events agree with the leaderboards under faults? Are results exact without? | all hold |
| `live_comments` | Two connections of a page, one comment at a time, an invalid request | registry, mailbox bound, `NoRepeat`, `CountSettles` hold |
| `live_comments_live` | Concurrent posts, a mailbox of one event, a page that stalls | `NoSilentLoss`, `PostsAreAnswered`, `DroppedReaderEnds` hold |
| `live_comments_race` | Does the count settle with two posts at a time? | fails: the smaller count may arrive last |
| `notifier` | Are users announced too often, or never, under faults and a backlog? | `NoFalseEntry`, `TopIsAnnounced` hold |
| `notifier_entries` | Is each entry into the top published when nothing fails? | fails: overtaken, back again, not announced |
| `notifications` | Does a connected client learn of the users in the top, once and in order? | `OneReader`, `RegistryExact`, `NothingSkipped`, `NoSpuriousNews`, `WatchersLearn` hold |
| `requests` | Are answers of top, rank and around exact when nobody writes, and of moments of the request when somebody does? Does a history request see one whole snapshot, never going back? | `QuietExact`, `RegionalFound`, `ListsOfOneMoment`; `WholeSnapshot`, `NeverBack` hold |
| `replaced` | Is a global leaderboard that had members never answered as empty? | fails: between DEL and ZADD it is |
| `one_second` | Is an answer of the history one snapshot, whenever it was taken? | fails: two in one second are mixed |

The runs that fail are the disagreements with a comment or a document, quoted under "findings": the merge is not
"always correct even if a message was missed" (`aggregator_missed`), `ReplaceZSet` does not replace "atomically"
(`replaced`), rows of one `snapshot_at` do not "read back together as one snapshot" (`one_second`), the notifier
does not publish each entry (`notifier_entries`), and a page may keep a count that is too small (`live_comments_race`).

**Reading the results.** `CopiesBounded` is the honest form of at-least-once: `rows[m] <= writerFaults + 1`
is reached, so a comment that promises "one durable copy" is true of runs without faults only.
`MirrorAgrees` excludes pipelines cut between their commands (`torn`): a cut one leaves the mirror behind for
good. `ReplayNeverAhead` and `OkMeansScored` count increments request by request, so they hold for deltas of both signs;
the instance has one of each, and distinct powers of two, so a sum identifies its terms. `NeverInvents` says
no more than that a written score is recent: after a negative delta the global leaderboard is ahead of the
regions until the next cycle, and it may mix moments of one cycle. `CountSettles` passes with one
comment at a time and fails with two: the two runs together locate the fault in the order of
`Publish` and not in the priming of a stream, which the mutant of `Prime` tests.
`LastEntryPublished` fails without any fault although `TopIsAnnounced` holds with all of them: each user in the
top was announced at some time, but not since it last entered, for its remembered rank does not change when others
overtake it. `NoFalseEntry` allows a repetition per crash and per publish sent again; lost events, failed reads
and refused publishes allow none. `WholeSnapshot` excepts two snapshots stored under one second, which `one_second`
shows to be mixed. `ListsOfOneMoment` says how much a reader may rely on: the list of `/around` is all of the
surroundings of a place the user held, on a leaderboard of maybe another moment, and so is its first rank;
a list is empty only if the user, or for `/top` everybody, was off the leaderboard for a moment. For a global
leaderboard such a moment is between DEL and ZADD, and `replaced` shows it to a reader.

Not caught, because what is promised excepts it: a notification Redis refuses is lost for good, since the memory is
ahead of the publish (`TopIsAnnounced` and `WatchersLearn` leave such users out); a client that never reads keeps its
channel from the others, since a write has no deadline (`WatchersLearn` assumes that in the end there is none); what
is published before SUBSCRIBE took effect, or beyond what go-redis buffers, is gone (it is in the `lost` of
`NothingSkipped`); an event whose publish failed is gone (`ReplayNeverAhead` is an inequality).

The models also contain, in antecedents and exceptions and without a run of their own: as many events that
MySQL refuses as the prefetch fill the consumer's window for ever (`BacklogDrains` holds with fewer); an
event published before a consumer's queue was first bound is gone (`NothingRoutedIsLost` speaks of routed
events); a request answered 200 may have no event, or be counted twice by a resend (`ReplayNeverAhead` is an
inequality, `ExactWithoutFaults` the equality); a dropped stream whose page does not read stays in
its write (`DroppedReaderEnds` is about pages that read).

**Bounds.** Four messages with a prefetch of two give a window that is full while others wait, one
malformed, one refused, two faults in any order. Two requests (one adds points, one takes some away) of one user in two regions, and an
invalid one, over three periods and two instants between which a day and a week end, with two faults,
cover resend after resend, a resend and a lost channel, a failure after a resend and a restart in
each place. Two users, two regions and cut-offs of one make every leaderboard overflow with the second
member; three updates, up or down (`Deltas` 1 and -1, so that scores are below, at and above zero), make a region
change during a cycle; a message that is no event counts as one of them. Two connections, three requests and a
mailbox of one make a drop, a reconnection and a target that is gone; the display is cut at two. The
counters `MaxEvents`, `MaxUpdates`, `MaxGarbage`, `MaxFaults`, `MaxConns`, `MaxNow`, `MaxWrites`, `MaxBreaks`
appear only in guards.
Three users around a top of one place, two of them with scores before the notifier first ran: an update
can enter the top, miss it by a tie (`Deltas` 1 and 3), or push another user out; three updates are an entry, an
overtaking and a return. `RankCrossThreshold` is zero, so that a rise outside the top is a jump. `Deltas` are
positive: after a negative one a user may rise into the top without an event of its own, and `TopIsAnnounced`
does not hold. `Notifications` has one user, because what the hub adds is about connections: two, one of which may stop
reading or leave in the middle of a broadcast to both, a Go channel of one message, a lost Redis connection and a
failure of the notifier; two users make the same cases with ten times the states. `Reads` has one request, since
requests change nothing; every initial leaderboard of three users with scores -1 and 1, ties included, is tried,
with three writes, enough for DEL, ZADD and DEL within one request, and counts from -2 to 2. Two snapshots with up
to three rows, two history requests with a limit below that, and a clock of four half seconds let snapshots
fall into one second or not, commit in the other order, and commit between the two statements of a reader.
Deadlock is not checked (`CHECK_DEADLOCK FALSE`), for the bounded systems end: all requests answered, all
updates made and handled, all connections used up.

**Symmetry.** `live_comments`, `requests` and `one_second`, which check invariants only, identify requests that no
definition tells apart: the two valid ones, the two snapshots, the two history requests. The runs with
temporal properties use none.

**Fairness.** `HistoryWriter`: the loop of `main` runs when it has a message (weak); the broker serves a
consumer with credit, and a message that is the oldest again and again does go out (strong, since a
requeued message takes its place in between). Nothing makes MySQL or the process come back: the
property assumes it in its antecedent. `Aggregator`: the two goroutines, the ticker and the API's
publish; failures are bounded and not fair. `LiveComments`: goroutines that can step do, and `select`
does not starve a ready kill channel for ever (weak fairness of `End`); pages owe nothing.
`Notifier`: the API's publish, the broker's delivery and the loop, where Redis answers at last; a crashed
process need not come back. `WsHub`: each step of the reader's goroutine, go-redis subscribing (again), and the end
of a handler whose connection is closed; clients need neither read nor leave, so a write is fair only
while its client reads. `ScoreUpdate`, `Reads` and `Snapshots` have safety properties only.

## 4. Proofs

Each theorem is about every value of the constants that the module's `ConstantsAssumption` admits, and
about behaviours of every length: the bounds `Max...` are any natural numbers, the sets any sets (finite
where it is said). An invariant of a run is seldom inductive, so each module below names the facts that
were added to make it so; TLC checked these on the run's instance before they were proved.

### HistoryWriter

For every number of messages, prefetch, set of malformed and refused messages and number of faults
(assumption `WriterAssumption` of `HistoryWriter`):

| theorem | statement |
|---|---|
| `TypeCorrect` | `WriterSpec => []WriterTypeOK` |
| `NoLoss` | `WriterSpec => []NothingRoutedIsLost` |
| `BoundedCopies` | `WriterSpec => []CopiesBounded` |
| `Refinement` | `WriterSpec => ImplementsEventLog` |

The argument is one inductive invariant, `IInv` in `HistoryWriterProofs`: `WriterTypeOK`, the two properties
and two facts they need. `RecordedIsHead`: between insert and ack the loop's message is the head of the
deliveries and has a row, otherwise `AckRecorded` could forget a message that was never written.
`RowsWerePublished`: rows and held messages are of published messages, otherwise publishing could meet
a number that has rows already, and `EventLog!Accept` its element in `recorded`. `InitIInv` and one lemma
step per action establish it; `RabbitProofs` gives what each queue operation does to `Held`,
`WellFormed` and the length of the deliveries (`Head`, `Tail` and `Append` of an injective sequence).
The refinement maps `pending` to the held messages without a row and `recorded` to those with one: only
`PublishScored` into a bound queue is an `Accept`, only the first insert a `Record`, all else stutters.

### WsHub

For every set of connections, size of the Go channel and number of lost Redis connections (assumption
`WsHubAssumption` of `WsHub`), behind the notifier of `Notifications`:

| theorem | statement |
|---|---|
| `HubTypeCorrect` | `Spec => []HubTypeOK` |
| `SubscribedOnce` | `Spec => []OneReader` |
| `RegistryIsExact` | `Spec => []RegistryExact` |
| `NothingIsSkipped` | `Spec => []NothingSkipped` |
| `NewsAreTrue` | `Spec => []NoSpuriousNews` |

`IInv` in `WsHubProofs` adds three facts to these properties. `IdleReaders`: a registration that started no
reader holds no message, and a broadcast is of some notification. `InOrder`: what waits in the
subscription comes after the notification being written, and that after what the connections still to be
written to have received; without it the order on a connection is not kept by the next step. `Delivered` is
the second half of `NothingSkipped` and needs `RegistryExact`: `Take` copies the registry, so an open
connection missing there would miss the notification. `OneReader` follows from the mark
`Hub.subscribing`, which `HubTypeOK` ties to the readers. The lemmas `TakeFirst`, `AddLast`, `CutOut` and
`LeaveOut` say what the steps do to an increasing sequence; `ReaderStep` reduces a step of the reader to
its own inbox and broadcast; there is one lemma per action, and `NextIsHub` says that every other step of
the composition leaves the hub alone.

`NewsAreTrue` is about both parts, and also assumes what the notifier assumes of its constants (`NotifierAssumption` of
`Notifications`). Each step of the composition is a step of the notifier's instance or leaves it alone (`SameNext`),
so the invariant of `NotifierProofs` holds of it and with it `NoFalseEntry`. What is missing is the way from
there to a client: `Said` (a notification is published for each announcement counted, and for no other) and `HeardOnce`
(what a connection got is an increasing sequence, so no notification is in it twice, and it has heard
no more than was said).

### LiveComments

For every set of pages, requests and connections, every mailbox and display size, and any number of requests
posted at a time (assumption `ConstantsAssumption` of `LiveComments`):

| theorem | statement |
|---|---|
| `TypeCorrect` | `Spec => []TypeOK` |
| `RegistryIsExact` | `Spec => []RegistryExact` |
| `NothingIsLost` | `Spec => []NoSilentLoss` |
| `NothingRepeats` | `Spec => []NoRepeat` |
| `CountIsShown` | if `MaxPosting = 1`, `Spec => []CountSettles` |

`NoSilentLoss` speaks of comments that are published; `NothingMissed` extends it to those still being fanned
out, which are owed to a subscriber by the request that has it in its copied targets. `Placed` says who may be
in such a copy: subscribers of the request's room that registered, alive or gone. A page shows a
comment once because it is nowhere twice: `IdsAreOwn` (no two requests of a room carry one id),
`OnePlace` (an event is still owed, or in the mailbox, or being written), `NotAgain` and `NotBefore` (what is
shown does not come to the page's present connection again). The last two are why a reconnection is harmless: what a
page shows was fanned out before its new connection subscribed, and `Publish` copied the subscribers before that.

`CountIsShown` has the run's own hypothesis, one comment of a room posted at a time: `live_comments_race` shows that
it fails with two. Its invariant `Counts`, beside `IInv`, is about the last count that will reach a page (`Comes`): the room's
count is still being fanned out to it, or is the last count in the mailbox, or there is none in the mailbox and
the count is about to be read, being written, or shown. `OneAtATime` makes a published count the room's, so that
none which is appended behind it is older.

### Notifier

For every finite set of users with any first leaderboard, thresholds, and faults:

| theorem | statement |
|---|---|
| `TypeCorrect` | `Spec => []TypeOK` |
| `EntriesAreTrue` | `Spec => []NoFalseEntry` |
| `TopGetsAnnounced` | if `Deltas \subseteq Nat`, `Spec => []TopIsAnnounced` |

`Counted` counts an announcement before it is made: whoever the loop may announce without an entry of its own
(`MayBeTold`: it is in the top and the memory does not know it, or it has been read as such) has one
announcement less than it has entries and `repeats`. `Told` is the opposite direction: who is in the top has been
announced, is being announced, or has an event that will have its rank read. It needs positive deltas, as the property itself does (see Bounds):
the lemma `RankKept` is that a user does not rise when another one gains. Ranks are cardinalities of
filtered sets, reasoned about with the library's theorems on finite sets, so `User` is assumed finite.
`Reason` follows the order of the cases of `handleEvent`'s switch, which overlap.

### Aggregator

For every finite set of users and set of regions that is not empty, deltas of either sign, and cut-offs `PerRegionN >= GlobalTopN`, as the
service is configured (below that the merge is not exact, and TLC finds it: the mutant `MergeShort`):

| theorem | statement |
|---|---|
| `TypeCorrect` | `Spec => []TypeOK` |
| `NothingIsInvented` | `Spec => NeverInvents` |
| `TopIsExact` | `Spec => []MergeExact` |

`NeverInvents` is about a step, the one that writes: `Credited` says that during a cycle `had` knows every score a region
has and every score the cycle saw in it, and `Merging` ties what was merged so far to what was read: `IsMerge` says
that a merged score is one of those read, and no less than any in the first `PerRegionN` of its region. So what
is written at the end comes from `had` (`RankedHad`). For `MergeExact`: a user with less in the merge than its best score
is behind `PerRegionN >= GlobalTopN` users who are in the merge with at least that score (`MergeLemma`), and a ranking
of the merge is one of what was read (`MergeIsEnough`). This is the reason why a bounded read per region is enough.
Scores are integers: `Greatest`, that a finite set of them has a greatest, is what makes `BestOf` meaningful.

### Snapshots

For every set of users and requests, `top_n`, limit, and length of the clock:

| theorem | statement |
|---|---|
| `TypeCorrect` | `Spec => []TypeOK` |
| `SnapshotIsWhole` | `Spec => []WholeSnapshot` |
| `HistoryNeverGoesBack` | `Spec => []NeverBack` |

`Snaps` says which rows of a snapshot are in the table: all or none, those of its entries, under its second.
`Ordered`: a reader that began after another one was done has seen a table at least as new. `Answered` is
`WholeSnapshot` with the list it stands for. That rows in order of a unique position are the positions 1, 2, 3 ... is
the lemma `Consecutive`, by the least place that is wrong.

### Reads

For every finite set of users, any set of requests and of counts (negative ones too), any set of scores, of either sign, and any number of commands of the writers (`ReadsAssumption`, `LeaderboardAssumption`):

| theorem | statement |
|---|---|
| `ReadsTypeCorrect` | `ReadsSpec => []ReadsTypeOK` |
| `QuietIsExact` | `ReadsSpec => []QuietExact` |
| `RegionalIsFound` | `ReadsSpec => []RegionalFound` |
| `ListsAreOfOneMoment` | `ReadsSpec => []ListsOfOneMoment` |

`ReadsInv` says of every value a request has read from which leaderboards of `seen` it came: the list of `Around` from
two (`ListRead`), the rank from one (`PlaceRead`), an answer from up to three (`AroundAnswer`), a friends group's
from one and an order of it (`GroupAnswer`); for a regional leaderboard also that the one of the rank has no user who is
not in the one of the list. `StillAsked` is why writers cannot break it: `seen` only grows. The properties follow from
what ranks are. `RankLemma`: they are 0, 1, 2 ... and each is held by one member, since `RevRank` is injective into as
many numbers as there are members; so the `CHOOSE` of `RevRange` finds somebody (`RangeLemma`). `AroundLemma`: the first
rank `handlers.go` computes is one more than the bound `Around` computes apart from it, for every rank
and count. `OrderPlace`: whoever `sort.Slice` puts at a place has fewer than that ahead and at least that not behind,
whichever order equal scores are in. With one leaderboard in `seen` all of these are of the same, which is
`QuietExact`. `ListsOfOneMoment` needs `ShowsLemma` (a part of ZREVRANGE is all of the places it asks for, up to the
size of the leaderboard) and `EmptyBetween`: of two global leaderboards of a request one was followed by DEL, so when a
user is missing from one of them the empty one was there too. Finitely many users is what makes a rank a number.

### ScoreUpdate

For every finite set of requests, any users, regions, deltas, and periods of instants (`Calendar` is arbitrary), and
any number of faults:

| theorem | statement |
|---|---|
| `TypeCorrect` | `Spec => []TypeOK` |
| `EventsOfOneInstant` | `Spec => []OneInstant` |
| `MirrorIsTheTotal` | `Spec => []MirrorAgrees` |
| `ReplayIsNeverAhead` | `Spec => []ReplayNeverAhead` |
| `OkIsScored` | `Spec => []OkMeansScored` |
| `ExactAccounts` | `Spec => []ExactWithoutFaults` |

The properties are about sums, and sums are folds that take elements in the order of `CHOOSE`. The first part of the
module proves that their value does not depend on it: a least counterexample (well-foundedness of `<`) takes the place of
the induction the provers cannot instantiate. `SumTake` (one term out), `SumChange` (one term changed), `SumAgree`
and `SumMono` are what the rest uses. `Types` is inductive with `Pipelines`: no pipeline is in Redis twice, and
none belongs to a period its request has not come to. `SentOK` ties the events of a request to the
periods it is done with. `MirrorAgrees` becomes inductive as the balance over all users and periods. The last
three theorems follow from one invariant, `Accounts`. Its ledger says how often ZINCRBY ran for each request and period
(`applied`): `Tallied`, the leaderboards are the sums of what was applied; `Covered`, it ran at least once for each
period of which the place of the request and the pipelines left behind tell so (`Scored`); `Bounded`, it ran for no
period the request has not come to, and, together with the pipelines that still wait for it, at most once more
than there were faults. `Faultless` is that without faults every pipeline is one its request waits
for and no event is missing. Counting per request instead of comparing sums is what makes the theorems
independent of the signs of the deltas.

### What is model-checked only

Liveness, which the prover does not reach: `BacklogDrains`, `Converges`, `PostsAreAnswered`, `DroppedReaderEnds`,
`WatchersLearn`. Every invariant and action property that a passing run checks is a theorem above.

## 5. Not modelled

Token minting (a stateless signature), configuration, CORS and routing (read once), the seeder (it issues
the requests `ScoreUpdate` models), forms and navigation, the host and viewer pages (effects around a
hosted SDK). Of modelled components: answers 400, which touch no state; the keep-alive of a comment stream;
the mutex of the hub, held only within single steps; leaderboards of other regions, periods and channels, which
share no state with the one modelled.

## 6. Plan

1. `StreamPages`: the effects of the pages against their clean-up, with the SDK's events as environment.
2. `ScoreSystem`: `ScoreUpdate` with `HistoryWriter`, from the request to the row.
3. Proofs about what 1 and 2 add: that `ScoreSystem` keeps the invariants of its two parts.
