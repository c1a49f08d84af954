---------------------------- MODULE LiveComments ----------------------------
(***************************************************************************)
(* The comment feed of livestream-poc: internal/comments (Hub, Service and *)
(* the handlers PostComment and Stream) and the EventSource of             *)
(* useCommentStream.  Posting goroutines fan events out to the mailboxes   *)
(* of a room; one Stream goroutine per connection empties its mailbox into *)
(* an HTTP response that blocks while the client does not read.            *)
(***************************************************************************)
EXTENDS Naturals, Sequences, SequencesExt

CONSTANTS
  Client,      \* mounted CommentFeeds
  Post,        \* POST /comments requests
  Invalid,     \* requests without room, author or text, or with too long ones
  RoomOf,      \* the room of a client, and of a request
  BufferSize,  \* subscriberBufferSize, 32 in the code
  MaxShown,    \* MAX_COMMENTS, 200 in the code
  MaxConns,    \* bound: connections a client opens
  MaxPosting,  \* environment: comments of one room being posted at a time
  MayStall     \* environment: the clients that may stop reading their connection

ASSUME ConstantsAssumption ==
  /\ Invalid \subseteq Post
  /\ MayStall \subseteq Client
  /\ DOMAIN RoomOf = Client \cup Post
  /\ BufferSize \in Nat \ {0}
  /\ MaxShown \in Nat \ {0}
  /\ MaxConns \in Nat
  /\ MaxPosting \in Nat

Room == {RoomOf[x] : x \in Client \cup Post}

\* The n-th connection of a client is its n-th subscriber.
Sub == Client \X (1 .. MaxConns)
Owner(s) == s[1]
SubRoom(s) == RoomOf[Owner(s)]

Comment(n) == [name |-> "comment", n |-> n]
Count(n) == [name |-> "count", n |-> n]

VARIABLES
  seqs, counters,  \* Service: the last id and the number of comments of each room
  rooms,           \* Hub: the subscribers of each room that has an entry
  sub,             \* per subscriber: where its Stream handler is, the event being
                   \* written, the mailbox, the kill channel; history: the last id
                   \* before it subscribed, and the comments written to it
  post,            \* per request: where AddComment is, the event, whom it still goes to
  client           \* per client: connections so far, whether the last one is open,
                   \* whether the page has stopped reading, and what it shows

vars == <<seqs, counters, rooms, sub, post, client>>

Init ==
  /\ seqs = [r \in Room |-> 0]
  /\ counters = [r \in Room |-> 0]
  /\ rooms = [r \in {} |-> {}]
  /\ sub = [s \in Sub |-> [at |-> "none", out |-> Count(0), buf |-> <<>>, killed |-> FALSE,
                           since |-> 0, got |-> {}]]
  /\ post = [p \in Post |-> [at |-> "new", event |-> Count(0), targets |-> {}]]
  /\ client = [c \in Client |-> [conns |-> 0, open |-> FALSE, stalled |-> FALSE,
                                 shown |-> <<>>, count |-> 0]]

-----------------------------------------------------------------------------
(* AddComment.                                                             *)

Posting(r) == {p \in Post : RoomOf[p] = r /\ post[p].at \notin {"new", "done", "rejected"}}

RejectComment(p) ==
  /\ post[p].at = "new"
  /\ p \in Invalid
  /\ post' = [post EXCEPT ![p].at = "rejected"]
  /\ UNCHANGED <<seqs, counters, rooms, sub, client>>

AssignId(p) ==
  /\ post[p].at = "new"
  /\ p \notin Invalid
  /\ Cardinality(Posting(RoomOf[p])) < MaxPosting
  /\ seqs' = [seqs EXCEPT ![RoomOf[p]] = @ + 1]
  /\ post' = [post EXCEPT ![p].at = "publish", ![p].event = Comment(seqs[RoomOf[p]] + 1)]
  /\ UNCHANGED <<counters, rooms, sub, client>>

\* Publish copies the room's subscribers under the read lock ...
Snapshot(p) ==
  /\ post[p].at = "publish"
  /\ post' = [post EXCEPT ![p].at = "send",
                          ![p].targets = IF RoomOf[p] \in DOMAIN rooms THEN rooms[RoomOf[p]] ELSE {}]
  /\ UNCHANGED <<seqs, counters, rooms, sub, client>>

Sent(p, s) ==
  /\ post[p].at = "send"
  /\ s \in post[p].targets
  /\ post' = [post EXCEPT ![p].targets = @ \ {s}]
  /\ UNCHANGED <<seqs, counters, rooms, client>>

\* A bug: the send without a default branch waits for room in the mailbox.
SendBlocking(p, s) ==
  /\ Sent(p, s)
  /\ Len(sub[s].buf) < BufferSize
  /\ sub' = [sub EXCEPT ![s].buf = Append(@, post[p].event)]

\* A bug: the default branch skips the event instead of dropping the subscriber.
SendSkipping(p, s) ==
  /\ Sent(p, s)
  /\ sub' = IF Len(sub[s].buf) < BufferSize
            THEN [sub EXCEPT ![s].buf = Append(@, post[p].event)]
            ELSE sub

\* A bug: the mailbox grows without limit.
SendUnbounded(p, s) ==
  /\ Sent(p, s)
  /\ sub' = [sub EXCEPT ![s].buf = Append(@, post[p].event)]

\* ... and then, without a lock, offers each the event: a full mailbox is killed.
\* What a handler that has ended still gets is never read: it is not kept here.
Send(p, s) ==
  /\ Sent(p, s)
  /\ sub' = IF sub[s].at = "gone" THEN sub
            ELSE IF Len(sub[s].buf) < BufferSize
            THEN [sub EXCEPT ![s].buf = Append(@, post[p].event)]
            ELSE [sub EXCEPT ![s].killed = TRUE]

\* After the comment event: the counter is incremented and its value published.
CountUp(p) ==
  /\ post[p].at = "send" /\ post[p].targets = {} /\ post[p].event.name = "comment"
  /\ counters' = [counters EXCEPT ![RoomOf[p]] = @ + 1]
  /\ post' = [post EXCEPT ![p].at = "publish", ![p].event = Count(counters[RoomOf[p]] + 1)]
  /\ UNCHANGED <<seqs, rooms, sub, client>>

\* After the count event: the request is answered.
Posted(p) ==
  /\ post[p].at = "send" /\ post[p].targets = {} /\ post[p].event.name = "count"
  /\ post' = [post EXCEPT ![p].at = "done", ![p].event = Count(0)]
  /\ UNCHANGED <<seqs, counters, rooms, sub, client>>

-----------------------------------------------------------------------------
(* Stream.                                                                 *)

\* The connection this handler writes to is the open one of its client.
Connected(s) == client[Owner(s)].open /\ client[Owner(s)].conns = s[2]

Subscribe(s) ==
  /\ sub[s].at = "opened"
  /\ sub' = [sub EXCEPT ![s].at = "prime", ![s].since = seqs[SubRoom(s)]]
  /\ rooms' = [r \in DOMAIN rooms \cup {SubRoom(s)} |->
                 (IF r \in DOMAIN rooms THEN rooms[r] ELSE {})
                   \cup (IF r = SubRoom(s) THEN {s} ELSE {})]
  /\ UNCHANGED <<seqs, counters, post, client>>

\* A bug: the stream starts without the room's current count.
PrimeMissing(s) ==
  /\ sub[s].at = "prime"
  /\ sub' = [sub EXCEPT ![s].at = "loop"]
  /\ UNCHANGED <<seqs, counters, rooms, post, client>>

\* The current count is read once the subscription stands, and is written first.
Prime(s) ==
  /\ sub[s].at = "prime"
  /\ sub' = [sub EXCEPT ![s].at = "write", ![s].out = Count(counters[SubRoom(s)])]
  /\ UNCHANGED <<seqs, counters, rooms, post, client>>

\* `select` picks any ready case: an event may be taken although kill is closed.
TakeEvent(s) ==
  /\ sub[s].at = "loop"
  /\ sub[s].buf # <<>>
  /\ sub' = [sub EXCEPT ![s].at = "write", ![s].out = Head(sub[s].buf), ![s].buf = Tail(@)]
  /\ UNCHANGED <<seqs, counters, rooms, post, client>>

\* A page shows the last MaxShown comments.
Handle(view, ev) ==
  IF ev.name = "count" THEN [view EXCEPT !.count = ev.n]
  ELSE [view EXCEPT !.shown = Append(IF Len(@) < MaxShown THEN @ ELSE Tail(@), ev.n)]

\* A bug: the events of an EventSource that was closed are still handled.
WriteEventToAny(s) ==
  /\ sub[s].at = "write"
  /\ ~client[Owner(s)].stalled
  /\ sub' = [sub EXCEPT ![s].at = "loop", ![s].out = Count(0),
                        ![s].got = IF sub[s].out.name = "comment" THEN @ \cup {sub[s].out.n} ELSE @]
  /\ client' = [client EXCEPT ![Owner(s)] = Handle(@, sub[s].out)]
  /\ UNCHANGED <<seqs, counters, rooms, post>>

\* The write ends when the client reads, and at once when the connection is gone.
WriteEvent(s) ==
  /\ sub[s].at = "write"
  /\ Connected(s) => ~client[Owner(s)].stalled
  /\ sub' = [sub EXCEPT ![s].at = "loop", ![s].out = Count(0),
                        ![s].got = IF sub[s].out.name = "comment" THEN @ \cup {sub[s].out.n} ELSE @]
  /\ client' = IF Connected(s) THEN [client EXCEPT ![Owner(s)] = Handle(@, sub[s].out)] ELSE client
  /\ UNCHANGED <<seqs, counters, rooms, post>>

\* A bug: Unsubscribe leaves the entry of a room that nobody watches.
UnsubscribeLeaking(s) == [rooms EXCEPT ![SubRoom(s)] = @ \ {s}]

Unsubscribe(s) ==
  [r \in {r \in DOMAIN rooms : rooms[r] # {s}} |-> rooms[r] \ {s}]

\* A bug: the loop has no case for the kill channel.
EndNotOnKill(s) ==
  /\ sub[s].at = "loop"
  /\ ~Connected(s)
  /\ rooms' = Unsubscribe(s)
  /\ sub' = [sub EXCEPT ![s].at = "gone", ![s].out = Count(0), ![s].buf = <<>>]
  /\ UNCHANGED <<seqs, counters, post, client>>

\* kill or the end of the request: the handler unsubscribes, the response ends.
End(s) ==
  /\ sub[s].at = "loop"
  /\ sub[s].killed \/ ~Connected(s)
  /\ rooms' = Unsubscribe(s)
  /\ sub' = [sub EXCEPT ![s].at = "gone", ![s].out = Count(0), ![s].buf = <<>>]
  /\ client' = IF Connected(s) THEN [client EXCEPT ![Owner(s)].open = FALSE] ELSE client
  /\ UNCHANGED <<seqs, counters, post>>

-----------------------------------------------------------------------------
(* The page.                                                               *)

\* EventSource opens the first connection, and another when one was closed.
Connect(c) ==
  /\ ~client[c].open
  /\ client[c].conns < MaxConns
  /\ client' = [client EXCEPT ![c].conns = @ + 1, ![c].open = TRUE]
  /\ sub' = [sub EXCEPT ![<<c, client[c].conns + 1>>].at = "opened"]
  /\ UNCHANGED <<seqs, counters, rooms, post>>

Disconnect(c) ==
  /\ client[c].open
  /\ client' = [client EXCEPT ![c].open = FALSE]
  /\ UNCHANGED <<seqs, counters, rooms, sub, post>>

\* The page stops reading its connection (a suspended tab), or reads again.
StallOrResume(c) ==
  /\ c \in MayStall
  /\ client' = [client EXCEPT ![c].stalled = ~@]
  /\ UNCHANGED <<seqs, counters, rooms, sub, post>>

-----------------------------------------------------------------------------
Add(p) ==
  RejectComment(p) \/ AssignId(p) \/ Snapshot(p) \/ (\E s \in Sub : Send(p, s)) \/ CountUp(p)
    \/ Posted(p)

Serve(s) == Subscribe(s) \/ Prime(s) \/ TakeEvent(s) \/ WriteEvent(s) \/ End(s)

Next ==
  \/ \E p \in Post : RejectComment(p) \/ AssignId(p) \/ Snapshot(p) \/ CountUp(p) \/ Posted(p)
  \/ \E p \in Post, s \in Sub : Send(p, s)
  \/ \E s \in Sub : Subscribe(s) \/ Prime(s) \/ TakeEvent(s) \/ WriteEvent(s) \/ End(s)
  \/ \E c \in Client : Connect(c) \/ Disconnect(c) \/ StallOrResume(c)

Spec == Init /\ [][Next]_vars

\* Goroutines that can go on do.  Nothing is assumed of the pages.
Fairness ==
  /\ \A p \in Post : WF_vars(Add(p))
  /\ \A s \in Sub : WF_vars(Serve(s)) /\ WF_vars(End(s))

LiveSpec == Spec /\ Fairness

-----------------------------------------------------------------------------
(* Properties.                                                             *)

Live(s) == sub[s].at \in {"prime", "loop", "write"}

Event == [name : {"comment", "count"}, n : Nat]

Subscriber ==
  [at : {"none", "opened", "prime", "loop", "write", "gone"}, out : Event, buf : Seq(Event),
   killed : BOOLEAN, since : Nat, got : SUBSET Nat]

Request ==
  [at : {"new", "rejected", "publish", "send", "done"}, event : Event, targets : SUBSET Sub]

Page ==
  [conns : 0 .. MaxConns, open : BOOLEAN, stalled : BOOLEAN, shown : Seq(Nat), count : Nat]

(* Types; no mailbox holds more than subscriberBufferSize events, which is *)
(* what bounds the memory a page that stopped reading can cost.            *)
TypeOK ==
  /\ seqs \in [Room -> Nat] /\ counters \in [Room -> Nat]
  /\ DOMAIN rooms \subseteq Room /\ rooms \in [DOMAIN rooms -> SUBSET Sub]
  /\ sub \in [Sub -> Subscriber] /\ post \in [Post -> Request] /\ client \in [Client -> Page]
  /\ \A s \in Sub : Len(sub[s].buf) <= BufferSize
  /\ \A c \in Client : Len(client[c].shown) <= MaxShown

(* The Hub's registry is exactly the streams being served: Subscribe and   *)
(* the deferred Unsubscribe leave no dead subscriber and no empty room.    *)
RegistryExact ==
  /\ \A s \in Sub : Live(s) <=> SubRoom(s) \in DOMAIN rooms /\ s \in rooms[SubRoom(s)]
  /\ \A r \in DOMAIN rooms : rooms[r] # {}

\* The comment has left Publish: nothing more of it goes to anybody.
Published(r, n) ==
  /\ n \in 1 .. seqs[r]
  /\ ~\E p \in Post : RoomOf[p] = r /\ post[p].at \in {"publish", "send"} /\ post[p].event = Comment(n)

(* A stream that is not being dropped misses nothing: a comment accepted   *)
(* after it subscribed is in its mailbox or on its wire once published.    *)
NoSilentLoss ==
  \A s \in Sub : Live(s) /\ ~sub[s].killed =>
    \A n \in sub[s].since + 1 .. seqs[SubRoom(s)] : Published(SubRoom(s), n) =>
      \/ n \in sub[s].got
      \/ Comment(n) \in Range(sub[s].buf)
      \/ sub[s].at = "write" /\ sub[s].out = Comment(n)

(* A page lists no comment twice (the id is the React key of its row),     *)
(* although it may hold two subscriptions while an old one is noticed.     *)
NoRepeat == \A c \in Client : IsInjective(client[c].shown)

\* Nothing is being posted, and the streams of the open pages have been emptied.
Settled(c) ==
  /\ client[c].open /\ client[c].conns > 0
  /\ Posting(RoomOf[c]) = {}
  /\ LET s == <<c, client[c].conns>> IN sub[s].at = "loop" /\ sub[s].buf = <<>> /\ ~sub[s].killed

(* When all is settled, an open page displays the number of comments.      *)
CountSettles == \A c \in Client : Settled(c) => client[c].count = counters[RoomOf[c]]

(* Publish never waits for a subscriber, so a request that was begun is    *)
(* answered, however many pages have stopped reading.                      *)
PostsAreAnswered ==
  \A p \in Post : post[p].at = "publish" ~> post[p].at = "done"

(* A dropped subscriber's handler notices the kill and ends, provided its  *)
(* page reads on: the write it may be blocked in has no deadline.          *)
DroppedReaderEnds ==
  \A s \in Sub : <>[](~client[Owner(s)].stalled) => (sub[s].killed ~> sub[s].at = "gone")
=============================================================================
