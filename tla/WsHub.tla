------------------------------- MODULE WsHub -------------------------------
(***************************************************************************)
(* cmd/api hub.go and handleWebSocket for one notification channel: the    *)
(* set of connections that watch it, the goroutine that reads the Redis    *)
(* subscription and broadcasts to them, and a handler per connection that  *)
(* waits for its end.  Redis PubSub and go-redis' side of it are external: *)
(* what is published while nobody is subscribed is gone, the library       *)
(* subscribes again after a lost connection, and it drops a message its Go *)
(* channel has no room for (for a minute).  Who publishes is not said here: *)
(* module Notifications joins PublishNote to the steps of the notifier.    *)
(***************************************************************************)
EXTENDS Integers, Sequences, FiniteSets, SequencesExt

CONSTANTS
  Conn,      \* WebSocket connections, each used once
  ChanSize,  \* the Go channel of a subscription, 100 in go-redis
  MayStall,  \* the connections whose client may stop reading
  MaxBreaks  \* bound: lost Redis connections

ASSUME WsHubAssumption ==
  /\ MayStall \subseteq Conn
  /\ ChanSize \in Nat \ {0} /\ MaxBreaks \in Nat

VARIABLES
  conns,       \* Hub.conns[channel]
  subscribing, \* Hub.subscribing[channel]
  reader,      \* the subscribeLoop each registration started: subscription and broadcast
  conn,        \* each connection: "new", "open", "gone" (the peer left), "closed" (here), "ended"
  stalled,     \* the connections whose client does not read
  published,   \* how many notifications Redis was given
  breaks,      \* lost Redis connections so far
  got,         \* the notifications each client received
  since,       \* history: what had been published when a connection registered
  lost         \* history: notifications Redis or go-redis did not keep

hubVars == <<conns, subscribing, reader, conn, stalled, published, breaks, got, since, lost>>

NoReader == [at |-> "none", inbox |-> <<>>, note |-> 0, left |-> {}]

HubInit ==
  /\ conns = {} /\ subscribing = FALSE
  /\ reader = [c \in Conn |-> NoReader]
  /\ conn = [c \in Conn |-> "new"] /\ stalled = {}
  /\ published = 0 /\ breaks = 0
  /\ got = [c \in Conn |-> <<>>] /\ since = [c \in Conn |-> 0]
  /\ lost = {}

Client == UNCHANGED <<reader, published, breaks, got, lost>>
Pubsub == UNCHANGED <<conns, subscribing, conn, stalled, since>>

-----------------------------------------------------------------------------
(* The handler of a connection.                                            *)

\* A bug: the subscription is started whenever the set of watchers was empty.
NeedsSubscriptionWhenFirst == conns = {}

NeedsSubscription == ~subscribing

\* A bug: subscribing is read and never set.
RegisterForgetful(c) ==
  /\ conn[c] = "new"
  /\ conn' = [conn EXCEPT ![c] = "open"]
  /\ conns' = conns \cup {c}
  /\ reader' = IF NeedsSubscription THEN [reader EXCEPT ![c].at = "starting"] ELSE reader
  /\ since' = [since EXCEPT ![c] = published]
  /\ UNCHANGED <<subscribing, stalled, published, breaks, got, lost>>

\* Register: one section under the mutex, then the goroutine is started.
Register(c) ==
  /\ conn[c] = "new"
  /\ conn' = [conn EXCEPT ![c] = "open"]
  /\ conns' = conns \cup {c}
  /\ subscribing' = TRUE
  /\ reader' = IF NeedsSubscription THEN [reader EXCEPT ![c].at = "starting"] ELSE reader
  /\ since' = [since EXCEPT ![c] = published]
  /\ UNCHANGED <<stalled, published, breaks, got, lost>>

\* A bug: the whole set of the channel is removed with one connection.
UnregisterAll(c) == conns' = {}

Unregister(c) == conns' = conns \ {c}

\* ReadMessage fails, because the client left or the broadcast closed the connection.
HandlerEnds(c) ==
  /\ conn[c] \in {"gone", "closed"}
  /\ conn' = [conn EXCEPT ![c] = "ended"]
  /\ Unregister(c)
  /\ Client /\ UNCHANGED <<subscribing, stalled, since>>

(* The client: leaves, or stops and starts reading.                        *)
Leave(c) ==
  /\ conn[c] = "open"
  /\ conn' = [conn EXCEPT ![c] = "gone"]
  /\ stalled' = stalled \ {c}
  /\ Client /\ UNCHANGED <<conns, subscribing, since>>

StallOrResume(c) ==
  /\ c \in MayStall /\ conn[c] = "open"
  /\ stalled' = IF c \in stalled THEN stalled \ {c} ELSE stalled \cup {c}
  /\ Client /\ UNCHANGED <<conns, subscribing, conn, since>>

-----------------------------------------------------------------------------
(* Redis and go-redis.                                                     *)

Listening == {r \in Conn : reader[r].at = "listening"}

\* One more notification; Redis hands a copy to each subscription there is.
PublishNote ==
  /\ published' = published + 1
  /\ reader' = [r \in Conn |-> IF r \in Listening
                               THEN [reader[r] EXCEPT !.inbox = Append(@, published')]
                               ELSE reader[r]]
  /\ lost' = IF Listening = {} THEN lost \cup {published'} ELSE lost
  /\ UNCHANGED <<breaks, got>> /\ Pubsub

\* SUBSCRIBE takes effect: the first time, or again after a lost connection.
Subscribe(r) ==
  /\ reader[r].at \in {"starting", "broken"}
  /\ reader' = [reader EXCEPT ![r].at = "listening"]
  /\ UNCHANGED <<published, breaks, got, lost>> /\ Pubsub

\* The Redis connection breaks: what had not reached the Go channel is lost.
ConnectionLost(r) ==
  /\ reader[r].at = "listening" /\ breaks < MaxBreaks
  /\ breaks' = breaks + 1
  /\ \E kept \in 0 .. Len(reader[r].inbox) :
       /\ kept <= ChanSize
       /\ reader' = [reader EXCEPT ![r].at = "broken", ![r].inbox = SubSeq(@, 1, kept)]
       /\ lost' = lost \cup {reader[r].inbox[i] : i \in kept + 1 .. Len(reader[r].inbox)}
  /\ UNCHANGED <<published, got>> /\ Pubsub

\* The Go channel is full for too long: the next message is dropped.
DropOverflow(r) ==
  /\ Len(reader[r].inbox) > ChanSize
  /\ reader' = [reader EXCEPT ![r].inbox = RemoveAt(@, ChanSize + 1)]
  /\ lost' = lost \cup {reader[r].inbox[ChanSize + 1]}
  /\ UNCHANGED <<published, breaks, got>> /\ Pubsub

-----------------------------------------------------------------------------
(* subscribeLoop and broadcast.                                            *)

\* `range sub.Channel()`: the next message, and under the mutex a copy of the set.
Take(r) ==
  /\ reader[r].left = {} /\ reader[r].inbox # <<>>
  /\ reader' = [reader EXCEPT ![r].note = Head(reader[r].inbox), ![r].left = conns,
                              ![r].inbox = Tail(@)]
  /\ UNCHANGED <<published, breaks, got, lost>> /\ Pubsub

Written(r, c) == reader' = [reader EXCEPT ![r].left = @ \ {c}]

\* WriteMessage returns: the client has it, or it went to a peer that is gone.
\* It does not return while the client does not read.
Write(r, c) ==
  /\ c \in reader[r].left \ stalled
  /\ conn[c] \in {"open", "gone"}
  /\ Written(r, c)
  /\ got' = IF conn[c] = "open" THEN [got EXCEPT ![c] = Append(@, reader[r].note)] ELSE got
  /\ UNCHANGED <<published, breaks, lost>> /\ Pubsub

\* A bug: the first error ends the broadcast (return instead of going on).
WriteFailsStopping(r, c) ==
  /\ c \in reader[r].left /\ conn[c] \in {"gone", "closed", "ended"}
  /\ Unregister(c)
  /\ conn' = [conn EXCEPT ![c] = IF @ = "ended" THEN @ ELSE "closed"]
  /\ reader' = [reader EXCEPT ![r].left = {}]
  /\ UNCHANGED <<subscribing, stalled, published, breaks, got, since, lost>>

\* A bug: after an error the broadcast starts again with those who are left.
WriteFailsRestarting(r, c) ==
  /\ c \in reader[r].left /\ conn[c] \in {"gone", "closed", "ended"}
  /\ Unregister(c)
  /\ conn' = [conn EXCEPT ![c] = IF @ = "ended" THEN @ ELSE "closed"]
  /\ reader' = [reader EXCEPT ![r].left = conns']
  /\ UNCHANGED <<subscribing, stalled, published, breaks, got, since, lost>>

\* WriteMessage fails: the connection is unregistered and closed, the rest go on.
WriteFails(r, c) ==
  /\ c \in reader[r].left /\ conn[c] \in {"gone", "closed", "ended"}
  /\ Unregister(c)
  /\ conn' = [conn EXCEPT ![c] = IF @ = "ended" THEN @ ELSE "closed"]
  /\ Written(r, c)
  /\ UNCHANGED <<subscribing, stalled, published, breaks, got, since, lost>>

-----------------------------------------------------------------------------
\* Every step but PublishNote.
HubLocal ==
  \/ \E c \in Conn : Register(c) \/ HandlerEnds(c) \/ Leave(c) \/ StallOrResume(c)
  \/ \E r \in Conn : Subscribe(r) \/ ConnectionLost(r) \/ DropOverflow(r) \/ Take(r)
  \/ \E r, c \in Conn : Write(r, c) \/ WriteFails(r, c)

\* Goroutines that can go on do, and go-redis (re)subscribes.  Clients owe nothing.
HubFairness ==
  /\ \A r \in Conn : WF_hubVars(Subscribe(r)) /\ WF_hubVars(Take(r))
  /\ \A r, c \in Conn : WF_hubVars(Write(r, c) \/ WriteFails(r, c))
  /\ \A c \in Conn : WF_hubVars(HandlerEnds(c))

-----------------------------------------------------------------------------
(* Properties.                                                             *)

Readers == {r \in Conn : reader[r].at # "none"}

\* A subscribeLoop, or the lack of one.
ReaderRecord ==
  [at : {"none", "starting", "listening", "broken"},
   inbox : Seq(1 .. published), note : 0 .. published, left : SUBSET Conn]

HubTypes ==
  /\ conns \subseteq Conn /\ stalled \subseteq MayStall /\ subscribing \in BOOLEAN
  /\ conn \in [Conn -> {"new", "open", "gone", "closed", "ended"}]
  /\ published \in Nat /\ breaks \in Nat
  /\ reader \in [Conn -> ReaderRecord]
  /\ got \in [Conn -> Seq(1 .. published)] /\ since \in [Conn -> 0 .. published]
  /\ lost \subseteq 1 .. published

(* Types; the mark in Hub.subscribing is there if and only if a reader is. *)
HubTypeOK == HubTypes /\ (subscribing <=> Readers # {})

(* "Each channel is subscribed to Redis exactly once no matter how many    *)
(* clients are watching it", whoever leaves and comes back: a second       *)
(* subscribeLoop would write to the same connections concurrently.         *)
OneReader == \A r, s \in Readers : r = s

(* Register, Unregister by the handler and Unregister by the broadcast     *)
(* agree: an open connection is watched, a finished one is forgotten.      *)
RegistryExact ==
  \A c \in Conn :
    /\ conn[c] = "open" => c \in conns
    /\ conn[c] \in {"new", "ended"} => c \notin conns

\* Notification n is still on its way to connection c.
Underway(n, c) ==
  \E r \in Readers : n \in ToSet(reader[r].inbox) \/ (n = reader[r].note /\ c \in reader[r].left)

(* Whoever else leaves or fails: a client that is still there has received *)
(* every notification since it registered, or will, but for those the      *)
(* Redis side lost; and what it received is in the order of publication.   *)
NothingSkipped ==
  \A c \in Conn : conn[c] = "open" =>
    /\ IsInjective(got[c]) /\ \A i, j \in DOMAIN got[c] : i < j => got[c][i] < got[c][j]
    /\ \A n \in since[c] + 1 .. published : n \in ToSet(got[c]) \cup lost \/ Underway(n, c)
=============================================================================
