------------------------------- MODULE Rabbit -------------------------------
(***************************************************************************)
(* One durable queue bound to the `score-events` fanout exchange, as a     *)
(* value and the operations internal/rabbitmqclient performs on it.        *)
(* A service module keeps its own queue in a variable and applies these    *)
(* operators to it; the exchange routes a copy of each published message   *)
(* to every queue that is bound at that moment.                            *)
(*                                                                         *)
(* A message is the natural number of its publication, so the broker's     *)
(* queue order is the order of the numbers.  A message given back with     *)
(* requeue returns to its original position, which is why the waiting      *)
(* messages are a set: the next one to deliver is always the oldest.       *)
(***************************************************************************)
EXTENDS Integers, Sequences, Functions

Queues(Msg) == [bound: BOOLEAN, ready: SUBSET Msg, unacked: Seq(Msg)]

NoQueue == [bound |-> FALSE, ready |-> {}, unacked |-> <<>>]

\* What the broker guarantees: a message waits or is delivered, never both, never twice.
WellFormed(q) == IsInjective(q.unacked) /\ q.ready \cap Range(q.unacked) = {}

\* The messages the broker still answers for: waiting, or delivered and unsettled.
Held(q) == q.ready \cup Range(q.unacked)

\* A bug in the topology: every start begins with an empty (exclusive) queue.
DeclareFreshQueue(q) == [NoQueue EXCEPT !.bound = TRUE]

\* DeclareAndBindQueue is idempotent: the backlog of a durable queue is kept.
DeclareAndBindQueue(q) == [q EXCEPT !.bound = TRUE]

\* Publish to the fanout exchange: an unbound queue gets no copy, and nobody is told.
Publish(q, m) == IF q.bound THEN [q EXCEPT !.ready = @ \cup {m}] ELSE q

Oldest(q, m) == m \in q.ready /\ \A n \in q.ready : m <= n

\* A bug: Consume without Qos, the broker pushes without limit.
CanDeliverUnlimited(q, m, prefetch) == Oldest(q, m)

\* Qos(prefetch): the broker stops pushing once this many deliveries are unsettled.
CanDeliver(q, m, prefetch) == Oldest(q, m) /\ Len(q.unacked) < prefetch

Deliver(q, m) == [q EXCEPT !.ready = @ \ {m}, !.unacked = Append(@, m)]

\* The consumer settles its deliveries in the order it received them.
Ack(q) == [q EXCEPT !.unacked = Tail(@)]

\* A bug: the requeue flag of Nack is ignored.
NackDropping(q, requeue) == Ack(q)

Nack(q, requeue) ==
  [q EXCEPT !.unacked = Tail(@),
            !.ready = IF requeue THEN @ \cup {Head(q.unacked)} ELSE @]

\* A bug: consuming with autoAck, the broker forgets what it has pushed.
ForgetUnacked(q) == [q EXCEPT !.unacked = <<>>]

\* The consumer's connection is gone.  Consume asks for manual acks, so every
\* unsettled delivery waits again, at its old position.
ConsumerGone(q) == [q EXCEPT !.unacked = <<>>, !.ready = Held(q)]
=============================================================================
