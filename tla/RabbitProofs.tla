---------------------------- MODULE RabbitProofs ----------------------------
(***************************************************************************)
(* What the operations of Rabbit preserve, for every set of messages.      *)
(***************************************************************************)
EXTENDS Rabbit, SequenceTheorems, TLAPS

\* A queue that is declared for the first time is empty and well formed.
LEMMA NoQueueLemma ==
  ASSUME NEW Msg
  PROVE  /\ NoQueue \in Queues(Msg)
         /\ WellFormed(NoQueue)
         /\ Held(NoQueue) = {}
BY EmptySeq DEF NoQueue, Queues, WellFormed, Held, IsInjective, Range

\* A queue of some messages is a queue of more messages.
LEMMA QueuesMonotonic ==
  ASSUME NEW Msg, NEW More, Msg \subseteq More, NEW q \in Queues(Msg)
  PROVE  q \in Queues(More)
<1>1. Seq(Msg) \subseteq Seq(More)
  BY SeqMonotonic
<1> QED BY <1>1 DEF Queues

\* Declaring again changes nothing but the binding: the backlog is kept.
LEMMA DeclareLemma ==
  ASSUME NEW Msg, NEW q \in Queues(Msg), WellFormed(q)
  PROVE  /\ DeclareAndBindQueue(q) \in Queues(Msg)
         /\ WellFormed(DeclareAndBindQueue(q))
         /\ Held(DeclareAndBindQueue(q)) = Held(q)
         /\ DeclareAndBindQueue(q).unacked = q.unacked
BY DEF DeclareAndBindQueue, Queues, WellFormed, Held

\* Publishing adds at most the new message.
LEMMA PublishLemma ==
  ASSUME NEW Msg, NEW q \in Queues(Msg), WellFormed(q), NEW m \in Msg, m \notin Held(q)
  PROVE  /\ Publish(q, m) \in Queues(Msg)
         /\ WellFormed(Publish(q, m))
         /\ Held(Publish(q, m)) = IF q.bound THEN Held(q) \cup {m} ELSE Held(q)
         /\ Publish(q, m).unacked = q.unacked
<1>1. CASE q.bound
  <2>1. /\ Publish(q, m).ready = q.ready \cup {m}
        /\ Publish(q, m).unacked = q.unacked
        /\ Publish(q, m) \in Queues(Msg)
    BY <1>1 DEF Publish, Queues
  <2>2. WellFormed(Publish(q, m))
    BY <2>1 DEF WellFormed, Held
  <2>3. Held(Publish(q, m)) = Held(q) \cup {m}
    BY <2>1 DEF Held
  <2> QED BY <1>1, <2>1, <2>2, <2>3
<1>2. CASE ~q.bound
  BY <1>2 DEF Publish
<1> QED BY <1>1, <1>2

\* Delivering moves a waiting message to the end of the deliveries.
LEMMA DeliverLemma ==
  ASSUME NEW Msg, NEW q \in Queues(Msg), WellFormed(q), NEW m \in q.ready
  PROVE  /\ Deliver(q, m) \in Queues(Msg)
         /\ WellFormed(Deliver(q, m))
         /\ Held(Deliver(q, m)) = Held(q)
         /\ Len(Deliver(q, m).unacked) = Len(q.unacked) + 1
         /\ q.unacked # <<>> => /\ Deliver(q, m).unacked # <<>>
                                /\ Head(Deliver(q, m).unacked) = Head(q.unacked)
<1> DEFINE u == q.unacked
           v == Append(u, m)
<1>1. /\ u \in Seq(Msg)
      /\ m \in Msg
      /\ m \notin Range(u)
      /\ IsInjective(u)
  BY DEF Queues, WellFormed
<1>2. /\ Deliver(q, m).ready = q.ready \ {m}
      /\ Deliver(q, m).unacked = v
      /\ Deliver(q, m) \in Queues(Msg)
  BY <1>1, AppendProperties DEF Deliver, Queues
<1>3. /\ Len(v) = Len(u) + 1
      /\ \A i \in 1 .. Len(u) : v[i] = u[i]
      /\ v[Len(u) + 1] = m
      /\ DOMAIN u = 1 .. Len(u)
      /\ DOMAIN v = 1 .. Len(u) + 1
      /\ Len(u) \in Nat
  BY <1>1, AppendProperties, LenProperties
<1>4. Range(v) = Range(u) \cup {m}
  BY <1>3 DEF Range
<1>5. IsInjective(v)
  <2>1. \A i \in DOMAIN u : u[i] # m
    BY <1>1 DEF Range
  <2> QED BY <1>1, <1>3, <2>1 DEF IsInjective
<1>6. u # <<>> => v # <<>> /\ Head(v) = Head(u)
  BY <1>1, <1>3, HeadTailProperties
<1> QED
  BY <1>1, <1>2, <1>3, <1>4, <1>5, <1>6 DEF WellFormed, Held

\* The tail of an injective sequence: injective, and without the head.
LEMMA TailInjective ==
  ASSUME NEW S, NEW u \in Seq(S), u # <<>>, IsInjective(u)
  PROVE  /\ Tail(u) \in Seq(S)
         /\ IsInjective(Tail(u))
         /\ Range(Tail(u)) = Range(u) \ {Head(u)}
         /\ Head(u) \in Range(u)
         /\ Len(Tail(u)) = Len(u) - 1
<1>1. /\ Tail(u) \in Seq(S)
      /\ Len(u) \in Nat \ {0}
      /\ Len(Tail(u)) = Len(u) - 1
      /\ DOMAIN u = 1 .. Len(u)
      /\ DOMAIN Tail(u) = 1 .. Len(u) - 1
      /\ \A i \in 1 .. Len(u) - 1 : Tail(u)[i] = u[i + 1]
      /\ Head(u) = u[1]
  BY HeadTailProperties, LenProperties
<1>2. IsInjective(Tail(u))
  BY <1>1 DEF IsInjective
<1>3. \A i \in 1 .. Len(u) - 1 : u[i + 1] # u[1]
  BY <1>1 DEF IsInjective
<1>4. Range(Tail(u)) = Range(u) \ {u[1]}
  <2>1. ASSUME NEW x \in Range(Tail(u))
        PROVE  x \in Range(u) \ {u[1]}
    BY <1>1, <1>3, <2>1 DEF Range
  <2>2. ASSUME NEW x \in Range(u), x # u[1]
        PROVE  x \in Range(Tail(u))
    <3>1. PICK i \in 1 .. Len(u) : u[i] = x
      BY <1>1 DEF Range
    <3>2. i - 1 \in 1 .. Len(u) - 1 /\ Tail(u)[i - 1] = x
      BY <1>1, <2>2, <3>1
    <3> QED BY <1>1, <3>2 DEF Range
  <2> QED BY <2>1, <2>2
<1>5. u[1] \in Range(u)
  BY <1>1 DEF Range
<1> QED BY <1>1, <1>2, <1>4, <1>5

\* Settling with Ack: the oldest delivery leaves the queue, and only it.
LEMMA AckLemma ==
  ASSUME NEW Msg, NEW q \in Queues(Msg), WellFormed(q), q.unacked # <<>>
  PROVE  /\ Ack(q) \in Queues(Msg)
         /\ WellFormed(Ack(q))
         /\ Held(Ack(q)) = Held(q) \ {Head(q.unacked)}
         /\ Len(Ack(q).unacked) = Len(q.unacked) - 1
         /\ Head(q.unacked) \in Held(q)
<1>1. q.unacked \in Seq(Msg) /\ IsInjective(q.unacked)
  BY DEF Queues, WellFormed
<1>2. /\ Ack(q).ready = q.ready
      /\ Ack(q).unacked = Tail(q.unacked)
      /\ Ack(q) \in Queues(Msg)
  BY <1>1, TailInjective DEF Ack, Queues
<1> QED BY <1>1, <1>2, TailInjective DEF WellFormed, Held

\* Rejecting without requeue settles like Ack does.
LEMMA NackDropLemma ==
  ASSUME NEW Msg, NEW q \in Queues(Msg)
  PROVE  Nack(q, FALSE) = Ack(q)
BY DEF Nack, Ack, Queues

\* Rejecting with requeue keeps every message.
LEMMA NackRequeueLemma ==
  ASSUME NEW Msg, NEW q \in Queues(Msg), WellFormed(q), q.unacked # <<>>
  PROVE  /\ Nack(q, TRUE) \in Queues(Msg)
         /\ WellFormed(Nack(q, TRUE))
         /\ Held(Nack(q, TRUE)) = Held(q)
         /\ Len(Nack(q, TRUE).unacked) = Len(q.unacked) - 1
         /\ Head(q.unacked) \in Held(q)
<1> DEFINE h == Head(q.unacked)
<1>1. q.unacked \in Seq(Msg) /\ IsInjective(q.unacked)
  BY DEF Queues, WellFormed
<1>2. h \in Msg
  BY <1>1, HeadTailProperties
<1>3. /\ Nack(q, TRUE).ready = q.ready \cup {h}
      /\ Nack(q, TRUE).unacked = Tail(q.unacked)
      /\ Nack(q, TRUE) \in Queues(Msg)
  BY <1>1, <1>2, TailInjective DEF Nack, Queues
<1> QED BY <1>1, <1>3, TailInjective DEF WellFormed, Held

\* A consumer that goes away gives everything it had back.
LEMMA ConsumerGoneLemma ==
  ASSUME NEW Msg, NEW q \in Queues(Msg)
  PROVE  /\ ConsumerGone(q) \in Queues(Msg)
         /\ WellFormed(ConsumerGone(q))
         /\ Held(ConsumerGone(q)) = Held(q)
         /\ ConsumerGone(q).unacked = <<>>
<1>1. q.unacked \in Seq(Msg) /\ q.ready \subseteq Msg
  BY DEF Queues
<1>2. Held(q) \in SUBSET Msg /\ <<>> \in Seq(Msg)
  BY <1>1, RangeOfSeq, EmptySeq DEF Held
<1>3. /\ ConsumerGone(q).ready = Held(q)
      /\ ConsumerGone(q).unacked = <<>>
      /\ ConsumerGone(q) \in Queues(Msg)
  BY <1>2 DEF ConsumerGone, Queues
<1>4. Range(<<>>) = {} /\ IsInjective(<<>>)
  BY EmptySeq DEF Range, IsInjective
<1> QED BY <1>3, <1>4 DEF WellFormed, Held
=============================================================================
