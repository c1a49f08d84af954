------------------------ MODULE HistoryWriterProofs ------------------------
(***************************************************************************)
(* The safety of cmd/historywriter for every number of messages, prefetch  *)
(* and number of faults: nothing the queue received is lost, each extra    *)
(* copy is paid for by a fault, and the writer implements EventLog.        *)
(***************************************************************************)
EXTENDS HistoryWriter, RabbitProofs

\* Between the insert and its ack the inserted event is the oldest delivery.
RecordedIsHead ==
  hw = "recorded" =>
    /\ writerQueue.unacked # <<>>
    /\ Head(writerQueue.unacked) \in Event \ Malformed
    /\ rows[Head(writerQueue.unacked)] > 0

\* Rows exist only for messages that were published.
RowsWerePublished == \A m \in Event : rows[m] > 0 => m \in 1 .. published

IInv ==
  /\ WriterTypeOK
  /\ RecordedIsHead
  /\ RowsWerePublished
  /\ NothingRoutedIsLost
  /\ CopiesBounded

-----------------------------------------------------------------------------
\* Nothing is published, delivered or written before the first step.
LEMMA InitIInv == WriterInit => IInv
<1> SUFFICES ASSUME WriterInit PROVE IInv
  OBVIOUS
<1>1. published = 0 /\ writerQueue = NoQueue /\ routed = {} /\ hw = "down" /\ writerFaults = 0
  BY DEF WriterInit
<1>2. rows = [m \in Event |-> 0] /\ mysqlUp = TRUE
  BY DEF WriterInit
<1>3. WriterTypeOK
  <2>1. Len(writerQueue.unacked) <= WriterPrefetch
    BY <1>1, WriterAssumption, EmptySeq DEF NoQueue
  <2> QED BY <1>1, <1>2, <2>1, NoQueueLemma, WriterAssumption DEF WriterTypeOK
<1>4. CopiesBounded
  BY <1>1, <1>2 DEF CopiesBounded
<1> QED BY <1>1, <1>2, <1>3, <1>4
        DEF IInv, RecordedIsHead, RowsWerePublished, NothingRoutedIsLost

\* The message being handled is a published one, and the queue can settle it.
LEMMA HandlingLemma ==
  ASSUME WriterTypeOK, NEW m \in Event, Writing(m)
  PROVE  /\ writerQueue \in Queues(1 .. published)
         /\ WellFormed(writerQueue)
         /\ writerQueue.unacked # <<>>
         /\ m = Head(writerQueue.unacked)
         /\ m \in Held(writerQueue)
         /\ m \in 1 .. published
         /\ hw = "receiving"
<1>1. writerQueue.unacked # <<>> /\ m = Head(writerQueue.unacked) /\ hw = "receiving"
  BY DEF Writing
<1>2. writerQueue \in Queues(1 .. published) /\ WellFormed(writerQueue)
  BY DEF WriterTypeOK
<1>3. m \in Held(writerQueue)
  BY <1>1, <1>2, AckLemma
<1>4. writerQueue.unacked \in Seq(1 .. published)
  BY <1>2 DEF Queues
<1>5. m \in 1 .. published
  BY <1>1, <1>4, HeadTailProperties
<1> QED BY <1>1, <1>2, <1>3, <1>5

\* The types and the shape of the queue survive every step.
LEMMA TypeInductive == IInv /\ [WriterNext]_writerVars => WriterTypeOK'
<1> SUFFICES ASSUME IInv, [WriterNext]_writerVars PROVE WriterTypeOK'
  OBVIOUS
<1> USE WriterAssumption
<1>0. /\ WriterTypeOK
      /\ writerQueue \in Queues(1 .. published) /\ WellFormed(writerQueue)
      /\ published \in 0 .. MaxEvents /\ Len(writerQueue.unacked) <= WriterPrefetch
      /\ routed \subseteq 1 .. published /\ writerFaults \in 0 .. MaxWriterFaults
      /\ rows \in [Event -> Nat] /\ hw \in {"down", "receiving", "recorded"}
      /\ mysqlUp \in BOOLEAN
  BY DEF IInv, WriterTypeOK
<1>l. Len(writerQueue.unacked) \in Nat
  BY <1>0, LenProperties DEF Queues
<1>1. CASE PublishScored
  <2> DEFINE n == published + 1
  <2>1. /\ writerQueue \in Queues(1 .. n) /\ n \in 1 .. n /\ n \notin Held(writerQueue)
        /\ 1 .. published \subseteq 1 .. n
    <3>1. 1 .. published \subseteq 1 .. n /\ n \in 1 .. n /\ n \notin 1 .. published
      BY <1>0
    <3>2. Held(writerQueue) \subseteq 1 .. published
      BY <1>0, RangeOfSeq DEF Held, Queues
    <3> QED BY <1>0, <3>1, <3>2, QueuesMonotonic
  <2>2. Publish(writerQueue, n) \in Queues(1 .. n) /\ WellFormed(Publish(writerQueue, n))
        /\ Publish(writerQueue, n).unacked = writerQueue.unacked
    BY <1>0, <2>1, PublishLemma
  <2>3. /\ published' = n /\ writerQueue' = Publish(writerQueue, n)
        /\ routed' \subseteq routed \cup {n}
        /\ published < MaxEvents
        /\ UNCHANGED <<hw, rows, mysqlUp, writerFaults>>
    BY <1>1 DEF PublishScored
  <2> QED BY <1>0, <2>1, <2>2, <2>3 DEF WriterTypeOK
<1>2. CASE StartWriter
  <2>1. /\ DeclareAndBindQueue(writerQueue) \in Queues(1 .. published)
        /\ WellFormed(DeclareAndBindQueue(writerQueue))
        /\ DeclareAndBindQueue(writerQueue).unacked = writerQueue.unacked
    BY <1>0, DeclareLemma
  <2> QED BY <1>0, <1>2, <2>1 DEF WriterTypeOK, StartWriter
<1>3. ASSUME NEW m \in Event, PushEvent(m) PROVE WriterTypeOK'
  <2>1. m \in writerQueue.ready /\ Len(writerQueue.unacked) < WriterPrefetch
    BY <1>3 DEF PushEvent, CanDeliver, Oldest
  <2>2. /\ Deliver(writerQueue, m) \in Queues(1 .. published)
        /\ WellFormed(Deliver(writerQueue, m))
        /\ Len(Deliver(writerQueue, m).unacked) = Len(writerQueue.unacked) + 1
    BY <1>0, <2>1, DeliverLemma
  <2> QED BY <1>0, <1>l, <1>3, <2>1, <2>2 DEF WriterTypeOK, PushEvent
<1>4. ASSUME NEW m \in Event, DropUnparseable(m) PROVE WriterTypeOK'
  <2>1. Writing(m) /\ writerQueue' = Nack(writerQueue, FALSE)
    BY <1>4 DEF DropUnparseable
  <2>2. /\ writerQueue' \in Queues(1 .. published) /\ WellFormed(writerQueue')
        /\ Len(writerQueue'.unacked) = Len(writerQueue.unacked) - 1
    <3>1. writerQueue' = Ack(writerQueue)
      BY <1>0, <2>1, NackDropLemma
    <3>2. writerQueue.unacked # <<>>
      BY <1>0, <2>1, HandlingLemma
    <3> QED BY <1>0, <3>1, <3>2, AckLemma
  <2>3. UNCHANGED <<published, routed, hw, rows, mysqlUp, writerFaults>>
    BY <1>4 DEF DropUnparseable
  <2> QED BY <1>0, <1>l, <2>2, <2>3 DEF WriterTypeOK
<1>5. ASSUME NEW m \in Event, InsertScoreEvent(m) PROVE WriterTypeOK'
  BY <1>0, <1>5 DEF WriterTypeOK, InsertScoreEvent
<1>6. ASSUME NEW m \in Event, InsertFails(m) \/ InsertReplyLost(m) PROVE WriterTypeOK'
  <2>1. Writing(m) /\ writerQueue' = Nack(writerQueue, TRUE)
    BY <1>6 DEF InsertFails, InsertReplyLost
  <2>2. /\ writerQueue' \in Queues(1 .. published) /\ WellFormed(writerQueue')
        /\ Len(writerQueue'.unacked) = Len(writerQueue.unacked) - 1
    BY <1>0, <2>1, HandlingLemma, NackRequeueLemma
  <2>3. /\ rows' \in [Event -> Nat] /\ writerFaults' \in 0 .. MaxWriterFaults
        /\ UNCHANGED <<published, routed, hw, mysqlUp>>
    <3>1. CASE InsertFails(m)
      BY <1>0, <3>1 DEF InsertFails
    <3>2. CASE InsertReplyLost(m)
      BY <1>0, <3>2 DEF InsertReplyLost
    <3> QED BY <1>6, <3>1, <3>2
  <2> QED BY <1>0, <1>l, <2>2, <2>3 DEF WriterTypeOK
<1>7. CASE AckRecorded
  <2>1. writerQueue.unacked # <<>>
    BY <1>7 DEF IInv, RecordedIsHead, AckRecorded
  <2>2. /\ Ack(writerQueue) \in Queues(1 .. published) /\ WellFormed(Ack(writerQueue))
        /\ Len(Ack(writerQueue).unacked) = Len(writerQueue.unacked) - 1
    BY <1>0, <2>1, AckLemma
  <2> QED BY <1>0, <1>l, <1>7, <2>2 DEF WriterTypeOK, AckRecorded
<1>8. CASE WriterStops
  <2>1. /\ ConsumerGone(writerQueue) \in Queues(1 .. published) /\ WellFormed(ConsumerGone(writerQueue))
        /\ Len(ConsumerGone(writerQueue).unacked) = 0
    BY <1>0, ConsumerGoneLemma, EmptySeq
  <2> QED BY <1>0, <1>8, <2>1 DEF WriterTypeOK, WriterStops
<1>9. CASE MySQLChanges
  BY <1>0, <1>9 DEF WriterTypeOK, MySQLChanges
<1>10. CASE UNCHANGED writerVars
  BY <1>0, <1>10 DEF WriterTypeOK, writerVars
<1> QED
  BY <1>1, <1>2, <1>3, <1>4, <1>5, <1>6, <1>7, <1>8, <1>9, <1>10 DEF WriterNext

-----------------------------------------------------------------------------
\* What each step does to the messages the broker holds.
LEMMA HeldAfterStep ==
  ASSUME IInv
  PROVE  /\ PublishScored =>
              /\ Held(writerQueue') = IF writerQueue.bound THEN Held(writerQueue) \cup {published + 1}
                                ELSE Held(writerQueue)
              /\ writerQueue'.unacked = writerQueue.unacked
         /\ StartWriter => Held(writerQueue') = Held(writerQueue)
         /\ \A m \in Event : PushEvent(m) =>
              /\ Held(writerQueue') = Held(writerQueue)
              /\ writerQueue.unacked # <<>> => /\ writerQueue'.unacked # <<>>
                                         /\ Head(writerQueue'.unacked) = Head(writerQueue.unacked)
         /\ \A m \in Event : DropUnparseable(m) => Held(writerQueue') = Held(writerQueue) \ {m}
         /\ \A m \in Event : InsertFails(m) \/ InsertReplyLost(m) => Held(writerQueue') = Held(writerQueue)
         /\ AckRecorded => Held(writerQueue') = Held(writerQueue) \ {Head(writerQueue.unacked)}
         /\ WriterStops => Held(writerQueue') = Held(writerQueue)
<1>0. writerQueue \in Queues(1 .. published) /\ WellFormed(writerQueue) /\ WriterTypeOK /\ published \in Nat
  BY DEF IInv, WriterTypeOK
<1>1. ASSUME PublishScored
      PROVE  /\ Held(writerQueue') = IF writerQueue.bound THEN Held(writerQueue) \cup {published + 1}
                               ELSE Held(writerQueue)
             /\ writerQueue'.unacked = writerQueue.unacked
  <2>1. 1 .. published \subseteq 1 .. published + 1 /\ published + 1 \in 1 .. published + 1
    BY <1>0
  <2>2. Held(writerQueue) \subseteq 1 .. published
    BY <1>0, RangeOfSeq DEF Held, Queues
  <2>3. published + 1 \notin Held(writerQueue)
    BY <1>0, <2>2
  <2>4. writerQueue \in Queues(1 .. published + 1)
    BY <1>0, <2>1, QueuesMonotonic
  <2>5. writerQueue' = Publish(writerQueue, published + 1)
    BY <1>1 DEF PublishScored
  <2> QED BY <1>0, <2>1, <2>3, <2>4, <2>5, PublishLemma
<1>2. StartWriter => Held(writerQueue') = Held(writerQueue)
  BY <1>0, DeclareLemma DEF StartWriter
<1>3. ASSUME NEW m \in Event, PushEvent(m)
      PROVE  /\ Held(writerQueue') = Held(writerQueue)
             /\ writerQueue.unacked # <<>> => /\ writerQueue'.unacked # <<>>
                                        /\ Head(writerQueue'.unacked) = Head(writerQueue.unacked)
  <2>1. m \in writerQueue.ready /\ writerQueue' = Deliver(writerQueue, m)
    BY <1>3 DEF PushEvent, CanDeliver, Oldest
  <2> QED BY <1>0, <2>1, DeliverLemma
<1>4. ASSUME NEW m \in Event, DropUnparseable(m)
      PROVE  Held(writerQueue') = Held(writerQueue) \ {m}
  <2>1. Writing(m) /\ writerQueue' = Nack(writerQueue, FALSE)
    BY <1>4 DEF DropUnparseable
  <2> QED BY <1>0, <2>1, HandlingLemma, AckLemma, NackDropLemma
<1>5. ASSUME NEW m \in Event, InsertFails(m) \/ InsertReplyLost(m)
      PROVE  Held(writerQueue') = Held(writerQueue)
  <2>1. Writing(m) /\ writerQueue' = Nack(writerQueue, TRUE)
    BY <1>5 DEF InsertFails, InsertReplyLost
  <2> QED BY <1>0, <2>1, HandlingLemma, NackRequeueLemma
<1>6. AckRecorded => Held(writerQueue') = Held(writerQueue) \ {Head(writerQueue.unacked)}
  <2>1. AckRecorded => writerQueue.unacked # <<>> /\ writerQueue' = Ack(writerQueue)
    BY DEF IInv, RecordedIsHead, AckRecorded
  <2> QED BY <1>0, <2>1, AckLemma
<1>7. WriterStops => Held(writerQueue') = Held(writerQueue)
  BY <1>0, ConsumerGoneLemma DEF WriterStops
<1> QED BY <1>1, <1>2, <1>3, <1>4, <1>5, <1>6, <1>7

\* The inserted event stays the oldest delivery until it is acknowledged.
LEMMA RecordedIsHeadInductive == IInv /\ [WriterNext]_writerVars => RecordedIsHead'
<1> SUFFICES ASSUME IInv, [WriterNext]_writerVars, hw' = "recorded"
             PROVE  /\ writerQueue'.unacked # <<>>
                    /\ Head(writerQueue'.unacked) \in Event \ Malformed
                    /\ rows'[Head(writerQueue'.unacked)] > 0
  BY DEF RecordedIsHead
<1>0. rows \in [Event -> Nat]
  BY DEF IInv, WriterTypeOK
<1>1. ASSUME NEW m \in Event, InsertScoreEvent(m)
      PROVE  /\ writerQueue'.unacked # <<>>
             /\ Head(writerQueue'.unacked) \in Event \ Malformed
             /\ rows'[Head(writerQueue'.unacked)] > 0
  <2>1. Writing(m) /\ m \notin Malformed /\ writerQueue' = writerQueue
        /\ rows' = [rows EXCEPT ![m] = @ + 1]
    BY <1>1 DEF InsertScoreEvent
  <2> QED BY <1>0, <2>1 DEF Writing
<1>2. CASE hw = "recorded"
  <2>1. /\ writerQueue.unacked # <<>>
        /\ Head(writerQueue.unacked) \in Event \ Malformed
        /\ rows[Head(writerQueue.unacked)] > 0
    BY <1>2 DEF IInv, RecordedIsHead
  <2>2. CASE PublishScored
    BY <2>1, <2>2, HeldAfterStep DEF PublishScored
  <2>3. ASSUME NEW m \in Event, PushEvent(m)
        PROVE  /\ writerQueue'.unacked # <<>>
               /\ Head(writerQueue'.unacked) \in Event \ Malformed
               /\ rows'[Head(writerQueue'.unacked)] > 0
    BY <2>1, <2>3, HeldAfterStep DEF PushEvent
  <2>4. CASE MySQLChanges \/ UNCHANGED writerVars
    BY <2>1, <2>4 DEF MySQLChanges, writerVars
  <2> QED BY <1>1, <1>2, <2>2, <2>3, <2>4
          DEF WriterNext, StartWriter, DropUnparseable, InsertFails, InsertReplyLost, AckRecorded, WriterStops, Writing
<1>3. CASE hw # "recorded"
  BY <1>1, <1>3 DEF WriterNext, PublishScored, StartWriter, PushEvent, DropUnparseable, InsertFails,
                    InsertReplyLost, AckRecorded, WriterStops, MySQLChanges, writerVars
<1> QED BY <1>2, <1>3

\* Only a message that was handled, hence published, gets a row.
LEMMA RowsWerePublishedInductive == IInv /\ [WriterNext]_writerVars => RowsWerePublished'
<1> SUFFICES ASSUME IInv, [WriterNext]_writerVars, NEW e \in Event, rows'[e] > 0
             PROVE  e \in 1 .. published'
  BY DEF RowsWerePublished
<1>0. rows \in [Event -> Nat] /\ published \in Nat /\ WriterTypeOK
      /\ (rows[e] > 0 => e \in 1 .. published)
  BY DEF IInv, WriterTypeOK, RowsWerePublished
<1>1. ASSUME NEW m \in Event, InsertScoreEvent(m) \/ InsertReplyLost(m)
      PROVE  e \in 1 .. published'
  <2>1. Writing(m) /\ published' = published /\ rows' = [rows EXCEPT ![m] = @ + 1]
    BY <1>1 DEF InsertScoreEvent, InsertReplyLost
  <2>2. m \in 1 .. published
    BY <1>0, <2>1, HandlingLemma
  <2> QED BY <1>0, <2>1, <2>2
<1>2. CASE PublishScored
  BY <1>0, <1>2 DEF PublishScored
<1>3. CASE rows' = rows /\ published' = published
  BY <1>0, <1>3
<1> QED BY <1>1, <1>2, <1>3
        DEF WriterNext, StartWriter, PushEvent, DropUnparseable, InsertFails, AckRecorded, WriterStops,
            MySQLChanges, writerVars

\* A message leaves the queue malformed or recorded, and rows are never deleted.
LEMMA NothingRoutedIsLostInductive == IInv /\ [WriterNext]_writerVars => NothingRoutedIsLost'
<1> SUFFICES ASSUME IInv, [WriterNext]_writerVars, NEW e \in routed' \ Malformed
             PROVE  e \in Held(writerQueue') \/ rows'[e] > 0
  BY DEF NothingRoutedIsLost
<1>0. /\ WriterTypeOK /\ rows \in [Event -> Nat]
      /\ (e \in routed => e \in Held(writerQueue) \/ rows[e] > 0)
      /\ routed \subseteq Event /\ published \in Nat
  <2>1. routed \subseteq 1 .. published /\ published \in 0 .. MaxEvents
    BY DEF IInv, WriterTypeOK
  <2>2. 1 .. published \subseteq Event
    BY <2>1, WriterAssumption DEF Event
  <2>3. e \in routed => e \in Held(writerQueue) \/ rows[e] > 0
    BY DEF IInv, NothingRoutedIsLost
  <2>4. WriterTypeOK /\ rows \in [Event -> Nat]
    BY DEF IInv, WriterTypeOK
  <2>5. routed \subseteq Event
    BY <2>1, <2>2
  <2>6. published \in Nat
    BY <2>1, WriterAssumption
  <2> QED BY <2>3, <2>4, <2>5, <2>6
<1>1. CASE PublishScored
  <2>1. /\ rows' = rows
        /\ routed' = IF writerQueue.bound THEN routed \cup {published + 1} ELSE routed
    BY <1>1 DEF PublishScored
  <2> QED BY <1>0, <1>1, <2>1, HeldAfterStep
<1>2. ASSUME NEW m \in Event, DropUnparseable(m)
      PROVE  e \in Held(writerQueue') \/ rows'[e] > 0
  BY <1>0, <1>2, HeldAfterStep DEF DropUnparseable
<1>3. ASSUME NEW m \in Event, InsertScoreEvent(m)
      PROVE  e \in Held(writerQueue') \/ rows'[e] > 0
  <2>1. routed' = routed /\ writerQueue' = writerQueue /\ rows' = [rows EXCEPT ![m] = @ + 1]
    BY <1>3 DEF InsertScoreEvent
  <2> QED BY <1>0, <2>1
<1>4. ASSUME NEW m \in Event, InsertFails(m) \/ InsertReplyLost(m)
      PROVE  e \in Held(writerQueue') \/ rows'[e] > 0
  <2>1. routed' = routed /\ Held(writerQueue') = Held(writerQueue)
    BY <1>4, HeldAfterStep DEF InsertFails, InsertReplyLost
  <2>2. rows' = rows \/ rows' = [rows EXCEPT ![m] = @ + 1]
    BY <1>4 DEF InsertFails, InsertReplyLost
  <2> QED BY <1>0, <2>1, <2>2
<1>5. CASE AckRecorded
  <2>1. /\ routed' = routed /\ rows' = rows
        /\ rows[Head(writerQueue.unacked)] > 0
        /\ Held(writerQueue') = Held(writerQueue) \ {Head(writerQueue.unacked)}
    BY <1>5, HeldAfterStep DEF AckRecorded, IInv, RecordedIsHead
  <2> QED BY <1>0, <2>1
<1>6. CASE Held(writerQueue') = Held(writerQueue) /\ routed' = routed /\ rows' = rows
  BY <1>0, <1>6
<1>7. /\ StartWriter => UNCHANGED <<routed, rows>>
      /\ \A m \in Event : PushEvent(m) => UNCHANGED <<routed, rows>>
      /\ WriterStops => UNCHANGED <<routed, rows>>
      /\ MySQLChanges \/ UNCHANGED writerVars => UNCHANGED <<writerQueue, routed, rows>>
  BY DEF StartWriter, PushEvent, WriterStops, MySQLChanges, writerVars
<1> QED BY <1>1, <1>2, <1>3, <1>4, <1>5, <1>6, <1>7, HeldAfterStep DEF WriterNext

\* An event still to be settled has at most one row per fault; a settled one,
\* or one about to be, has one more.
LEMMA CopiesBoundedInductive == IInv /\ [WriterNext]_writerVars => CopiesBounded'
<1> SUFFICES ASSUME IInv, [WriterNext]_writerVars, NEW e \in Event
             PROVE  /\ rows'[e] <= writerFaults' + 1
                    /\ e \in Held(writerQueue') /\ ~AboutToAck(e)' => rows'[e] <= writerFaults'
  BY DEF CopiesBounded
<1> DEFINE Goal == /\ rows'[e] <= writerFaults' + 1
                   /\ e \in Held(writerQueue') /\ ~AboutToAck(e)' => rows'[e] <= writerFaults'
<1>0. /\ WriterTypeOK /\ rows \in [Event -> Nat] /\ writerFaults \in Nat /\ published \in Nat
      /\ rows[e] \in Nat
      /\ rows[e] <= writerFaults + 1
      /\ e \in Held(writerQueue) /\ ~AboutToAck(e) => rows[e] <= writerFaults
  BY WriterAssumption DEF IInv, WriterTypeOK, CopiesBounded
<1>1. CASE PublishScored
  <2>1. /\ rows' = rows /\ writerFaults' = writerFaults /\ hw' = hw /\ writerQueue'.unacked = writerQueue.unacked
        /\ Held(writerQueue') \subseteq Held(writerQueue) \cup {published + 1}
    BY <1>1, HeldAfterStep DEF PublishScored
  <2>2. rows[e] > 0 => e # published + 1
    BY <1>0 DEF IInv, RowsWerePublished
  <2> QED BY <1>0, <2>1, <2>2 DEF AboutToAck
<1>2. CASE StartWriter
  BY <1>0, <1>2, HeldAfterStep DEF StartWriter, AboutToAck
<1>3. ASSUME NEW m \in Event, PushEvent(m) PROVE Goal
  <2>1. hw = "recorded" => writerQueue.unacked # <<>>
    BY DEF IInv, RecordedIsHead
  <2> QED BY <1>0, <1>3, <2>1, HeldAfterStep DEF PushEvent, AboutToAck
<1>4. ASSUME NEW m \in Event, DropUnparseable(m) PROVE Goal
  BY <1>0, <1>4, HeldAfterStep DEF DropUnparseable, Writing, AboutToAck
<1>5. ASSUME NEW m \in Event, InsertScoreEvent(m) PROVE Goal
  <2>1. /\ Writing(m) /\ rows' = [rows EXCEPT ![m] = @ + 1]
        /\ hw' = "recorded" /\ writerQueue' = writerQueue /\ writerFaults' = writerFaults
    BY <1>5 DEF InsertScoreEvent
  <2>2. m \in Held(writerQueue) /\ hw = "receiving" /\ m = Head(writerQueue.unacked)
    BY <1>0, <2>1, HandlingLemma
  <2>3. CASE e = m
    BY <1>0, <2>1, <2>2, <2>3 DEF AboutToAck
  <2>4. CASE e # m
    BY <1>0, <2>1, <2>2, <2>4 DEF AboutToAck
  <2> QED BY <2>3, <2>4
<1>6. ASSUME NEW m \in Event, InsertFails(m) PROVE Goal
  BY <1>0, <1>6, HeldAfterStep DEF InsertFails, Writing, AboutToAck
<1>7. ASSUME NEW m \in Event, InsertReplyLost(m) PROVE Goal
  <2>1. /\ Writing(m) /\ rows' = [rows EXCEPT ![m] = @ + 1]
        /\ hw' = hw /\ Held(writerQueue') = Held(writerQueue) /\ writerFaults' = writerFaults + 1
    BY <1>7, HeldAfterStep DEF InsertReplyLost
  <2>2. m \in Held(writerQueue) /\ hw = "receiving"
    BY <1>0, <2>1, HandlingLemma
  <2>3. CASE e = m
    BY <1>0, <2>1, <2>2, <2>3 DEF AboutToAck
  <2>4. CASE e # m
    BY <1>0, <2>1, <2>2, <2>4 DEF AboutToAck
  <2> QED BY <2>3, <2>4
<1>8. CASE AckRecorded
  <2>1. /\ rows' = rows /\ writerFaults' = writerFaults
        /\ Held(writerQueue') = Held(writerQueue) \ {Head(writerQueue.unacked)}
    BY <1>8, HeldAfterStep DEF AckRecorded
  <2> QED BY <1>0, <2>1 DEF AboutToAck
<1>9. CASE WriterStops
  BY <1>0, <1>9, HeldAfterStep DEF WriterStops, AboutToAck
<1>10. CASE MySQLChanges
  BY <1>0, <1>10 DEF MySQLChanges, AboutToAck
<1>11. CASE UNCHANGED writerVars
  BY <1>0, <1>11 DEF writerVars, AboutToAck
<1> QED
  BY <1>1, <1>2, <1>3, <1>4, <1>5, <1>6, <1>7, <1>8, <1>9, <1>10, <1>11 DEF WriterNext

-----------------------------------------------------------------------------
\* The invariant of historywriter: types, and the shape of the broker's queue.
THEOREM Invariant == WriterSpec => []IInv
<1>1. WriterInit => IInv
  BY InitIInv
<1>2. IInv /\ [WriterNext]_writerVars => IInv'
  BY TypeInductive, RecordedIsHeadInductive, RowsWerePublishedInductive,
     NothingRoutedIsLostInductive, CopiesBoundedInductive DEF IInv
<1> QED BY <1>1, <1>2, PTL DEF WriterSpec

\* Types are preserved, and the broker's queue keeps its shape.
THEOREM TypeCorrect == WriterSpec => []WriterTypeOK
<1>1. IInv => WriterTypeOK
  BY DEF IInv
<1> QED BY <1>1, Invariant, PTL

\* Manual acks after the insert: no crash, outage or lost reply loses an event.
THEOREM NoLoss == WriterSpec => []NothingRoutedIsLost
<1>1. IInv => NothingRoutedIsLost
  BY DEF IInv
<1> QED BY <1>1, Invariant, PTL

\* An event is in MySQL at most once more often than there were faults.
THEOREM BoundedCopies == WriterSpec => []CopiesBounded
<1>1. IInv => CopiesBounded
  BY DEF IInv
<1> QED BY <1>1, Invariant, PTL

\* Every step of historywriter is a step of the event log, or none.
THEOREM Refinement == WriterSpec => ImplementsEventLog
<1> DEFINE p == {m \in Held(writerQueue) \ Malformed : rows[m] = 0}
           r == {m \in Event : rows[m] > 0}
<1>1. WriterInit => Log!Init
  BY NoQueueLemma DEF WriterInit, Log!Init
<1>2. ASSUME IInv, [WriterNext]_writerVars
      PROVE  [Log!Next]_(Log!vars)
  <2>0. /\ WriterTypeOK /\ rows \in [Event -> Nat] /\ Held(writerQueue) \subseteq 1 .. published
        /\ published \in Nat /\ 1 .. published \subseteq Event
    <3>1. writerQueue \in Queues(1 .. published) /\ published \in 0 .. MaxEvents
      BY <1>2 DEF IInv, WriterTypeOK
    <3>2. Held(writerQueue) \subseteq 1 .. published
      BY <3>1, RangeOfSeq DEF Held, Queues
    <3>3. 1 .. published \subseteq Event
      BY <3>1, WriterAssumption DEF Event
    <3> QED BY <1>2, <3>1, <3>2, <3>3 DEF IInv, WriterTypeOK
  <2>1. CASE PublishScored
    <3> DEFINE n == published + 1
    <3>1. /\ rows' = rows /\ n \in Event
          /\ Held(writerQueue') = IF writerQueue.bound THEN Held(writerQueue) \cup {n} ELSE Held(writerQueue)
      BY <1>2, <2>0, <2>1, HeldAfterStep, WriterAssumption DEF PublishScored, Event
    <3>2. n \notin Held(writerQueue) /\ rows[n] = 0
      BY <1>2, <2>0, <3>1 DEF IInv, RowsWerePublished
    <3>3. CASE writerQueue.bound /\ n \notin Malformed
      <4>1. p' = p \cup {n} /\ r' = r /\ n \notin p \cup r
        BY <2>0, <3>1, <3>2, <3>3
      <4> QED BY <3>1, <4>1 DEF Log!Next, Log!Accept
    <3>4. CASE ~writerQueue.bound \/ n \in Malformed
      <4>1. p' = p /\ r' = r
        BY <3>1, <3>4
      <4> QED BY <4>1 DEF Log!vars
    <3> QED BY <3>3, <3>4
  <2>2. ASSUME NEW m \in Event, InsertScoreEvent(m) \/ InsertReplyLost(m)
        PROVE  [Log!Next]_(Log!vars)
    <3>1. /\ Writing(m) /\ m \notin Malformed /\ rows' = [rows EXCEPT ![m] = @ + 1]
          /\ Held(writerQueue') = Held(writerQueue)
      BY <1>2, <2>2, HeldAfterStep DEF InsertScoreEvent, InsertReplyLost
    <3>2. m \in Held(writerQueue)
      BY <2>0, <3>1, HandlingLemma
    <3>3. CASE rows[m] = 0
      <4>1. m \in p /\ p' = p \ {m} /\ r' = r \cup {m}
        BY <2>0, <3>1, <3>2, <3>3
      <4> QED BY <4>1 DEF Log!Next, Log!Record
    <3>4. CASE rows[m] # 0
      <4>1. p' = p /\ r' = r
        BY <2>0, <3>1, <3>4
      <4> QED BY <4>1 DEF Log!vars
    <3> QED BY <3>3, <3>4
  <2>3. CASE AckRecorded
    <3>1. /\ rows' = rows /\ Held(writerQueue') = Held(writerQueue) \ {Head(writerQueue.unacked)}
          /\ rows[Head(writerQueue.unacked)] > 0
      BY <1>2, <2>3, HeldAfterStep DEF AckRecorded, IInv, RecordedIsHead
    <3>2. p' = p /\ r' = r
      BY <2>0, <3>1
    <3> QED BY <3>2 DEF Log!vars
  <2>4. ASSUME NEW m \in Event, DropUnparseable(m)
        PROVE  [Log!Next]_(Log!vars)
    <3>1. rows' = rows /\ Held(writerQueue') = Held(writerQueue) \ {m} /\ m \in Malformed
      BY <1>2, <2>4, HeldAfterStep DEF DropUnparseable
    <3>2. p' = p /\ r' = r
      BY <3>1
    <3> QED BY <3>2 DEF Log!vars
  <2>5. ASSUME Held(writerQueue') = Held(writerQueue), rows' = rows
        PROVE  [Log!Next]_(Log!vars)
    <3>1. p' = p /\ r' = r
      BY <2>5
    <3> QED BY <3>1 DEF Log!vars
  <2>6. /\ StartWriter => rows' = rows
        /\ \A m \in Event : PushEvent(m) \/ InsertFails(m) => rows' = rows
        /\ WriterStops => rows' = rows
        /\ MySQLChanges \/ UNCHANGED writerVars => UNCHANGED <<writerQueue, rows>>
    BY DEF StartWriter, PushEvent, InsertFails, WriterStops, MySQLChanges, writerVars
  <2> QED BY <1>2, <2>1, <2>2, <2>3, <2>4, <2>5, <2>6, HeldAfterStep DEF WriterNext
<1> QED BY <1>1, <1>2, Invariant, PTL DEF WriterSpec, ImplementsEventLog, Log!Spec
=============================================================================
