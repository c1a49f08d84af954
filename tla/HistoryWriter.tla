---------------------------- MODULE HistoryWriter ----------------------------
(***************************************************************************)
(* cmd/historywriter: one process that moves every message of              *)
(* historywriter-queue into the MySQL table score_events, one at a time,   *)
(* with manual acknowledgements.  The publisher (cmd/api) is reduced here  *)
(* to handing messages 1, 2, 3, ... to the exchange.                       *)
(***************************************************************************)
EXTENDS Rabbit

CONSTANTS
  MaxEvents,       \* bound: messages published
  WriterPrefetch,  \* consumePref, 10 in the code
  Malformed,       \* messages whose body is not the JSON of a ScoreEvent
  Rejected,        \* events MySQL refuses (a region over VARCHAR(50), an id over INT)
  MaxWriterFaults  \* bound: crashes plus inserts whose reply is lost

Event == 1 .. MaxEvents

ASSUME WriterAssumption ==
  /\ MaxEvents \in Nat
  /\ WriterPrefetch \in Nat \ {0}
  /\ MaxWriterFaults \in Nat
  /\ Malformed \subseteq Event
  /\ Rejected \subseteq Event \ Malformed

VARIABLES
  published,    \* how many messages the exchange has received
  writerQueue,  \* historywriter-queue
  routed,       \* history: the messages historywriter-queue received a copy of
  hw,           \* the process: "down", "receiving", or "recorded" (inserted, not yet acked)
  rows,         \* score_events: how many rows record event m
  mysqlUp,
  writerFaults  \* crashes and lost replies so far

writerVars == <<published, writerQueue, routed, hw, rows, mysqlUp, writerFaults>>

WriterInit ==
  /\ published = 0
  /\ writerQueue = NoQueue
  /\ routed = {}
  /\ hw = "down"
  /\ rows = [m \in Event |-> 0]
  /\ mysqlUp = TRUE
  /\ writerFaults = 0

-----------------------------------------------------------------------------
(* The exchange: cmd/api publishes the next event.                         *)

PublishScored ==
  /\ published < MaxEvents
  /\ published' = published + 1
  /\ writerQueue' = Publish(writerQueue, published + 1)
  /\ routed' = IF writerQueue.bound THEN routed \cup {published + 1} ELSE routed
  /\ UNCHANGED <<hw, rows, mysqlUp, writerFaults>>

(* The broker pushes the oldest waiting message to the consumer.           *)
PushEvent(m) ==
  /\ hw # "down"
  /\ CanDeliver(writerQueue, m, WriterPrefetch)
  /\ writerQueue' = Deliver(writerQueue, m)
  /\ UNCHANGED <<published, routed, hw, rows, mysqlUp, writerFaults>>

-----------------------------------------------------------------------------
(* The process.  mysqlclient.New pings MySQL before the queue is declared, *)
(* so a start while MySQL is down ends in log.Fatalf and changes nothing.  *)
StartWriter ==
  /\ hw = "down"
  /\ mysqlUp
  /\ hw' = "receiving"
  /\ writerQueue' = DeclareAndBindQueue(writerQueue)
  /\ UNCHANGED <<published, routed, rows, mysqlUp, writerFaults>>

\* The loop `for d := range deliveries` has taken the head of the deliveries.
Writing(m) == hw = "receiving" /\ writerQueue.unacked # <<>> /\ m = Head(writerQueue.unacked)

\* json.Unmarshal fails: Nack(false, false) drops the message.
DropUnparseable(m) ==
  /\ Writing(m)
  /\ m \in Malformed
  /\ writerQueue' = Nack(writerQueue, FALSE)
  /\ UNCHANGED <<published, routed, hw, rows, mysqlUp, writerFaults>>

\* A bug: a successful insert is followed by the requeue of the error branch.
InsertThenRequeue(m) ==
  /\ Writing(m)
  /\ m \notin Malformed \cup Rejected
  /\ mysqlUp
  /\ rows' = [rows EXCEPT ![m] = @ + 1]
  /\ writerQueue' = Nack(writerQueue, TRUE)
  /\ UNCHANGED <<published, routed, hw, mysqlUp, writerFaults>>

InsertScoreEvent(m) ==
  /\ Writing(m)
  /\ m \notin Malformed \cup Rejected
  /\ mysqlUp
  /\ rows' = [rows EXCEPT ![m] = @ + 1]
  /\ hw' = "recorded"
  /\ UNCHANGED <<published, writerQueue, routed, mysqlUp, writerFaults>>

\* The insert reports an error and has written nothing: Nack(false, true).
InsertFails(m) ==
  /\ Writing(m)
  /\ m \notin Malformed
  /\ ~mysqlUp \/ m \in Rejected
  /\ writerQueue' = Nack(writerQueue, TRUE)
  /\ UNCHANGED <<published, routed, hw, rows, mysqlUp, writerFaults>>

\* The insert commits but its reply is lost: the code sees an error and requeues.
InsertReplyLost(m) ==
  /\ Writing(m)
  /\ m \notin Malformed \cup Rejected
  /\ mysqlUp
  /\ writerFaults < MaxWriterFaults
  /\ writerFaults' = writerFaults + 1
  /\ rows' = [rows EXCEPT ![m] = @ + 1]
  /\ writerQueue' = Nack(writerQueue, TRUE)
  /\ UNCHANGED <<published, routed, hw, mysqlUp>>

AckRecorded ==
  /\ hw = "recorded"
  /\ hw' = "receiving"
  /\ writerQueue' = Ack(writerQueue)
  /\ UNCHANGED <<published, routed, rows, mysqlUp, writerFaults>>

\* The process dies, or its connection closes and `range deliveries` ends main.
WriterStops ==
  /\ hw # "down"
  /\ writerFaults < MaxWriterFaults
  /\ writerFaults' = writerFaults + 1
  /\ hw' = "down"
  /\ writerQueue' = ConsumerGone(writerQueue)
  /\ UNCHANGED <<published, routed, rows, mysqlUp>>

MySQLChanges ==
  /\ mysqlUp' = ~mysqlUp
  /\ UNCHANGED <<published, writerQueue, routed, hw, rows, writerFaults>>

-----------------------------------------------------------------------------
WriterNext ==
  \/ PublishScored
  \/ StartWriter
  \/ \E m \in Event :
       \/ PushEvent(m)
       \/ DropUnparseable(m)
       \/ InsertScoreEvent(m)
       \/ InsertFails(m)
       \/ InsertReplyLost(m)
  \/ AckRecorded
  \/ WriterStops
  \/ MySQLChanges

WriterSpec == WriterInit /\ [][WriterNext]_writerVars

(***************************************************************************)
(* The loop runs whenever it has a message.  The broker refills a consumer *)
(* that has credit, so a message that is again and again the next one to   *)
(* go out does go out: strong fairness per message.  Nothing restarts the  *)
(* process or MySQL: neither is fair, nor are faults and publications.     *)
(***************************************************************************)
WriterFairness ==
  /\ \A m \in Event :
       /\ SF_writerVars(PushEvent(m))
       /\ WF_writerVars(DropUnparseable(m) \/ InsertScoreEvent(m) \/ InsertFails(m))
  /\ WF_writerVars(AckRecorded)

WriterLiveSpec == WriterSpec /\ WriterFairness

-----------------------------------------------------------------------------
(* Properties.                                                             *)

(* Types, and what the broker guarantees of the two halves of the queue:   *)
(* a message waits or is delivered, never both and never twice, and Qos    *)
(* bounds the unsettled deliveries of Consume.                             *)
WriterTypeOK ==
  /\ published \in 0 .. MaxEvents
  /\ writerQueue \in Queues(1 .. published)
  /\ routed \subseteq 1 .. published
  /\ hw \in {"down", "receiving", "recorded"}
  /\ rows \in [Event -> Nat]
  /\ mysqlUp \in BOOLEAN
  /\ writerFaults \in 0 .. MaxWriterFaults
  /\ Len(writerQueue.unacked) <= WriterPrefetch
  /\ WellFormed(writerQueue)

(* Manual acks after the insert (main.go, the loop of main): whatever      *)
(* crashes, an event the queue received is in the queue or in MySQL.       *)
NothingRoutedIsLost ==
  \A m \in routed \ Malformed : m \in Held(writerQueue) \/ rows[m] > 0

\* Event m is inserted and about to be acknowledged.
AboutToAck(m) == hw = "recorded" /\ m = Head(writerQueue.unacked)

(* The price of at-least-once: the copies of an event beyond the first are *)
(* paid for, each, by a crash before the ack or a lost reply; an event the *)
(* loop of main still has to insert has no unpaid copy.                    *)
CopiesBounded ==
  \A m \in Event :
    /\ rows[m] <= writerFaults + 1
    /\ m \in Held(writerQueue) /\ ~AboutToAck(m) => rows[m] <= writerFaults

(* The abstract log that historywriter implements.                         *)
Log == INSTANCE EventLog WITH
         pending <- {m \in Held(writerQueue) \ Malformed : rows[m] = 0},
         recorded <- {m \in Event : rows[m] > 0}

(* Accepted events go to recorded, once and for good: refinement.          *)
ImplementsEventLog == Log!Spec

(* The backlog of a MySQL outage drains: once MySQL and the consumer stay  *)
(* up, each event the queue received, that MySQL would take, is recorded.  *)
BacklogDrains ==
  <>[](mysqlUp /\ hw # "down") =>
    \A m \in Event \ (Malformed \cup Rejected) : (m \in routed) ~> (rows[m] > 0)
=============================================================================
