---------------------------- MODULE MCConsumers ----------------------------
(***************************************************************************)
(* An instance of two of the services that consume events.  Each has a     *)
(* queue of its own, the stores they write differ, and neither writes      *)
(* anything the other reads, so a behaviour is of one or of the other.     *)
(***************************************************************************)
EXTENDS Aggregator, HistoryWriter

VARIABLE service

consumersVars == <<service, vars, writerVars>>

ConsumersInit == service \in {"aggregator", "historywriter"} /\ Init /\ WriterInit

ConsumersNext ==
  \/ service = "aggregator" /\ Next /\ UNCHANGED <<service, writerVars>>
  \/ service = "historywriter" /\ WriterNext /\ UNCHANGED <<service, vars>>

ConsumersSpec ==
  ConsumersInit /\ [][ConsumersNext]_consumersVars /\ Fairness /\ WriterFairness

\* Updates that raise and updates that lower a score.
SmallDeltas == {1, -1}
=============================================================================
