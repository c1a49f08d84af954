------------------------------ MODULE EventLog ------------------------------
(***************************************************************************)
(* What cmd/historywriter promises (the comment that opens its main.go):   *)
(* an event its queue has accepted stays pending until it is recorded, and *)
(* a recorded event stays recorded.  How often it is written is left open. *)
(***************************************************************************)
CONSTANT Event

VARIABLES pending, recorded

vars == <<pending, recorded>>

Init == pending = {} /\ recorded = {}

Accept(e) ==
  /\ e \notin pending \cup recorded
  /\ pending' = pending \cup {e}
  /\ UNCHANGED recorded

Record(e) ==
  /\ e \in pending
  /\ pending' = pending \ {e}
  /\ recorded' = recorded \cup {e}

Next == \E e \in Event : Accept(e) \/ Record(e)

Spec == Init /\ [][Next]_vars
=============================================================================
