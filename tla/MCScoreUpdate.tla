--------------------------- MODULE MCScoreUpdate ---------------------------
(* Requests of one user in two regions, one of them taking points away:    *)
(* the day and the week end between instants 1 and 2, the month does not.  *)
EXTENDS ScoreUpdate

MCUserOf == [r \in Req |-> "ann"]
MCRegionOf == [r \in Req |-> IF r = 2 THEN "us" ELSE "eu"]
MCDeltaOf == [r \in Req |-> IF r = 2 THEN -2 ELSE 1]
MCCalendar == [daily |-> <<1, 2>>, weekly |-> <<1, 2>>, monthly |-> <<1, 1>>]
=============================================================================
