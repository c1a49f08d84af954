----------------------------- MODULE MCNotifier -----------------------------
\* An instance: two users have scores before the notifier first runs.
EXTENDS Notifier

TwoScores == 1 :> 3 @@ 2 :> 2
=============================================================================
