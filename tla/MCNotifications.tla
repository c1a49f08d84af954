--------------------------- MODULE MCNotifications ---------------------------
\* An instance: the leaderboard is empty when the notifier first runs.
EXTENDS Notifications

NoScores == <<>>
=============================================================================
