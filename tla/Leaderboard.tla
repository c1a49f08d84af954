----------------------------- MODULE Leaderboard -----------------------------
(***************************************************************************)
(* The sorted set behind one leaderboard, which the requests of Reads and  *)
(* of Snapshots have in common; each of these says who writes it and how.  *)
(***************************************************************************)
EXTENDS Zset

CONSTANTS
  User,
  Scores,     \* bound: the scores of a leaderboard, of either sign
  MaxWrites   \* bound: commands of writers

\* Ids are numbers that MySQL counts from one; RevRank compares them.
ASSUME LeaderboardAssumption ==
  User \subseteq Nat \ {0} /\ Scores \subseteq Int /\ MaxWrites \in Nat

VARIABLES
  zset,   \* the ZSET; for a friends group the user_score keys
  writes  \* how many commands changed it

\* IncrementScore: a score_delta of any size and sign but zero.
Rescored(u) ==
  LET old == IF u \in DOMAIN zset THEN zset[u] ELSE 0
  IN  {ZIncrBy(zset, u, s - old) : s \in Scores \ {old}}
=============================================================================
