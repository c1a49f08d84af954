-------------------------------- MODULE Zset --------------------------------
(***************************************************************************)
(* A Redis sorted set as a value: the function from its members to their   *)
(* scores, with the commands internal/redisclient sends.  Each command is  *)
(* one step of Redis; what happens between two of them is up to the module *)
(* that issues them.  Members are user ids of one length, so their order   *)
(* as strings is their order as numbers.                                   *)
(***************************************************************************)
EXTENDS Integers, FiniteSets, Sequences, TLC

NoMembers == <<>>

ZIncrBy(z, u, d) ==
  [v \in DOMAIN z \cup {u} |->
     (IF v \in DOMAIN z THEN z[v] ELSE 0) + (IF v = u THEN d ELSE 0)]

\* ZREVRANGE order: by score, and members of the same score by name, backwards.
Beats(z, u, v) == z[u] > z[v] \/ (z[u] = z[v] /\ u > v)

\* ZREVRANK, from 0.
RevRank(z, u) == Cardinality({v \in DOMAIN z : Beats(z, v, u)})

\* ZREVRANGE WITHSCORES: the entries from one rank to another, inclusive; a
\* negative stop counts from the end.
RevRange(z, start, stop) ==
  LET size == Cardinality(DOMAIN z)
      last == IF stop < 0 THEN size + stop ELSE IF stop < size THEN stop ELSE size - 1
  IN  [i \in 1 .. last - start + 1 |->
         LET u == CHOOSE v \in DOMAIN z : RevRank(z, v) = start + i - 1
         IN  [user |-> u, score |-> z[u]]]

\* TopN: a count that is not positive means ten.
TopN(z, n) == RevRange(z, 0, (IF n > 0 THEN n ELSE 10) - 1)
=============================================================================
