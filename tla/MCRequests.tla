----------------------------- MODULE MCRequests -----------------------------
(***************************************************************************)
(* An instance of the requests of cmd/api that read a leaderboard: either  *)
(* those of Reads or those of Snapshots, which have only the ZSET and its  *)
(* writers in common.  Scores are below and above zero, counts also zero.  *)
(***************************************************************************)
EXTENDS Reads, Snapshots

VARIABLE requests  \* which requests a behaviour is about: "reads" or "snapshots"

SmallCounts == -2 .. 2
SmallScores == {-1, 1}

\* Which snapshot request is which, and which reader, makes no difference.
Symmetry == Permutations(Snap) \cup Permutations(Reader)

ReadsIdle == scope = "regional" /\ req = [r \in Request |-> New] /\ seen = [r \in Request |-> {}]

SnapshotsIdle ==
  /\ now = 1 /\ faults = 0 /\ table = {}
  /\ snap = [s \in Snap |-> NewSnap] /\ reader = [h \in Reader |-> NewReader]
  /\ before = [h \in Reader |-> {}]

RequestsInit ==
  \/ requests = "reads" /\ ReadsInit /\ SnapshotsIdle
  \/ requests = "snapshots" /\ Init /\ ReadsIdle

RequestsNext ==
  /\ \/ requests = "reads" /\ ReadsNext /\ UNCHANGED <<now, faults, table, snap, reader, before>>
     \/ requests = "snapshots" /\ Next /\ UNCHANGED <<scope, req, seen>>
  /\ UNCHANGED requests

RequestsSpec == RequestsInit /\ [][RequestsNext]_<<vars, readsVars, requests>>
=============================================================================
