------------------------------ MODULE Snapshots ------------------------------
(***************************************************************************)
(* POST /admin/snapshot and GET /leaderboard/history of cmd/api for one    *)
(* leaderboard.  A snapshot reads the top of the ZSET, then the clock,     *)
(* then writes a row per entry in a transaction.  A history request finds  *)
(* the latest snapshot_at, then selects its rows, in two statements.       *)
(* MySQL is external: a statement sees the rows committed when it starts,  *)
(* and a TIMESTAMP column rounds to the second.                            *)
(***************************************************************************)
EXTENDS Leaderboard, SequencesExt

CONSTANTS
  Snap,       \* requests for a snapshot
  Reader,     \* requests for the history
  TopNRows,   \* top_n of the snapshot requests
  Limit,      \* limit of the history requests
  MaxNow,     \* bound: the clock, in half seconds
  MaxFaults   \* bound: statements that fail, replies of a commit that are lost

ASSUME ConstantsAssumption == {TopNRows, Limit, MaxNow, MaxFaults} \subseteq Nat

VARIABLES
  now, faults,
  table,   \* leaderboard_snapshots: the committed rows
  snap,    \* snapshot requests: where, the rows to insert, the time, the rows inserted
  reader,  \* history requests: where, the latest snapshot_at, the rows
  before   \* history: the history requests that were done when one began

vars == <<zset, writes, now, faults, table, snap, reader, before>>

NewSnap == [at |-> "new", rows |-> <<>>, stamp |-> 0, inserted |-> 0, tx |-> {}]
NewReader == [at |-> "new", latest |-> 0, rows |-> <<>>]

Init ==
  /\ zset = NoMembers /\ writes = 0 /\ now = 1 /\ faults = 0
  /\ table = {}
  /\ snap = [s \in Snap |-> NewSnap]
  /\ reader = [h \in Reader |-> NewReader]
  /\ before = [h \in Reader |-> {}]

(* The rest of the system: the clock, and updates of the leaderboard.      *)
Tick == now < MaxNow /\ now' = now + 1 /\ UNCHANGED <<zset, writes, faults, table, snap, reader, before>>

Write(u) ==
  /\ writes < MaxWrites /\ writes' = writes + 1
  /\ zset' \in Rescored(u)
  /\ UNCHANGED <<now, faults, table, snap, reader, before>>

\* A TIMESTAMP column: the nearest second.
Second(t) == (t + 1) \div 2

-----------------------------------------------------------------------------
(* POST /admin/snapshot                                                    *)

Others == UNCHANGED <<zset, writes, now, reader, before>>

ReadTop(s) ==
  /\ snap[s].at = "new"
  /\ snap' = [snap EXCEPT ![s].at = "read", ![s].rows = TopN(zset, TopNRows)]
  /\ Others /\ UNCHANGED <<faults, table>>

\* time.Now(), then BeginTx and PrepareContext.
Stamp(s) ==
  /\ snap[s].at = "read"
  /\ snap' = [snap EXCEPT ![s].at = "insert", ![s].stamp = now]
  /\ Others /\ UNCHANGED <<faults, table>>

Inserting(s) == snap[s].at = "insert" /\ snap[s].inserted < Len(snap[s].rows)

\* The next row; `of` is history, no column tells which snapshot a row is of.
Row(s) ==
  LET i == snap[s].inserted + 1
  IN  [snapshot_at |-> Second(snap[s].stamp), place |-> i, entry |-> snap[s].rows[i], of |-> s]

\* A bug: no transaction, each row is visible at once.
InsertAutocommit(s) ==
  /\ Inserting(s)
  /\ snap' = [snap EXCEPT ![s].inserted = @ + 1]
  /\ table' = table \cup {Row(s)}
  /\ Others /\ UNCHANGED faults

Insert(s) ==
  /\ Inserting(s)
  /\ snap' = [snap EXCEPT ![s].inserted = @ + 1, ![s].tx = @ \cup {Row(s)}]
  /\ Others /\ UNCHANGED <<faults, table>>

Commit(s) ==
  /\ snap[s].at = "insert" /\ ~Inserting(s)
  /\ table' = table \cup snap[s].tx
  /\ \/ snap' = [snap EXCEPT ![s].at = "ok"] /\ UNCHANGED faults
     \/ \* The reply is lost: 500, although the rows are there.
        faults < MaxFaults /\ faults' = faults + 1 /\ snap' = [snap EXCEPT ![s].at = "error"]
  /\ Others

\* A bug: the error of a statement is not returned, 200.
RollbackUnreported(s) ==
  /\ snap[s].at = "insert"
  /\ faults < MaxFaults /\ faults' = faults + 1
  /\ snap' = [snap EXCEPT ![s].at = "ok", ![s].tx = {}]
  /\ Others /\ UNCHANGED table

\* A statement fails: tx.Rollback() and 500.
Rollback(s) ==
  /\ snap[s].at = "insert"
  /\ faults < MaxFaults /\ faults' = faults + 1
  /\ snap' = [snap EXCEPT ![s].at = "error", ![s].tx = {}]
  /\ Others /\ UNCHANGED table

-----------------------------------------------------------------------------
(* GET /leaderboard/history                                                *)

Seconds(rows) == {r.snapshot_at : r \in rows}

\* A bug: the oldest snapshot (a lost DESC, MIN for MAX).
Oldest ==
  IF table = {} THEN 0
  ELSE CHOOSE t \in Seconds(table) : \A v \in Seconds(table) : t <= v

\* SELECT MAX(snapshot_at); 0: no rows.
Latest ==
  IF table = {} THEN 0
  ELSE CHOOSE t \in Seconds(table) : \A v \in Seconds(table) : v <= t

FindLatest(h) ==
  /\ reader[h].at = "new"
  /\ reader' = [reader EXCEPT ![h].at = IF table = {} THEN "done" ELSE "found", ![h].latest = Latest]
  /\ before' = [before EXCEPT ![h] = {k \in Reader : reader[k].at = "done"}]
  /\ UNCHANGED <<zset, writes, now, faults, table, snap>>

\* ORDER BY rank_position LIMIT: rows of one position come in any order.
Answers(rows) ==
  LET size == IF Limit < Cardinality(rows) THEN Limit ELSE Cardinality(rows)
  IN  {a \in [1 .. size -> rows] :
         /\ IsInjective(a)
         /\ \A i, j \in DOMAIN a : i < j => a[i].place <= a[j].place
         /\ \A r \in rows \ ToSet(a) : \A i \in DOMAIN a : a[i].place <= r.place}

SelectRows(h) ==
  /\ reader[h].at = "found"
  /\ \E a \in Answers({r \in table : r.snapshot_at = reader[h].latest}) :
       reader' = [reader EXCEPT ![h].at = "done", ![h].rows = a]
  /\ UNCHANGED <<zset, writes, now, faults, table, snap, before>>

Next ==
  \/ Tick \/ \E u \in User : Write(u)
  \/ \E s \in Snap : ReadTop(s) \/ Stamp(s) \/ Insert(s) \/ Commit(s) \/ Rollback(s)
  \/ \E h \in Reader : FindLatest(h) \/ SelectRows(h)

Spec == Init /\ [][Next]_vars

-----------------------------------------------------------------------------
(* Properties.                                                             *)

(* Types; what is answered 200 is in the table, and what was rolled back   *)
(* is not.                                                                 *)
TypeOK ==
  /\ \A s \in Snap :
       /\ snap[s].at \in {"new", "read", "insert", "ok", "error"}
       /\ snap[s].at = "ok" => Cardinality({r \in table : r.of = s}) = Len(snap[s].rows)
       /\ {r \in table : r.of = s} \in {{}, snap[s].tx}
  /\ \A h \in Reader : reader[h].at \in {"new", "found", "done"}

\* What is to be answered of the snapshot s.
Beginning(s) ==
  SubSeq(snap[s].rows, 1, IF Limit < Len(snap[s].rows) THEN Limit ELSE Len(snap[s].rows))

EntriesOf(h) == [i \in DOMAIN reader[h].rows |-> reader[h].rows[i].entry]

\* The snapshots whose rows the second t has.
Of(t) == {r.of : r \in {q \in table : q.snapshot_at = t}}

(* LatestSnapshot answers with one snapshot, whole up to the limit and in  *)
(* order, whatever is being inserted, fails or is committed between its    *)
(* two statements, as long as no two snapshots fall into one second.       *)
WholeSnapshot ==
  \A h \in Reader :
    reader[h].at = "done" /\ reader[h].rows # <<>> /\ Cardinality(Of(reader[h].latest)) = 1 =>
      \E s \in Of(reader[h].latest) : EntriesOf(h) = Beginning(s)

(* The rows of a snapshot are stamped alike "so they read back together as *)
(* one snapshot": an answer is of one snapshot, whenever it was taken.     *)
ReadBackAsOne ==
  \A h \in Reader : reader[h].at = "done" /\ reader[h].rows # <<>> =>
    \E s \in Snap : EntriesOf(h) = Beginning(s)

(* Of two history requests one after the other, the second never goes back *)
(* to an earlier snapshot, in whatever order snapshots commit, and never   *)
(* finds nothing where the first found a snapshot.                         *)
NeverBack ==
  \A h \in Reader : reader[h].at = "done" =>
    \A k \in before[h] :
      /\ reader[h].latest >= reader[k].latest
      /\ reader[k].rows # <<>> => reader[h].rows # <<>>
=============================================================================
