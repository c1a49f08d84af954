---------------------------- MODULE Notifications ----------------------------
(***************************************************************************)
(* From a score to the browser: cmd/notifier and the hub of cmd/api on the *)
(* channel of one leaderboard.  They meet in Redis only: what the notifier *)
(* publishes is, in the same step, handed to whoever is subscribed.        *)
(***************************************************************************)
EXTENDS WsHub, TLC

CONSTANTS
  User, Garbage, Board, Deltas, TopNThreshold, RankCrossThreshold, Prefetch,
  MaxUpdates, MaxGarbage, MaxFaults

VARIABLES
  zset, owed, bodies, queue, memory, loop, updates, faults,
  repeats, entered, announced, fresh, missed, refused,
  told  \* what each published notification says

notifierVars ==
  <<zset, owed, bodies, queue, memory, loop, updates, faults,
    repeats, entered, announced, fresh, missed, refused>>
vars == <<notifierVars, hubVars, told>>

N == INSTANCE Notifier

ASSUME NotifierAssumption == N!ConstantsAssumption

Entry(u) == [user |-> u, reason |-> "top10"]

Init == N!Init /\ HubInit /\ told = <<>>

\* Redis hands the notification for message m on.
HandOn(m) ==
  /\ PublishNote
  /\ told' = Append(told, [user |-> bodies[m], reason |-> N!Reason(loop.rank, loop.previous)])

Next ==
  \/ N!Local /\ UNCHANGED <<hubVars, told>>
  \/ \E m \in DOMAIN bodies : N!Notify(m) /\ HandOn(m)
  \/ HubLocal /\ UNCHANGED <<notifierVars, told>>

Spec == Init /\ [][Next]_vars /\ N!Fairness /\ HubFairness

-----------------------------------------------------------------------------
(* Properties.                                                             *)

\* Connection c was told that u came into the top, or that was before it
\* registered, or Redis or go-redis did not keep it.
Knows(c, u) ==
  \E n \in DOMAIN told :
    told[n] = Entry(u) /\ (n <= since[c] \/ n \in lost \cup ToSet(got[c]))

(* What the two services promise together: once the notifier stays up and  *)
(* no client holds up the broadcast (writes have no deadline), whoever is  *)
(* still connected learns of each user in the top, whatever failed before  *)
(* and whoever else left; but for users whose last event was lost or whose *)
(* notification Redis refused.                                             *)
WatchersLearn ==
  <>[](loop.at # "down" /\ stalled = {}) =>
    <>[](\A c \in Conn, u \in N!Top(zset) \ refused :
           conn[c] = "open" /\ missed[u] # "last" => Knows(c, u))

(* A client hears at most as often that a user came into the top as that   *)
(* happened, but for the repetitions of a crash or of a publish sent again: *)
(* the hub itself never sends anything twice.                              *)
NoSpuriousNews ==
  \A c \in Conn, u \in User :
    Cardinality({i \in DOMAIN got[c] : told[got[c][i]] = Entry(u)}) <= entered[u] + repeats
=============================================================================
