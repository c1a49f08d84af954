-------------------------------- MODULE Reads --------------------------------
(***************************************************************************)
(* GET /leaderboard/top, /rank and /around of cmd/api against the writers  *)
(* of the leaderboard they read: ZINCRBY on a regional ZSET, DEL and ZADD  *)
(* on the global one, INCRBY on the user_score keys of a friends group.    *)
(* Each Redis command of a request is a step; the writers run in between.  *)
(* Requests answered with 400 read nothing and are left out.               *)
(***************************************************************************)
EXTENDS Leaderboard, SequencesExt

CONSTANTS
  Request,
  Counts    \* bound: the n and count clients ask for

ASSUME ReadsAssumption == Counts \subseteq Int

VARIABLES
  scope,  \* which leaderboard: "regional", "global" or "friends"
  req,    \* per request: where it is, what it asks, what it has read and answers
  seen    \* history: the leaderboards there were during a request

readsVars == <<scope, zset, writes, req, seen>>

Kinds == {"top", "rank", "around"}

New == [at |-> "new", kind |-> "", user |-> 0, n |-> 0, rank |-> 0, list |-> <<>>]

\* A leaderboard the aggregator or a day of updates may have left.
Leaderboards == UNION {[S -> Scores] : S \in SUBSET User}

ReadsInit ==
  /\ scope \in {"regional", "global", "friends"}
  /\ zset \in Leaderboards
  /\ writes = 0
  /\ req = [r \in Request |-> New]
  /\ seen = [r \in Request |-> {}]

-----------------------------------------------------------------------------
(* Writers.                                                                *)

Pending == {r \in Request : req[r].at \notin {"new", "done", "error", "panic"}}

Writes(z) ==
  /\ writes < MaxWrites /\ writes' = writes + 1
  /\ zset' = z
  /\ seen' = [r \in Request |-> IF r \in Pending THEN seen[r] \cup {z} ELSE seen[r]]
  /\ UNCHANGED <<scope, req>>

\* IncrementScore: ZINCRBY, or INCRBY of the mirror.
Increment(u) == scope # "global" /\ \E z \in Rescored(u) : Writes(z)

\* ReplaceZSet, two commands: the leaderboard is empty in between.
Del == scope = "global" /\ zset # NoMembers /\ Writes(NoMembers)

ZAdd(z) == scope = "global" /\ zset = NoMembers /\ z # NoMembers /\ Writes(z)

-----------------------------------------------------------------------------
(* Requests on a ZSET.                                                     *)

\* zToEntries
Entries(z, startRank) == [i \in DOMAIN z |-> [rank |-> startRank + i - 1, entry |-> z[i]]]

Reads(r, next) ==
  /\ req' = [req EXCEPT ![r] = next]
  /\ seen' = [seen EXCEPT ![r] = @ \cup {zset}]
  /\ UNCHANGED <<scope, zset, writes>>

Answer(r, list) == Reads(r, [req[r] EXCEPT !.at = "done", !.list = list])

\* A bug: stop is exclusive, as a Go slice would have it.
AroundExclusive(rank, n) ==
  RevRange(zset, IF rank > n THEN rank - n ELSE 0, rank + n - 1)

\* Around, second command; rank counts from 0.
Around(rank, n) == RevRange(zset, IF rank > n THEN rank - n ELSE 0, rank + n)

\* A bug: the first place is taken for no place.
PresentUnlessFirst(u) == u \in DOMAIN zset /\ RevRank(zset, u) > 0

\* ZREVRANK or ZSCORE of the user does not answer redis.Nil.
Present(u) == u \in DOMAIN zset

\* A bug: the rank of the list is not cut off at the first.
FirstRankUncut(rank, n) == rank - n

FirstRank(rank, n) == IF rank - n < 1 THEN 1 ELSE rank - n

\* /top: one command.
Top(r) ==
  /\ scope # "friends" /\ req[r].at = "new"
  /\ \E n \in Counts :
       Reads(r, [New EXCEPT !.at = "done", !.kind = "top", !.n = n, !.list = Entries(TopN(zset, n), 1)])

\* /rank and /around begin; for /around the first command is ZREVRANK, and a user
\* who is not there does not end the request.
Begin(r) ==
  /\ scope # "friends" /\ req[r].at = "new"
  /\ \E u \in User, n \in Counts :
       \/ Reads(r, [New EXCEPT !.at = "rank", !.kind = "rank", !.user = u])
       \/ Present(u) /\ Reads(r, [New EXCEPT !.at = "range", !.kind = "around", !.user = u,
                                             !.n = n, !.rank = RevRank(zset, u)])
       \/ ~Present(u) /\ Reads(r, [New EXCEPT !.at = "rank", !.kind = "around", !.user = u, !.n = n])

ReadRange(r) ==
  /\ req[r].at = "range"
  /\ Reads(r, [req[r] EXCEPT !.at = "rank", !.list = Around(req[r].rank, req[r].n)])

\* Rank, first command: ok is false for a user who is not there.
ReadRank(r) ==
  /\ req[r].at = "rank"
  /\ IF Present(req[r].user)
     THEN Reads(r, [req[r] EXCEPT !.at = "score", !.rank = RevRank(zset, req[r].user) + 1])
     ELSE Answer(r, <<>>)

\* A bug: ZSCORE's redis.Nil is taken for a score of zero.
ReadScoreNilAsZero(r) ==
  LET q == req[r]
      score == IF Present(q.user) THEN zset[q.user] ELSE 0
  IN  /\ q.at = "score"
      /\ Answer(r, IF q.kind = "around"
                   THEN Entries(q.list, FirstRank(q.rank, q.n))
                   ELSE <<[rank |-> q.rank, entry |-> [user |-> q.user, score |-> score]]>>)

\* Rank, second command: here redis.Nil is an error, answered with 500.
ReadScore(r) ==
  LET q == req[r] IN
  /\ q.at = "score"
  /\ IF ~Present(q.user)
     THEN Reads(r, [q EXCEPT !.at = "error"])
     ELSE Answer(r, IF q.kind = "around"
                    THEN Entries(q.list, FirstRank(q.rank, q.n))
                    ELSE <<[rank |-> q.rank, entry |-> [user |-> q.user, score |-> zset[q.user]]]>>)

-----------------------------------------------------------------------------
(* Requests on a friends group: one MGET, sorted here (sort.Slice leaves   *)
(* equal scores in any order) and cut here.                                *)

Mirror(z, u) == IF u \in DOMAIN z THEN z[u] ELSE 0

Sorted ==
  {s \in [1 .. Cardinality(User) -> User] :
     IsInjective(s) /\ \A i, j \in DOMAIN s : i < j => Mirror(zset, s[i]) >= Mirror(zset, s[j])}

\* entries[from:to] of a leaderboard, with the ranks of the whole.  Bounds that do
\* not nest panic; net/http recovers and drops the connection.
InBounds(s, from, to) == 0 <= from /\ from <= to /\ to <= Len(s)

Slice(s, from, to) ==
  [i \in 1 .. to - from |->
     [rank |-> from + i, entry |-> [user |-> s[from + i], score |-> Mirror(zset, s[from + i])]]]

Least(a, b) == IF a < b THEN a ELSE b

Friends(r) ==
  /\ scope = "friends" /\ req[r].at = "new"
  /\ \E s \in Sorted, u \in User, n \in Counts, kind \in Kinds :
       LET center == CHOOSE i \in DOMAIN s : s[i] = u
           from == CASE kind = "top" -> 0
                     [] kind = "rank" -> center - 1
                     [] kind = "around" -> FirstRank(center, n) - 1
           to == CASE kind = "top" -> Least(n, Len(s))
                   [] kind = "rank" -> center
                   [] kind = "around" -> Least(center + n, Len(s))
           q == [New EXCEPT !.kind = kind, !.user = u, !.n = n]
       IN  IF InBounds(s, from, to)
           THEN Reads(r, [q EXCEPT !.at = "done", !.list = Slice(s, from, to)])
           ELSE Reads(r, [q EXCEPT !.at = "panic"])

ReadsNext ==
  \/ \E u \in User : Increment(u)
  \/ Del
  \/ \E z \in Leaderboards : ZAdd(z)
  \/ \E r \in Request : Top(r) \/ Begin(r) \/ ReadRange(r) \/ ReadRank(r) \/ ReadScore(r) \/ Friends(r)

ReadsSpec == ReadsInit /\ [][ReadsNext]_readsVars

-----------------------------------------------------------------------------
(* Properties.                                                             *)

Done == {r \in Request : req[r].at = "done"}

(* Types; no answer has a rank below the first; only a replacement of the  *)
(* global leaderboard between two commands turns a request into an error,  *)
(* and only a negative n or count on a friends group into a panic.         *)
ReadsTypeOK ==
  /\ scope \in {"regional", "global", "friends"} /\ zset \in Leaderboards
  /\ \A r \in Request :
       /\ req[r].at \in {"new", "range", "rank", "score", "done", "error", "panic"}
       /\ req[r].user \in User \cup {0} /\ req[r].n \in Counts \cup {0}
       /\ req[r].at = "done" => \A i \in DOMAIN req[r].list : req[r].list[i].rank > 0
       /\ req[r].at = "error" => scope = "global" /\ Cardinality(seen[r]) > 1
       /\ req[r].at = "panic" => scope = "friends" /\ req[r].n < 0

\* The users a request on a leaderboard that does not change is about: the places
\* are the numbers of users who are ahead, whatever order equal mirrors are in.
Ahead(z, u, v) == IF scope = "friends" THEN Mirror(z, u) > Mirror(z, v) ELSE Beats(z, u, v)
Group(z) == IF scope = "friends" THEN User ELSE DOMAIN z
AtLeast(z, u) == Cardinality({v \in Group(z) : Ahead(z, v, u)}) + 1
AtMost(z, u) == Cardinality({v \in Group(z) : ~Ahead(z, u, v)})
Place(z, u, k) == AtLeast(z, u) <= k /\ k <= AtMost(z, u)

\* The size of the answer if the user asked about is at place k.
Wanted(z, q, k) ==
  LET size == Cardinality(Group(z))
      n == IF q.kind = "top" /\ q.n <= 0 /\ scope # "friends" THEN 10 ELSE q.n
  IN  CASE q.kind = "top" -> 1 .. Least(n, size)
        [] q.kind = "rank" -> {k}
        [] q.kind = "around" -> {i \in 1 .. size : k - n <= i /\ i <= k + n}

(* When nobody writes during a request, its answer is right to the place:  *)
(* /top has the first n, /around the user and up to count on either side   *)
(* (handlers.go and Around compute the first rank and the bounds apart),   *)
(* every entry at a place of its score, no place or user twice.  (Which    *)
(* places an answer has is promised only for n and count from 0 on.)       *)
QuietExact ==
  \A r \in Done : \A z \in seen[r] : seen[r] = {z} =>
    LET q == req[r]
        ranks == {q.list[i].rank : i \in DOMAIN q.list}
    IN  /\ Len(q.list) = Cardinality(ranks)
        /\ Cardinality({q.list[i].entry.user : i \in DOMAIN q.list}) = Len(q.list)
        /\ \A i \in DOMAIN q.list : Place(z, q.list[i].entry.user, q.list[i].rank)
        /\ IF q.kind # "top" /\ q.user \notin Group(z)
           THEN q.list = <<>>
           ELSE q.n >= 0 \/ q.kind = "top" => \E k \in 1 .. Cardinality(Group(z)) \cup {0} :
                  /\ q.kind # "top" => Place(z, q.user, k)
                  /\ ranks = Wanted(z, q, k)

(* On a regional leaderboard, where nobody leaves, a user who is there when *)
(* the request begins is found: /rank has an answer and not an error, and  *)
(* the list of /around is not empty, whatever the writers do meanwhile.    *)
RegionalFound ==
  \A r \in Request :
    scope = "regional" /\ req[r].n >= 0 /\ req[r].kind \in {"rank", "around"}
      /\ (\A z \in seen[r] : req[r].user \in DOMAIN z) =>
    /\ req[r].at # "error"
    /\ req[r].at = "done" => req[r].list # <<>>

\* A list is the entries at the places first .. last of one leaderboard, as many as it has.
Shows(list, z, first, last) ==
  /\ Len(list) = Cardinality(first .. Least(last, Cardinality(DOMAIN z)))
  /\ \A i \in DOMAIN list :
       LET e == list[i].entry
       IN  e.user \in DOMAIN z /\ z[e.user] = e.score /\ RevRank(z, e.user) + 1 = first + i - 1

\* The first of the places up to n before a place.
FirstPlace(place, n) == IF place > n THEN place - n ELSE 1

(* Under writers, too, an answer is put together from what was so during   *)
(* the request.  The list of /top is the top of one leaderboard.  /rank has *)
(* a place and a score that the user held, each at some moment.  The list  *)
(* of /around is of one leaderboard, around the place the user had on one  *)
(* (maybe another), and so is its first rank.  No answer is empty unless   *)
(* the user (for /top, everybody) was off the leaderboard at a moment of   *)
(* the request; between DEL and ZADD everybody is.                         *)
ListsOfOneMoment ==
  \A r \in Done : scope # "friends" =>
    LET q == req[r]
        with == {z \in seen[r] : q.user \in DOMAIN z}
    IN
    /\ q.kind = "top" => \E z \in seen[r] : Shows(q.list, z, 1, IF q.n > 0 THEN q.n ELSE 10)
    /\ q.kind = "rank" /\ q.list # <<>> =>
         /\ Len(q.list) = 1 /\ q.list[1].entry.user = q.user
         /\ \E z \in with : q.list[1].rank = RevRank(z, q.user) + 1
         /\ \E z \in with : q.list[1].entry.score = z[q.user]
    /\ q.kind = "around" /\ q.n >= 0 /\ q.list # <<>> =>
         /\ \E y \in with, z \in seen[r] :
              LET place == RevRank(y, q.user) + 1
              IN  Shows(q.list, z, FirstPlace(place, q.n), place + q.n)
         /\ \E z \in with : q.list[1].rank = FirstPlace(RevRank(z, q.user) + 1, q.n)
    /\ q.kind # "top" /\ q.n >= 0 /\ q.list = <<>> => with # seen[r]
    /\ q.kind = "top" /\ q.list = <<>> => NoMembers \in seen[r]

(* "ReplaceZSet atomically clears key and repopulates it": a global        *)
(* leaderboard that has had members (it has, once anything was written) is *)
(* never answered as one that nobody is on.                                *)
ReplacedAtOnce ==
  [][\A r \in Request :
       scope = "global" /\ writes > 0 /\ req[r].at = "new" /\ req'[r].kind = "top" =>
         req'[r].list # <<>>]_readsVars
=============================================================================
