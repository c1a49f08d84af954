----------------------------- MODULE ScoreUpdate -----------------------------
(***************************************************************************)
(* POST /score/update of cmd/api: concurrent requests, each adding its     *)
(* delta to three leaderboards of Redis, one pipeline after the other, and *)
(* publishing one event per leaderboard without waiting for an answer.     *)
(*                                                                         *)
(* A pipeline is two commands on a connection, not a transaction: Redis    *)
(* runs it in its own time, commands of others in between, whether or not  *)
(* the client still waits for the reply.                                   *)
(***************************************************************************)
EXTENDS Integers, Sequences, FiniteSetsExt

CONSTANTS
  Req,        \* requests
  Invalid,    \* requests without user, region or delta, or that are no JSON
  UserOf, RegionOf, DeltaOf,  \* the body of a valid request
  Calendar,   \* Calendar[type][t]: the key of the period of that type containing t
  MaxNow,     \* bound: instants
  MaxFaults   \* bound: timeouts, broken connections and crashes

PeriodTypes == <<"daily", "weekly", "monthly">>

ASSUME ConstantsAssumption ==
  /\ IsFiniteSet(Req)
  /\ Invalid \subseteq Req
  /\ DeltaOf \in [Req -> Int \ {0}]
  /\ DOMAIN Calendar = {"daily", "weekly", "monthly"}
  /\ MaxNow \in Nat \ {0}
  /\ MaxFaults \in Nat

PeriodKey(type, t) == Calendar[type][t]

User == {UserOf[r] : r \in Req}
Region == {RegionOf[r] : r \in Req}
Period == {<<type, PeriodKey(type, t)>> : type \in DOMAIN Calendar, t \in 1 .. MaxNow}

VARIABLES
  now,
  pc,       \* per request: "new", "redis", "publish", or how it was answered
  at,       \* per request: the `now` of the handler
  step,     \* per request: the index in PeriodTypes
  try,      \* per request: how often its current pipeline was sent again
  pipes,    \* pipelines that Redis has received and not finished
  zset,     \* the regional ZSETs: score per region, period and user
  mirror,   \* the user_score strings
  sent,     \* per request: the events handed to the exchange
  channel,  \* the one AMQP channel of the process: it is never reopened
  applied,  \* history: how often Redis ran the ZINCRBY of a request for a period
  torn,     \* history: pipelines cut between their two commands
  faults

vars == <<now, pc, at, step, try, pipes, zset, mirror, sent, channel, applied, torn, faults>>

Init ==
  /\ now = 1
  /\ pc = [r \in Req |-> "new"]
  /\ at = [r \in Req |-> 0]
  /\ step = [r \in Req |-> 1]
  /\ try = [r \in Req |-> 0]
  /\ pipes = {}
  /\ zset = [e \in Region \X Period \X User |-> 0]
  /\ mirror = [e \in User \X Period |-> 0]
  /\ sent = [r \in Req |-> <<>>]
  /\ channel = "open"
  /\ applied = [e \in Req \X Period |-> 0]
  /\ torn = 0
  /\ faults = 0

Tick ==
  /\ now < MaxNow
  /\ now' = now + 1
  /\ UNCHANGED <<pc, at, step, try, pipes, zset, mirror, sent, channel, applied, torn, faults>>

-----------------------------------------------------------------------------
(* What the request works on.                                              *)

\* A bug: the key is computed from the clock anew for each period.
PeriodNow(r, i) == <<PeriodTypes[i], PeriodKey(PeriodTypes[i], now)>>

PeriodAt(r, i) == <<PeriodTypes[i], PeriodKey(PeriodTypes[i], at[r])>>

\* A bug: the same for the keys in Redis.
PipeNow(r, i, n, t) ==
  [req |-> r, period |-> <<PeriodTypes[i], PeriodKey(PeriodTypes[i], now)>>,
   step |-> i, try |-> n, next |-> "zset"]

Pipe(r, i, n, t) ==
  [req |-> r, period |-> <<PeriodTypes[i], PeriodKey(PeriodTypes[i], t)>>,
   step |-> i, try |-> n, next |-> "zset"]

\* The reply the handler is waiting for is the one to its latest pipeline.
Latest(p) == pc[p.req] = "redis" /\ step[p.req] = p.step /\ try[p.req] = p.try

-----------------------------------------------------------------------------
(* The handler.                                                            *)

\* Decoding fails or a field is missing: 400, and nothing else happens.
Reject(r) ==
  /\ pc[r] = "new"
  /\ r \in Invalid
  /\ pc' = [pc EXCEPT ![r] = "rejected"]
  /\ UNCHANGED <<now, at, step, try, pipes, zset, mirror, sent, channel, applied, torn, faults>>

\* The body is fine: `now` is read once, and the daily pipeline goes out.
Accept(r) ==
  /\ pc[r] = "new"
  /\ r \notin Invalid
  /\ pc' = [pc EXCEPT ![r] = "redis"]
  /\ at' = [at EXCEPT ![r] = now]
  /\ pipes' = pipes \cup {Pipe(r, 1, 0, now)}
  /\ UNCHANGED <<now, step, try, zset, mirror, sent, channel, applied, torn, faults>>

\* A bug: the handler goes on before Redis has answered.
RepliedEarly(r) ==
  /\ \E p \in pipes : p.req = r /\ Latest(p)
  /\ pc' = [pc EXCEPT ![r] = "publish"]
  /\ UNCHANGED <<now, at, step, try, pipes, zset, mirror, sent, channel, applied, torn, faults>>

\* Both replies of the pipeline arrive: IncrementScore returns the new score.
Replied(r) ==
  /\ \E p \in pipes :
       /\ p.req = r /\ Latest(p) /\ p.next = "done"
       /\ pipes' = pipes \ {p}
  /\ pc' = [pc EXCEPT ![r] = "publish"]
  /\ UNCHANGED <<now, at, step, try, zset, mirror, sent, channel, applied, torn, faults>>

\* The timeout of a read, or a broken connection: go-redis sends the pipeline again.
Resend(r) ==
  /\ pc[r] = "redis"
  /\ faults < MaxFaults
  /\ faults' = faults + 1
  /\ try' = [try EXCEPT ![r] = @ + 1]
  /\ pipes' = pipes \cup {Pipe(r, step[r], try[r] + 1, at[r])}
  /\ UNCHANGED <<now, pc, at, step, zset, mirror, sent, channel, applied, torn>>

\* A bug: the error of IncrementScore is logged like the one of publishScoreEvent.
GiveUpSilently(r) ==
  /\ pc[r] = "redis"
  /\ faults < MaxFaults
  /\ faults' = faults + 1
  /\ pc' = [pc EXCEPT ![r] = "publish"]
  /\ UNCHANGED <<now, at, step, try, pipes, zset, mirror, sent, channel, applied, torn>>

\* Exec returns an error: 500.  The earlier periods keep their increments and events.
GiveUp(r) ==
  /\ pc[r] = "redis"
  /\ faults < MaxFaults
  /\ faults' = faults + 1
  /\ pc' = [pc EXCEPT ![r] = "failed"]
  /\ UNCHANGED <<now, at, step, try, pipes, zset, mirror, sent, channel, applied, torn>>

\* A bug: the last period type is left out.
PublishLastMissing(r) ==
  /\ pc[r] = "publish"
  /\ sent' = [sent EXCEPT ![r] = Append(@, [period |-> PeriodAt(r, step[r]),
                                           delta |-> DeltaOf[r], timestamp |-> at[r]])]
  /\ IF step[r] < Len(PeriodTypes) - 1
     THEN /\ step' = [step EXCEPT ![r] = @ + 1]
          /\ pipes' = pipes \cup {Pipe(r, step[r] + 1, 0, at[r])}
          /\ pc' = [pc EXCEPT ![r] = "redis"]
     ELSE /\ pc' = [pc EXCEPT ![r] = "ok"]
          /\ UNCHANGED <<step, pipes>>
  /\ UNCHANGED <<now, at, try, zset, mirror, channel, applied, torn, faults>>

\* publishScoreEvent, then the next period, or 200.  Without an open channel the
\* publish fails, which is logged, or is written to a dead connection.
PublishScoreEvent(r) ==
  /\ pc[r] = "publish"
  /\ sent' = IF channel = "open"
             THEN [sent EXCEPT ![r] = Append(@, [period |-> PeriodAt(r, step[r]),
                                                 delta |-> DeltaOf[r], timestamp |-> at[r]])]
             ELSE sent
  /\ IF step[r] < Len(PeriodTypes)
     THEN /\ step' = [step EXCEPT ![r] = @ + 1]
          /\ try' = [try EXCEPT ![r] = 0]
          /\ pipes' = pipes \cup {Pipe(r, step[r] + 1, 0, at[r])}
          /\ pc' = [pc EXCEPT ![r] = "redis"]
     ELSE /\ pc' = [pc EXCEPT ![r] = "ok"]
          /\ UNCHANGED <<step, try, pipes>>
  /\ UNCHANGED <<now, at, zset, mirror, channel, applied, torn, faults>>

-----------------------------------------------------------------------------
(* Redis: the commands of IncrementScore.                                  *)

ZIncrBy(p) ==
  /\ p.next = "zset"
  /\ zset' = [zset EXCEPT ![<<RegionOf[p.req], p.period, UserOf[p.req]>>] = @ + DeltaOf[p.req]]
  /\ applied' = [applied EXCEPT ![<<p.req, p.period>>] = @ + 1]
  /\ pipes' = (pipes \ {p}) \cup {[p EXCEPT !.next = "mirror"]}
  /\ UNCHANGED <<now, pc, at, step, try, mirror, sent, channel, torn, faults>>

\* A bug: the mirror is set to the score ZINCRBY returned, one region's score.
SetMirror(p) ==
  /\ p.next = "mirror"
  /\ mirror' = [mirror EXCEPT ![<<UserOf[p.req], p.period>>] =
                                zset[<<RegionOf[p.req], p.period, UserOf[p.req]>>]]
  /\ pipes' = (pipes \ {p}) \cup {[p EXCEPT !.next = "done"]}
  /\ UNCHANGED <<now, pc, at, step, try, zset, sent, channel, applied, torn, faults>>

IncrBy(p) ==
  /\ p.next = "mirror"
  /\ mirror' = [mirror EXCEPT ![<<UserOf[p.req], p.period>>] = @ + DeltaOf[p.req]]
  /\ pipes' = (pipes \ {p}) \cup {[p EXCEPT !.next = "done"]}
  /\ UNCHANGED <<now, pc, at, step, try, zset, sent, channel, applied, torn, faults>>

\* A pipeline nobody waits for any more ends: the reply is dropped with the
\* connection, and so are the commands Redis has not read yet.
Abandoned(p) ==
  /\ ~Latest(p)
  /\ pipes' = pipes \ {p}
  /\ torn' = IF p.next = "mirror" THEN torn + 1 ELSE torn
  /\ UNCHANGED <<now, pc, at, step, try, zset, mirror, sent, channel, applied, faults>>

-----------------------------------------------------------------------------
(* Failures.  main opens one channel and never another one.                *)

ChannelLost ==
  /\ channel = "open"
  /\ faults < MaxFaults
  /\ faults' = faults + 1
  /\ channel' = "lost"
  /\ UNCHANGED <<now, pc, at, step, try, pipes, zset, mirror, sent, applied, torn>>

\* The process dies and is started again: the requests in flight get no answer.
Restart ==
  /\ faults < MaxFaults
  /\ faults' = faults + 1
  /\ pc' = [r \in Req |-> IF pc[r] \in {"redis", "publish"} THEN "aborted" ELSE pc[r]]
  /\ channel' = "open"
  /\ UNCHANGED <<now, at, step, try, pipes, zset, mirror, sent, applied, torn>>

-----------------------------------------------------------------------------
Next ==
  \/ Tick
  \/ \E r \in Req :
       Reject(r) \/ Accept(r) \/ Replied(r) \/ Resend(r) \/ GiveUp(r) \/ PublishScoreEvent(r)
  \/ \E p \in pipes : ZIncrBy(p) \/ IncrBy(p) \/ Abandoned(p)
  \/ ChannelLost
  \/ Restart

Spec == Init /\ [][Next]_vars

-----------------------------------------------------------------------------
(* Properties.                                                             *)

Answers == {"ok", "failed", "rejected", "aborted"}

(* Types.  A pipeline belongs to the period its request is at or was at,   *)
(* and no request runs ahead of the pipeline it waits for.                 *)
TypeOK ==
  /\ now \in 1 .. MaxNow
  /\ pc \in [Req -> {"new", "redis", "publish"} \cup Answers]
  /\ at \in [Req -> 0 .. MaxNow]
  /\ step \in [Req -> 1 .. Len(PeriodTypes)]
  /\ try \in [Req -> 0 .. MaxFaults]
  /\ \A p \in pipes :
       /\ p.next \in {"zset", "mirror", "done"}
       /\ p.period = PeriodAt(p.req, p.step)
       /\ p.step <= step[p.req]
  /\ \A r \in Req : pc[r] = "redis" => \E p \in pipes : p.req = r /\ Latest(p)
  /\ zset \in [Region \X Period \X User -> Int]
  /\ mirror \in [User \X Period -> Int]
  /\ channel \in {"open", "lost"}
  /\ applied \in [Req \X Period -> Nat]
  /\ faults \in 0 .. MaxFaults

\* The sum of the deltas of a set of requests, each taken n(r) times.
SumDelta(n) ==
  LET counted == {r \in Req : n[r] # 0}
  IN  SumFunction([r \in counted |-> n[r] * DeltaOf[r]])

\* The sum of the increments that went into the leaderboards of user u in period p.
RegionalTotal(u, p) == SumFunction([g \in Region |-> zset[<<g, p, u>>]])

(* The mirror read by the friends leaderboard is the user's score over all *)
(* regions, up to pipelines between their two commands: IncrementScore     *)
(* keeps the two in step through interleavings and resends, as long as no  *)
(* pipeline was cut in the middle.                                         *)
MirrorAgrees ==
  torn = 0 =>
    \A u \in User, p \in Period :
      mirror[<<u, p>>] +
        SumDelta([r \in Req |->
          IF UserOf[r] = u
          THEN Cardinality({q \in pipes : q.req = r /\ q.period = p /\ q.next = "mirror"})
          ELSE 0])
      = RegionalTotal(u, p)

\* What the replay of the events of the given requests adds up to on one leaderboard.
Replay(S, g, p, u) ==
  SumDelta([r \in Req |->
    IF r \in S /\ RegionOf[r] = g /\ UserOf[r] = u
    THEN Cardinality({i \in DOMAIN sent[r] : sent[r][i].period = p})
    ELSE 0])

(* A leaderboard holds the increments Redis ran for it and nothing else,   *)
(* and publishScoreEvent comes after IncrementScore succeeded: at no moment *)
(* does a replay of the published events credit a request with more        *)
(* increments than Redis has run for it, whatever their signs.             *)
ReplayNeverAhead ==
  /\ \A g \in Region, p \in Period, u \in User :
       zset[<<g, p, u>>] =
         SumDelta([r \in Req |->
           IF RegionOf[r] = g /\ UserOf[r] = u THEN applied[<<r, p>>] ELSE 0])
  /\ \A r \in Req, p \in Period :
       Cardinality({i \in DOMAIN sent[r] : sent[r][i].period = p}) <= applied[<<r, p>>]

\* The request was answered 200 and counts on this leaderboard.
Answered200(r, g, p, u) ==
  /\ pc[r] = "ok" /\ RegionOf[r] = g /\ UserOf[r] = u
  /\ \E i \in DOMAIN PeriodTypes : PeriodAt(r, i) = p

(* A request answered 200 has been counted in the periods of all three     *)
(* types of its instant, whatever was resent, lost or restarted meanwhile, *)
(* and in each at most once more than there were faults.                   *)
OkMeansScored ==
  \A r \in Req : pc[r] = "ok" =>
    \A i \in DOMAIN PeriodTypes : applied[<<r, PeriodAt(r, i)>>] \in 1 .. faults + 1

(* `now` is read once per request: its events name the periods of a single *)
(* instant, each at most once and in the order of PeriodTypes, even if the *)
(* day or the week ends while the handler runs.                            *)
OneInstant ==
  \A r \in Req :
    /\ \E t \in 1 .. MaxNow : \A i \in DOMAIN sent[r] :
         sent[r][i].period[2] = PeriodKey(sent[r][i].period[1], t)
    /\ \A i, j \in DOMAIN sent[r] : i < j =>
         \E k, l \in DOMAIN PeriodTypes :
           k < l /\ sent[r][i].period[1] = PeriodTypes[k] /\ sent[r][j].period[1] = PeriodTypes[l]

(* Without faults every leaderboard is exactly what was asked for, and its *)
(* events replay to it, once the requests are answered.                    *)
ExactWithoutFaults ==
  faults = 0 /\ (\A r \in Req : pc[r] \in Answers) =>
    \A g \in Region, p \in Period, u \in User :
      /\ Replay(Req, g, p, u) = zset[<<g, p, u>>]
      /\ zset[<<g, p, u>>] =
           SumFunctionOnSet(DeltaOf, {r \in Req : Answered200(r, g, p, u)})
=============================================================================
