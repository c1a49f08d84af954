------------------------- MODULE LiveCommentsProofs -------------------------
(***************************************************************************)
(* The comment feed for every number of pages, requests and connections,   *)
(* every buffer size and however many requests are posted at a time: the   *)
(* registry, the mailboxes, and what a page shows.                         *)
(***************************************************************************)
EXTENDS LiveComments, SequenceTheorems, FiniteSetTheorems, TLAPS

\* What is written to subscriber s next, or waits in its mailbox.
Writing(s, e) == sub[s].at = "write" /\ sub[s].out = e
Waiting(s, e) == e \in Range(sub[s].buf)

\* Request p is fanning e out: to all that are subscribed by then, or still to some.
Fanning(p, e) == post[p].at \in {"publish", "send"} /\ post[p].event = e
GoesTo(p, s) == post[p].at = "publish" \/ (post[p].at = "send" /\ s \in post[p].targets)

\* A room lists its own subscribers, an event goes to subscribers of its room, and to
\* none that has not subscribed yet; a connection that is not opened yet has no handler.
Placed ==
  /\ \A r \in DOMAIN rooms : \A s \in rooms[r] : SubRoom(s) = r
  /\ \A p \in Post : \A s \in post[p].targets :
       SubRoom(s) = RoomOf[p] /\ sub[s].at \notin {"none", "opened"}
  /\ \A s \in Sub : sub[s].at \in {"none", "opened"} => sub[s].buf = <<>>
  /\ \A s \in Sub : s[2] > client[Owner(s)].conns => sub[s].at = "none"

\* NoSilentLoss without Published: what a subscriber does not have yet is still fanned out.
NothingMissed ==
  \A s \in Sub : Live(s) /\ ~sub[s].killed =>
    \A n \in sub[s].since + 1 .. seqs[SubRoom(s)] :
      \/ n \in sub[s].got \/ Waiting(s, Comment(n)) \/ Writing(s, Comment(n))
      \/ \E p \in Post : RoomOf[p] = SubRoom(s) /\ Fanning(p, Comment(n)) /\ GoesTo(p, s)

\* Ids are given once and in order.
IdsAreOwn ==
  /\ \A p, q \in Post, n \in Nat :
       RoomOf[p] = RoomOf[q] /\ Fanning(p, Comment(n)) /\ Fanning(q, Comment(n)) => p = q
  /\ \A p \in Post, n \in Nat : Fanning(p, Comment(n)) => n <= seqs[RoomOf[p]]
  /\ \A s \in Sub, n \in Nat :
       Waiting(s, Comment(n)) \/ Writing(s, Comment(n)) => n <= seqs[SubRoom(s)]
  /\ \A c \in Client : \A n \in Range(client[c].shown) : n <= seqs[RoomOf[c]]

\* On its way to a subscriber a comment is in one place.
OnePlace ==
  \A s \in Sub, n \in Nat :
    /\ \A i, j \in DOMAIN sub[s].buf :
         sub[s].buf[i] = Comment(n) /\ sub[s].buf[j] = Comment(n) => i = j
    /\ ~(Waiting(s, Comment(n)) /\ Writing(s, Comment(n)))
    /\ \A p \in Post :
         RoomOf[p] = SubRoom(s) /\ Fanning(p, Comment(n)) /\ GoesTo(p, s) =>
           ~Waiting(s, Comment(n)) /\ ~Writing(s, Comment(n))

\* What a page shows does not come to it again, on the connection it has now.
NotAgain ==
  \A s \in Sub : s[2] = client[Owner(s)].conns =>
    \A n \in Range(client[Owner(s)].shown) :
      /\ ~Waiting(s, Comment(n)) /\ ~Writing(s, Comment(n))
      /\ \A p \in Post : RoomOf[p] = SubRoom(s) /\ Fanning(p, Comment(n)) => ~GoesTo(p, s)

\* What is not fanned out yet is shown nowhere.
NotBefore ==
  \A p \in Post, n \in Nat : post[p].at = "publish" /\ post[p].event = Comment(n) =>
    \A c \in Client : RoomOf[c] = RoomOf[p] => n \notin Range(client[c].shown)

IInv ==
  /\ TypeOK /\ RegistryExact /\ Placed /\ NothingMissed
  /\ IdsAreOwn /\ OnePlace /\ NotAgain /\ NotBefore /\ NoRepeat

-----------------------------------------------------------------------------
(* Sequences.                                                              *)

\* One more element at the end.
LEMMA Enqueue ==
  ASSUME NEW S, NEW b \in Seq(S), NEW e \in S
  PROVE  /\ Append(b, e) \in Seq(S)
         /\ Len(Append(b, e)) = Len(b) + 1 /\ Len(b) \in Nat
         /\ Range(Append(b, e)) = Range(b) \cup {e}
         /\ DOMAIN b = 1 .. Len(b) /\ DOMAIN Append(b, e) = 1 .. Len(b) + 1
         /\ \A i \in 1 .. Len(b) : Append(b, e)[i] = b[i]
         /\ Append(b, e)[Len(b) + 1] = e
<1>1. /\ Append(b, e) \in Seq(S)
      /\ Len(Append(b, e)) = Len(b) + 1 /\ Len(b) \in Nat
      /\ DOMAIN b = 1 .. Len(b) /\ DOMAIN Append(b, e) = 1 .. Len(b) + 1
      /\ \A i \in 1 .. Len(b) : Append(b, e)[i] = b[i]
      /\ Append(b, e)[Len(b) + 1] = e
  BY AppendProperties, LenProperties
<1>2. Range(Append(b, e)) = Range(b) \cup {e}
  <2>1. ASSUME NEW x \in Range(Append(b, e)) PROVE x \in Range(b) \cup {e}
    BY <1>1 DEF Range
  <2>2. ASSUME NEW x \in Range(b) PROVE x \in Range(Append(b, e))
    <3>1. PICK i \in 1 .. Len(b) : b[i] = x
      BY <1>1 DEF Range
    <3>2. i \in DOMAIN Append(b, e) /\ Append(b, e)[i] = x
      BY <1>1, <3>1
    <3> QED BY <3>2 DEF Range
  <2>3. e \in Range(Append(b, e))
    <3>1. Len(b) + 1 \in DOMAIN Append(b, e)
      BY <1>1
    <3> QED BY <1>1, <3>1 DEF Range
  <2> QED BY <2>1, <2>2, <2>3
<1> QED BY <1>1, <1>2

\* The first element and the others.
LEMMA Dequeue ==
  ASSUME NEW S, NEW b \in Seq(S), b # <<>>
  PROVE  /\ Head(b) \in S /\ Tail(b) \in Seq(S)
         /\ Len(b) \in Nat \ {0} /\ Len(Tail(b)) = Len(b) - 1
         /\ Range(b) = Range(Tail(b)) \cup {Head(b)}
         /\ DOMAIN b = 1 .. Len(b) /\ DOMAIN Tail(b) = 1 .. Len(b) - 1
         /\ Head(b) = b[1] /\ \A i \in 1 .. Len(b) - 1 : Tail(b)[i] = b[i + 1]
<1>1. /\ Head(b) \in S /\ Tail(b) \in Seq(S)
      /\ Len(b) \in Nat \ {0} /\ Len(Tail(b)) = Len(b) - 1
      /\ DOMAIN b = 1 .. Len(b) /\ DOMAIN Tail(b) = 1 .. Len(b) - 1
      /\ Head(b) = b[1] /\ \A i \in 1 .. Len(b) - 1 : Tail(b)[i] = b[i + 1]
  BY HeadTailProperties, LenProperties, EmptySeq
<1>2. ASSUME NEW x \in Range(b) PROVE x \in Range(Tail(b)) \cup {Head(b)}
  <2>1. PICK i \in 1 .. Len(b) : b[i] = x
    BY <1>1 DEF Range
  <2>2. CASE i = 1
    BY <1>1, <2>1, <2>2
  <2>3. CASE i # 1
    <3>1. i - 1 \in DOMAIN Tail(b) /\ Tail(b)[i - 1] = x
      BY <1>1, <2>1, <2>3
    <3> QED BY <3>1 DEF Range
  <2> QED BY <2>2, <2>3
<1>3. ASSUME NEW x \in Range(Tail(b)) PROVE x \in Range(b)
  <2>1. PICK i \in 1 .. Len(b) - 1 : Tail(b)[i] = x
    BY <1>1 DEF Range
  <2>2. i + 1 \in DOMAIN b /\ b[i + 1] = x
    BY <1>1, <2>1
  <2> QED BY <2>2 DEF Range
<1>4. Head(b) \in Range(b)
  <2>1. 1 \in DOMAIN b
    BY <1>1
  <2> QED BY <1>1, <2>1 DEF Range
<1> QED BY <1>1, <1>2, <1>3, <1>4

-----------------------------------------------------------------------------
(* What each step does to the records it changes.                          *)

\* A subscriber and its room.
LEMMA SubParts ==
  ASSUME NEW s \in Sub
  PROVE  /\ Owner(s) \in Client /\ s[2] \in 1 .. MaxConns /\ s = <<Owner(s), s[2]>>
         /\ SubRoom(s) = RoomOf[Owner(s)] /\ SubRoom(s) \in Room
BY DEF Sub, Owner, SubRoom, Room

\* The types of the parts.
LEMMA Parts ==
  ASSUME TypeOK
  PROVE  /\ \A s \in Sub : sub[s] \in Subscriber /\ Len(sub[s].buf) <= BufferSize
         /\ \A p \in Post : post[p] \in Request /\ RoomOf[p] \in Room
         /\ \A c \in Client : /\ client[c] \in Page /\ RoomOf[c] \in Room
                              /\ Len(client[c].shown) <= MaxShown
         /\ \A r \in Room : seqs[r] \in Nat /\ counters[r] \in Nat
BY DEF TypeOK, Room

\* A request is rejected, its event published, delivered or done: its record changes,
\* the rest of the room's state as the step says.
LEMMA PostEffect ==
  ASSUME TypeOK, NEW p \in Post,
         RejectComment(p) \/ AssignId(p) \/ Snapshot(p) \/ CountUp(p) \/ Posted(p)
  PROVE  /\ UNCHANGED <<rooms, sub, client>>
         /\ post' \in [Post -> Request] /\ \A q \in Post \ {p} : post'[q] = post[q]
         /\ seqs' \in [Room -> Nat] /\ counters' \in [Room -> Nat]
         /\ TypeOK'
<1>1. UNCHANGED <<rooms, sub, client>>
  BY DEF RejectComment, AssignId, Snapshot, CountUp, Posted
<1>2. RoomOf[p] \in Room /\ post[p] \in Request /\ post \in [Post -> Request]
      /\ seqs \in [Room -> Nat] /\ counters \in [Room -> Nat]
      /\ seqs[RoomOf[p]] \in Nat /\ counters[RoomOf[p]] \in Nat
  BY Parts DEF TypeOK
<1>3. \A n \in Nat : Comment(n) \in Event /\ Count(n) \in Event
  BY DEF Comment, Count, Event
<1>4. seqs' \in [Room -> Nat] /\ counters' \in [Room -> Nat]
  BY <1>2 DEF RejectComment, AssignId, Snapshot, CountUp, Posted
<1>5. post' \in [Post -> Request] /\ \A q \in Post \ {p} : post'[q] = post[q]
  <2>1. CASE RejectComment(p)
    BY <1>2, <2>1 DEF RejectComment, Request
  <2>2. CASE AssignId(p)
    <3>1. Comment(seqs[RoomOf[p]] + 1) \in Event
      BY <1>2, <1>3
    <3> QED BY <1>2, <2>2, <3>1 DEF AssignId, Request
  <2>3. CASE Snapshot(p)
    <3>1. (IF RoomOf[p] \in DOMAIN rooms THEN rooms[RoomOf[p]] ELSE {}) \in SUBSET Sub
      BY DEF TypeOK
    <3> QED BY <1>2, <2>3, <3>1 DEF Snapshot, Request
  <2>4. CASE CountUp(p)
    <3>1. Count(counters[RoomOf[p]] + 1) \in Event
      BY <1>2, <1>3
    <3> QED BY <1>2, <2>4, <3>1 DEF CountUp, Request
  <2>5. CASE Posted(p)
    <3>1. Count(0) \in Event
      BY <1>3
    <3> QED BY <1>2, <2>5, <3>1 DEF Posted, Request
  <2> QED BY <2>1, <2>2, <2>3, <2>4, <2>5
<1>6. TypeOK'
  BY <1>1, <1>4, <1>5 DEF TypeOK
<1> QED BY <1>1, <1>4, <1>5, <1>6

\* The mailbox gets the event, or the subscriber is killed, or it is gone.
LEMMA SendEffect ==
  ASSUME TypeOK, NEW p \in Post, NEW s \in Sub, Send(p, s)
  PROVE  /\ post[p].at = "send" /\ s \in post[p].targets
         /\ UNCHANGED <<seqs, counters, rooms, client>>
         /\ \A q \in Post \ {p} : post'[q] = post[q]
         /\ post'[p].at = "send" /\ post'[p].event = post[p].event
         /\ post'[p].targets = post[p].targets \ {s}
         /\ \A t \in Sub \ {s} : sub'[t] = sub[t]
         /\ sub'[s].at = sub[s].at /\ sub'[s].out = sub[s].out
         /\ sub'[s].since = sub[s].since /\ sub'[s].got = sub[s].got
         /\ sub[s].killed => sub'[s].killed
         /\ \/ sub'[s].buf = sub[s].buf /\ (sub[s].at = "gone" \/ sub'[s].killed)
            \/ sub'[s].buf = Append(sub[s].buf, post[p].event)
         /\ TypeOK'
<1>1. /\ post[p].at = "send" /\ s \in post[p].targets
      /\ post' = [post EXCEPT ![p].targets = @ \ {s}]
      /\ UNCHANGED <<seqs, counters, rooms, client>>
  BY DEF Send, Sent
<1>2. /\ post[p] \in Request /\ post \in [Post -> Request]
      /\ sub[s] \in Subscriber /\ sub \in [Sub -> Subscriber]
      /\ \A t \in Sub : Len(sub[t].buf) <= BufferSize
  BY Parts DEF TypeOK
<1>3. /\ post' \in [Post -> Request] /\ \A q \in Post \ {p} : post'[q] = post[q]
      /\ post'[p].at = "send" /\ post'[p].event = post[p].event
      /\ post'[p].targets = post[p].targets \ {s}
  BY <1>1, <1>2 DEF Request
<1>4. /\ sub' \in [Sub -> Subscriber] /\ \A t \in Sub \ {s} : sub'[t] = sub[t]
      /\ sub'[s].at = sub[s].at /\ sub'[s].out = sub[s].out
      /\ sub'[s].since = sub[s].since /\ sub'[s].got = sub[s].got
      /\ sub[s].killed => sub'[s].killed
      /\ \/ sub'[s].buf = sub[s].buf /\ (sub[s].at = "gone" \/ sub'[s].killed)
         \/ sub'[s].buf = Append(sub[s].buf, post[p].event)
      /\ Len(sub'[s].buf) <= BufferSize
  <2>1. CASE sub[s].at = "gone"
    BY <1>2, <2>1 DEF Send
  <2>2. CASE sub[s].at # "gone" /\ Len(sub[s].buf) < BufferSize
    <3>1. sub' = [sub EXCEPT ![s].buf = Append(@, post[p].event)]
      BY <2>2 DEF Send
    <3>2. /\ Append(sub[s].buf, post[p].event) \in Seq(Event)
          /\ Len(Append(sub[s].buf, post[p].event)) = Len(sub[s].buf) + 1
          /\ Len(sub[s].buf) \in Nat
      BY <1>2, Enqueue DEF Subscriber, Request
    <3>3. Len(Append(sub[s].buf, post[p].event)) <= BufferSize
      BY <2>2, <3>2, ConstantsAssumption
    <3> QED BY <1>2, <3>1, <3>2, <3>3 DEF Subscriber
  <2>3. CASE sub[s].at # "gone" /\ ~(Len(sub[s].buf) < BufferSize)
    <3>1. sub' = [sub EXCEPT ![s].killed = TRUE]
      BY <2>3 DEF Send
    <3> QED BY <1>2, <3>1 DEF Subscriber
  <2> QED BY <2>1, <2>2, <2>3
<1>5. TypeOK'
  <2>1. \A t \in Sub : Len(sub'[t].buf) <= BufferSize
    BY <1>2, <1>4
  <2> QED BY <1>1, <1>3, <1>4, <2>1 DEF TypeOK
<1> QED BY <1>1, <1>3, <1>4, <1>5

\* A handler subscribes.
LEMMA SubscribeEffect ==
  ASSUME TypeOK, NEW s \in Sub, Subscribe(s)
  PROVE  /\ UNCHANGED <<seqs, counters, post, client>>
         /\ \A t \in Sub \ {s} : sub'[t] = sub[t]
         /\ sub[s].at = "opened" /\ sub'[s].at = "prime" /\ sub'[s].since = seqs[SubRoom(s)]
         /\ sub'[s].buf = sub[s].buf /\ sub'[s].killed = sub[s].killed /\ sub'[s].got = sub[s].got
         /\ DOMAIN rooms' = DOMAIN rooms \cup {SubRoom(s)}
         /\ \A r \in DOMAIN rooms \ {SubRoom(s)} : rooms'[r] = rooms[r]
         /\ rooms'[SubRoom(s)] =
              (IF SubRoom(s) \in DOMAIN rooms THEN rooms[SubRoom(s)] ELSE {}) \cup {s}
         /\ TypeOK'
<1>1. /\ sub[s].at = "opened" /\ UNCHANGED <<seqs, counters, post, client>>
      /\ sub' = [sub EXCEPT ![s].at = "prime", ![s].since = seqs[SubRoom(s)]]
      /\ rooms' = [r \in DOMAIN rooms \cup {SubRoom(s)} |->
                     (IF r \in DOMAIN rooms THEN rooms[r] ELSE {})
                       \cup (IF r = SubRoom(s) THEN {s} ELSE {})]
  BY DEF Subscribe
<1>2. /\ sub[s] \in Subscriber /\ sub \in [Sub -> Subscriber] /\ seqs[SubRoom(s)] \in Nat
      /\ SubRoom(s) \in Room /\ \A t \in Sub : Len(sub[t].buf) <= BufferSize
  BY Parts, SubParts DEF TypeOK
<1>3. /\ sub' \in [Sub -> Subscriber] /\ \A t \in Sub \ {s} : sub'[t] = sub[t]
      /\ sub'[s].at = "prime" /\ sub'[s].since = seqs[SubRoom(s)]
      /\ sub'[s].buf = sub[s].buf /\ sub'[s].killed = sub[s].killed /\ sub'[s].got = sub[s].got
  BY <1>1, <1>2 DEF Subscriber
<1>4. /\ DOMAIN rooms' = DOMAIN rooms \cup {SubRoom(s)}
      /\ \A r \in DOMAIN rooms \ {SubRoom(s)} : rooms'[r] = rooms[r]
      /\ rooms'[SubRoom(s)] =
           (IF SubRoom(s) \in DOMAIN rooms THEN rooms[SubRoom(s)] ELSE {}) \cup {s}
  BY <1>1
<1>5. DOMAIN rooms' \subseteq Room /\ rooms' \in [DOMAIN rooms' -> SUBSET Sub]
  <2>1. DOMAIN rooms \subseteq Room /\ \A r \in DOMAIN rooms : rooms[r] \subseteq Sub
    BY DEF TypeOK
  <2> QED BY <1>1, <1>2, <1>4, <2>1
<1>6. TypeOK'
  <2>1. \A t \in Sub : Len(sub'[t].buf) <= BufferSize
    BY <1>2, <1>3
  <2> QED BY <1>1, <1>3, <1>5, <2>1 DEF TypeOK
<1> QED BY <1>1, <1>3, <1>4, <1>6

\* The handler's loop takes an event to write: the count first, then from the mailbox.
LEMMA TakeEffect ==
  ASSUME TypeOK, NEW s \in Sub, Prime(s) \/ TakeEvent(s)
  PROVE  /\ UNCHANGED <<seqs, counters, rooms, post, client>>
         /\ \A t \in Sub \ {s} : sub'[t] = sub[t]
         /\ sub[s].at \in {"prime", "loop"} /\ sub'[s].at = "write"
         /\ sub'[s].since = sub[s].since /\ sub'[s].killed = sub[s].killed
         /\ sub'[s].got = sub[s].got
         /\ \/ sub'[s].out = Count(counters[SubRoom(s)]) /\ sub'[s].buf = sub[s].buf
            \/ /\ sub[s].buf # <<>>
               /\ sub'[s].out = Head(sub[s].buf) /\ sub'[s].buf = Tail(sub[s].buf)
         /\ TypeOK'
<1>1. UNCHANGED <<seqs, counters, rooms, post, client>>
  BY DEF Prime, TakeEvent
<1>2. /\ sub[s] \in Subscriber /\ sub \in [Sub -> Subscriber] /\ counters[SubRoom(s)] \in Nat
      /\ \A t \in Sub : Len(sub[t].buf) <= BufferSize
  BY Parts, SubParts DEF TypeOK
<1>3. /\ sub' \in [Sub -> Subscriber] /\ \A t \in Sub \ {s} : sub'[t] = sub[t]
      /\ sub[s].at \in {"prime", "loop"} /\ sub'[s].at = "write"
      /\ sub'[s].since = sub[s].since /\ sub'[s].killed = sub[s].killed
      /\ sub'[s].got = sub[s].got
      /\ \/ sub'[s].out = Count(counters[SubRoom(s)]) /\ sub'[s].buf = sub[s].buf
         \/ /\ sub[s].buf # <<>>
            /\ sub'[s].out = Head(sub[s].buf) /\ sub'[s].buf = Tail(sub[s].buf)
      /\ Len(sub'[s].buf) <= BufferSize
  <2>1. CASE Prime(s)
    <3>1. Count(counters[SubRoom(s)]) \in Event
      BY <1>2 DEF Count, Event
    <3> QED BY <1>2, <2>1, <3>1 DEF Prime, Subscriber
  <2>2. CASE TakeEvent(s)
    <3>1. /\ sub[s].at = "loop" /\ sub[s].buf # <<>>
          /\ sub' = [sub EXCEPT ![s].at = "write", ![s].out = Head(sub[s].buf), ![s].buf = Tail(@)]
      BY <2>2 DEF TakeEvent
    <3>2. /\ Head(sub[s].buf) \in Event /\ Tail(sub[s].buf) \in Seq(Event)
          /\ Len(Tail(sub[s].buf)) = Len(sub[s].buf) - 1 /\ Len(sub[s].buf) \in Nat
      BY <1>2, <3>1, Dequeue DEF Subscriber
    <3>3. Len(Tail(sub[s].buf)) <= BufferSize
      BY <1>2, <3>2, ConstantsAssumption
    <3> QED BY <1>2, <3>1, <3>2, <3>3 DEF Subscriber
  <2> QED BY <2>1, <2>2
<1>4. TypeOK'
  <2>1. \A t \in Sub : Len(sub'[t].buf) <= BufferSize
    BY <1>2, <1>3
  <2> QED BY <1>1, <1>3, <2>1 DEF TypeOK
<1> QED BY <1>1, <1>3, <1>4

\* What a page shows after one more comment.
LEMMA HandleShows ==
  ASSUME NEW view \in Page, NEW ev \in Event, Len(view.shown) <= MaxShown
  PROVE  LET v == Handle(view, ev)
         IN  /\ v \in Page /\ Len(v.shown) <= MaxShown
             /\ v.conns = view.conns /\ v.open = view.open /\ v.stalled = view.stalled
             /\ ev.name = "count" => v.shown = view.shown /\ v.count = ev.n
             /\ ev.name = "comment" =>
                  /\ v.count = view.count
                  /\ Range(v.shown) \subseteq Range(view.shown) \cup {ev.n}
                  /\ IsInjective(view.shown) /\ ev.n \notin Range(view.shown) => IsInjective(v.shown)
<1> DEFINE s == view.shown
           kept == IF Len(s) < MaxShown THEN s ELSE Tail(s)
           new == Append(kept, ev.n)
           v == Handle(view, ev)
<1>1. s \in Seq(Nat) /\ Len(s) \in Nat /\ ev.n \in Nat /\ ev.name \in {"comment", "count"}
  BY LenProperties DEF Page, Event
<1>2. CASE ev.name = "count"
  BY <1>1, <1>2 DEF Handle, Page
<1>3. CASE ev.name = "comment"
  <2>1. v = [view EXCEPT !.shown = new]
    BY <1>3 DEF Handle
  <2>2. /\ kept \in Seq(Nat) /\ Range(kept) \subseteq Range(s) /\ Len(kept) < MaxShown
        /\ IsInjective(s) => IsInjective(kept)
    <3>1. CASE Len(s) < MaxShown
      BY <1>1, <3>1
    <3>2. CASE ~(Len(s) < MaxShown)
      <4>1. s # <<>>
        BY <1>1, <3>2, ConstantsAssumption, EmptySeq
      <4>2. /\ Tail(s) \in Seq(Nat) /\ Len(s) \in Nat \ {0} /\ Len(Tail(s)) = Len(s) - 1
            /\ Range(s) = Range(Tail(s)) \cup {Head(s)}
            /\ DOMAIN s = 1 .. Len(s) /\ DOMAIN Tail(s) = 1 .. Len(s) - 1
            /\ \A i \in 1 .. Len(s) - 1 : Tail(s)[i] = s[i + 1]
        BY <1>1, <4>1, Dequeue
      <4>3. ASSUME IsInjective(s) PROVE IsInjective(Tail(s))
        <5>1. \A i, j \in 1 .. Len(s) : s[i] = s[j] => i = j
          BY <4>2, <4>3 DEF IsInjective
        <5>2. ASSUME NEW i \in 1 .. Len(s) - 1, NEW j \in 1 .. Len(s) - 1, Tail(s)[i] = Tail(s)[j]
              PROVE  i = j
          <6>1. i + 1 \in 1 .. Len(s) /\ j + 1 \in 1 .. Len(s) /\ s[i + 1] = s[j + 1]
            BY <4>2, <5>2
          <6>2. i + 1 = j + 1
            BY <5>1, <6>1
          <6> QED BY <6>2
        <5> QED BY <4>2, <5>2 DEF IsInjective
      <4>4. Len(Tail(s)) < MaxShown
        BY <4>2, ConstantsAssumption
      <4> QED BY <3>2, <4>2, <4>3, <4>4
    <3> QED BY <3>1, <3>2
  <2> HIDE DEF kept
  <2>3. /\ new \in Seq(Nat) /\ Len(new) = Len(kept) + 1 /\ Len(kept) \in Nat
        /\ Range(new) = Range(kept) \cup {ev.n}
        /\ DOMAIN kept = 1 .. Len(kept) /\ DOMAIN new = 1 .. Len(kept) + 1
        /\ \A i \in 1 .. Len(kept) : new[i] = kept[i]
        /\ new[Len(kept) + 1] = ev.n
    BY <1>1, <2>2, Enqueue
  <2> HIDE DEF new
  <2>4. ASSUME IsInjective(s), ev.n \notin Range(s) PROVE IsInjective(new)
    <3>1. IsInjective(kept) /\ ev.n \notin Range(kept)
      BY <2>2, <2>4
    <3>2. \A i \in 1 .. Len(kept) : kept[i] # ev.n
      BY <2>3, <3>1 DEF Range
    <3> QED BY <2>3, <3>1, <3>2 DEF IsInjective
  <2>5. v \in Page /\ v.shown = new /\ v.conns = view.conns /\ v.open = view.open
        /\ v.stalled = view.stalled /\ v.count = view.count
    BY <2>1, <2>3 DEF Page
  <2>6. Len(new) <= MaxShown
    BY <2>2, <2>3, ConstantsAssumption
  <2> QED BY <1>3, <2>2, <2>3, <2>4, <2>5, <2>6
<1> QED BY <1>1, <1>2, <1>3

\* An event is written: the page of an open connection shows it, nobody else's does.
LEMMA WriteEffect ==
  ASSUME TypeOK, NEW s \in Sub, WriteEvent(s)
  PROVE  /\ UNCHANGED <<seqs, counters, rooms, post>>
         /\ \A t \in Sub \ {s} : sub'[t] = sub[t]
         /\ sub[s].at = "write" /\ sub'[s].at = "loop"
         /\ sub'[s].since = sub[s].since /\ sub'[s].killed = sub[s].killed
         /\ sub'[s].buf = sub[s].buf
         /\ sub'[s].got = IF sub[s].out.name = "comment" THEN sub[s].got \cup {sub[s].out.n}
                          ELSE sub[s].got
         /\ \A c \in Client : c # Owner(s) \/ ~Connected(s) => client'[c] = client[c]
         /\ Connected(s) => client'[Owner(s)] = Handle(client[Owner(s)], sub[s].out)
         /\ \A c \in Client : client'[c].conns = client[c].conns /\ client'[c].open = client[c].open
         /\ TypeOK'
<1>1. /\ sub[s].at = "write" /\ UNCHANGED <<seqs, counters, rooms, post>>
      /\ sub' = [sub EXCEPT ![s].at = "loop", ![s].out = Count(0),
                            ![s].got = IF sub[s].out.name = "comment" THEN @ \cup {sub[s].out.n} ELSE @]
      /\ client' = IF Connected(s) THEN [client EXCEPT ![Owner(s)] = Handle(@, sub[s].out)] ELSE client
  BY DEF WriteEvent
<1>2. /\ sub[s] \in Subscriber /\ sub \in [Sub -> Subscriber] /\ Owner(s) \in Client
      /\ client[Owner(s)] \in Page /\ client \in [Client -> Page]
      /\ \A t \in Sub : Len(sub[t].buf) <= BufferSize
      /\ \A c \in Client : Len(client[c].shown) <= MaxShown
  BY Parts, SubParts DEF TypeOK
<1>3. Count(0) \in Event /\ sub[s].out \in Event /\ sub[s].out.n \in Nat
  BY <1>2 DEF Count, Event, Subscriber
<1>4. /\ sub' \in [Sub -> Subscriber] /\ \A t \in Sub \ {s} : sub'[t] = sub[t]
      /\ sub'[s].at = "loop"
      /\ sub'[s].since = sub[s].since /\ sub'[s].killed = sub[s].killed
      /\ sub'[s].buf = sub[s].buf
      /\ sub'[s].got = IF sub[s].out.name = "comment" THEN sub[s].got \cup {sub[s].out.n}
                       ELSE sub[s].got
  BY <1>1, <1>2, <1>3 DEF Subscriber
<1> DEFINE v == Handle(client[Owner(s)], sub[s].out)
<1>5. /\ v \in Page /\ Len(v.shown) <= MaxShown
      /\ v.conns = client[Owner(s)].conns /\ v.open = client[Owner(s)].open
  BY <1>2, <1>3, HandleShows
<1> HIDE DEF v
<1>6. client' = IF Connected(s) THEN [client EXCEPT ![Owner(s)] = v] ELSE client
  BY <1>1 DEF v
<1>7. /\ client' \in [Client -> Page]
      /\ \A c \in Client : Len(client'[c].shown) <= MaxShown
      /\ \A c \in Client : c # Owner(s) \/ ~Connected(s) => client'[c] = client[c]
      /\ Connected(s) => client'[Owner(s)] = v
      /\ \A c \in Client : client'[c].conns = client[c].conns /\ client'[c].open = client[c].open
  BY <1>2, <1>5, <1>6
<1>8. TypeOK'
  <2>1. \A t \in Sub : Len(sub'[t].buf) <= BufferSize
    BY <1>2, <1>4
  <2> QED BY <1>1, <1>4, <1>7, <2>1 DEF TypeOK
<1> QED BY <1>1, <1>4, <1>7, <1>8 DEF v

\* A handler ends: out of the registry, and a room nobody watches is forgotten.
LEMMA EndEffect ==
  ASSUME TypeOK, NEW s \in Sub, End(s)
  PROVE  /\ UNCHANGED <<seqs, counters, post>>
         /\ \A t \in Sub \ {s} : sub'[t] = sub[t]
         /\ sub'[s].at = "gone" /\ sub'[s].buf = <<>> /\ sub'[s].killed = sub[s].killed
         /\ sub[s].at = "loop"
         /\ DOMAIN rooms' = {r \in DOMAIN rooms : rooms[r] # {s}}
         /\ \A r \in DOMAIN rooms' : rooms'[r] = rooms[r] \ {s}
         /\ \A c \in Client : /\ client'[c].conns = client[c].conns
                              /\ client'[c].shown = client[c].shown
                              /\ client'[c].count = client[c].count
                              /\ client'[c].open => client[c].open
         /\ TypeOK'
<1>1. /\ sub[s].at = "loop" /\ UNCHANGED <<seqs, counters, post>>
      /\ rooms' = [r \in {r \in DOMAIN rooms : rooms[r] # {s}} |-> rooms[r] \ {s}]
      /\ sub' = [sub EXCEPT ![s].at = "gone", ![s].out = Count(0), ![s].buf = <<>>]
      /\ client' = IF Connected(s) THEN [client EXCEPT ![Owner(s)].open = FALSE] ELSE client
  BY DEF End, Unsubscribe
<1>2. /\ sub[s] \in Subscriber /\ sub \in [Sub -> Subscriber] /\ Owner(s) \in Client
      /\ client[Owner(s)] \in Page /\ client \in [Client -> Page]
      /\ \A t \in Sub : Len(sub[t].buf) <= BufferSize
      /\ \A c \in Client : Len(client[c].shown) <= MaxShown
  BY Parts, SubParts DEF TypeOK
<1>3. Count(0) \in Event /\ <<>> \in Seq(Event) /\ Len(<<>>) <= BufferSize
  BY ConstantsAssumption, EmptySeq DEF Count, Event
<1>4. /\ sub' \in [Sub -> Subscriber] /\ \A t \in Sub \ {s} : sub'[t] = sub[t]
      /\ sub'[s].at = "gone" /\ sub'[s].buf = <<>> /\ sub'[s].killed = sub[s].killed
  BY <1>1, <1>2, <1>3 DEF Subscriber
<1>5. /\ client' \in [Client -> Page]
      /\ \A c \in Client : /\ client'[c].conns = client[c].conns
                           /\ client'[c].shown = client[c].shown
                           /\ client'[c].count = client[c].count
                           /\ client'[c].open => client[c].open
  BY <1>1, <1>2 DEF Page
<1>6. /\ DOMAIN rooms' = {r \in DOMAIN rooms : rooms[r] # {s}}
      /\ \A r \in DOMAIN rooms' : rooms'[r] = rooms[r] \ {s}
      /\ DOMAIN rooms' \subseteq Room /\ rooms' \in [DOMAIN rooms' -> SUBSET Sub]
  <2>1. DOMAIN rooms \subseteq Room /\ \A r \in DOMAIN rooms : rooms[r] \subseteq Sub
    BY DEF TypeOK
  <2> QED BY <1>1, <2>1
<1>7. TypeOK'
  <2>1. \A t \in Sub : Len(sub'[t].buf) <= BufferSize
    BY <1>2, <1>3, <1>4
  <2> QED BY <1>1, <1>2, <1>4, <1>5, <1>6, <2>1 DEF TypeOK
<1> QED BY <1>1, <1>4, <1>5, <1>6, <1>7

\* A page connects, disconnects, stops or goes on reading.
LEMMA PageEffect ==
  ASSUME TypeOK, NEW c \in Client, Connect(c) \/ Disconnect(c) \/ StallOrResume(c)
  PROVE  /\ UNCHANGED <<seqs, counters, rooms, post>>
         /\ \A d \in Client : /\ client'[d].shown = client[d].shown
                              /\ client'[d].count = client[d].count
         /\ \A d \in Client \ {c} : client'[d] = client[d]
         /\ \/ sub' = sub /\ client'[c].conns = client[c].conns
               /\ (client'[c].open => client[c].open)
            \/ /\ client'[c].conns = client[c].conns + 1
               /\ <<c, client[c].conns + 1>> \in Sub
               /\ \A s \in Sub : s # <<c, client[c].conns + 1>> => sub'[s] = sub[s]
               /\ \A s \in Sub : s = <<c, client[c].conns + 1>> =>
                    /\ sub'[s].at = "opened" /\ sub'[s].buf = sub[s].buf
                    /\ sub'[s].killed = sub[s].killed
         /\ TypeOK'
<1>1. /\ client[c] \in Page /\ client \in [Client -> Page] /\ sub \in [Sub -> Subscriber]
      /\ \A t \in Sub : Len(sub[t].buf) <= BufferSize
      /\ \A d \in Client : Len(client[d].shown) <= MaxShown
  BY Parts DEF TypeOK
<1>2. UNCHANGED <<seqs, counters, rooms, post>>
  BY DEF Connect, Disconnect, StallOrResume
<1>3. CASE Connect(c)
  <2> DEFINE n == client[c].conns + 1
             s == <<c, n>>
  <2>1. /\ client[c].conns \in Nat /\ client[c].conns < MaxConns
        /\ client' = [client EXCEPT ![c].conns = @ + 1, ![c].open = TRUE]
        /\ sub' = [sub EXCEPT ![s].at = "opened"]
    BY <1>1, <1>3 DEF Connect, Page
  <2>2. n \in 1 .. MaxConns /\ n \in 0 .. MaxConns
    BY <2>1, ConstantsAssumption
  <2>3. s \in Sub
    BY <2>2 DEF Sub
  <2>4. /\ client' \in [Client -> Page] /\ client'[c].conns = n
        /\ \A d \in Client \ {c} : client'[d] = client[d]
        /\ \A d \in Client : client'[d].shown = client[d].shown /\ client'[d].count = client[d].count
    BY <1>1, <2>1, <2>2 DEF Page
  <2> HIDE DEF s
  <2>5. /\ sub' \in [Sub -> Subscriber] /\ \A t \in Sub : t # s => sub'[t] = sub[t]
        /\ sub'[s].at = "opened" /\ sub'[s].buf = sub[s].buf /\ sub'[s].killed = sub[s].killed
    BY <1>1, <2>1, <2>3 DEF Subscriber
  <2>6. TypeOK'
    <3>1. \A t \in Sub : Len(sub'[t].buf) <= BufferSize
      BY <1>1, <2>3, <2>5
    <3>2. \A d \in Client : Len(client'[d].shown) <= MaxShown
      BY <1>1, <2>4
    <3> QED BY <1>2, <2>4, <2>5, <3>1, <3>2 DEF TypeOK
  <2> QED BY <1>2, <2>3, <2>4, <2>5, <2>6 DEF s
<1>4. CASE Disconnect(c) \/ StallOrResume(c)
  <2>1. /\ sub' = sub
        /\ \/ client' = [client EXCEPT ![c] = [client[c] EXCEPT !.open = FALSE]]
           \/ client' = [client EXCEPT ![c] = [client[c] EXCEPT !.stalled = ~client[c].stalled]]
    BY <1>4 DEF Disconnect, StallOrResume
  <2>2. /\ client' \in [Client -> Page]
        /\ \A d \in Client \ {c} : client'[d] = client[d]
        /\ client'[c].conns = client[c].conns /\ client'[c].shown = client[c].shown
        /\ client'[c].count = client[c].count /\ (client'[c].open => client[c].open)
    <3>1. CASE client' = [client EXCEPT ![c] = [client[c] EXCEPT !.open = FALSE]]
      <4>1. [client[c] EXCEPT !.open = FALSE] \in Page
        BY <1>1 DEF Page
      <4> QED BY <1>1, <3>1, <4>1 DEF Page
    <3>2. CASE client' = [client EXCEPT ![c] = [client[c] EXCEPT !.stalled = ~client[c].stalled]]
      <4>1. [client[c] EXCEPT !.stalled = ~client[c].stalled] \in Page
        <5>1. (~client[c].stalled) \in BOOLEAN
          OBVIOUS
        <5> QED BY <1>1, <5>1 DEF Page
      <4>2. client'[c] = [client[c] EXCEPT !.stalled = ~client[c].stalled]
        BY <1>1, <3>2
      <4> QED BY <1>1, <3>2, <4>1, <4>2 DEF Page
    <3> QED BY <2>1, <3>1, <3>2
  <2>3. TypeOK'
    <3>1. \A d \in Client : Len(client'[d].shown) <= MaxShown
      BY <1>1, <2>2
    <3> QED BY <1>1, <1>2, <2>1, <2>2, <3>1 DEF TypeOK
  <2> QED BY <1>2, <2>1, <2>2, <2>3
<1> QED BY <1>3, <1>4

-----------------------------------------------------------------------------
(* Each step preserves the invariant.                                      *)

\* A comment is known by its number, and is no count.
LEMMA Comments ==
  /\ \A m, n : Comment(m) = Comment(n) => m = n
  /\ \A m, n : Comment(m) # Count(n)
  /\ \A m : Comment(m).name = "comment" /\ Comment(m).n = m
  /\ \A m : Count(m).name = "count"
  /\ \A e \in Event : e.name = "comment" => e = Comment(e.n)
BY DEF Comment, Count, Event

\* The events of a request that is not fanning out comments, or to nobody any more.
LEMMA QuietStep ==
  ASSUME IInv, NEW p \in Post, RejectComment(p) \/ CountUp(p) \/ Posted(p)
  PROVE  IInv'
<1>1. /\ TypeOK' /\ UNCHANGED <<seqs, rooms, sub, client>>
      /\ \A q \in Post \ {p} : post'[q] = post[q]
  BY PostEffect DEF IInv, RejectComment, CountUp, Posted
<1>2. /\ post'[p].targets = post[p].targets
      /\ \A n : ~Fanning(p, Comment(n))'
      /\ \A n, s : ~(Fanning(p, Comment(n)) /\ GoesTo(p, s))
  <2>1. post[p] \in Request /\ post \in [Post -> Request]
    BY Parts DEF IInv, TypeOK
  <2>2. CASE RejectComment(p)
    BY <2>1, <2>2 DEF RejectComment, Request, Fanning, GoesTo
  <2>3. CASE CountUp(p)
    BY <2>1, <2>3, Comments DEF CountUp, Request, Fanning, GoesTo
  <2>4. CASE Posted(p)
    BY <2>1, <2>4, Comments DEF Posted, Request, Fanning, GoesTo
  <2> QED BY <2>2, <2>3, <2>4
<1>3. /\ \A q \in Post : \A n : Fanning(q, Comment(n))' => q # p /\ Fanning(q, Comment(n))
      /\ \A q \in Post \ {p} : \A n, s : /\ Fanning(q, Comment(n)) => Fanning(q, Comment(n))'
                                         /\ GoesTo(q, s)' <=> GoesTo(q, s)
  BY <1>1, <1>2 DEF Fanning, GoesTo
<1>4. \A s, n : /\ Waiting(s, Comment(n))' <=> Waiting(s, Comment(n))
                /\ Writing(s, Comment(n))' <=> Writing(s, Comment(n))
  BY <1>1 DEF Waiting, Writing
<1>5. RegistryExact' /\ NoRepeat'
  BY <1>1 DEF IInv, RegistryExact, NoRepeat, Live
<1>6. Placed'
  BY <1>1, <1>2 DEF IInv, Placed
<1>7. NothingMissed'
  <2> SUFFICES ASSUME NEW s \in Sub, Live(s)', ~sub'[s].killed,
                      NEW n \in sub'[s].since + 1 .. seqs'[SubRoom(s)],
                      ~(n \in sub'[s].got), ~Waiting(s, Comment(n))', ~Writing(s, Comment(n))'
               PROVE  \E q \in Post : /\ RoomOf[q] = SubRoom(s) /\ Fanning(q, Comment(n))'
                                      /\ GoesTo(q, s)'
    BY DEF NothingMissed
  <2>1. PICK q \in Post : RoomOf[q] = SubRoom(s) /\ Fanning(q, Comment(n)) /\ GoesTo(q, s)
    BY <1>1, <1>4 DEF IInv, NothingMissed, Live
  <2>2. q # p
    BY <1>2, <2>1
  <2> QED BY <1>3, <2>1, <2>2
<1>8. IdsAreOwn'
  BY <1>1, <1>3, <1>4 DEF IInv, IdsAreOwn
<1>9. OnePlace'
  BY <1>1, <1>3, <1>4 DEF IInv, OnePlace
<1>10. NotAgain'
  BY <1>1, <1>3, <1>4 DEF IInv, NotAgain
<1>11. NotBefore'
  <2> SUFFICES ASSUME NEW q \in Post, NEW n \in Nat, post'[q].at = "publish",
                      post'[q].event = Comment(n), NEW c \in Client, RoomOf[c] = RoomOf[q]
               PROVE  n \notin Range(client'[c].shown)
    BY DEF NotBefore
  <2>1. q # p /\ post'[q] = post[q]
    BY <1>1, <1>2 DEF Fanning
  <2> QED BY <1>1, <2>1 DEF IInv, NotBefore
<1> QED BY <1>1, <1>5, <1>6, <1>7, <1>8, <1>9, <1>10, <1>11 DEF IInv

\* A new comment has an id of its own and still goes to everybody.
LEMMA AssignStep ==
  ASSUME IInv, NEW p \in Post, AssignId(p)
  PROVE  IInv'
<1> DEFINE r0 == RoomOf[p]
           n0 == seqs[r0] + 1
<1>1. /\ TypeOK' /\ UNCHANGED <<rooms, sub, client>>
      /\ \A q \in Post \ {p} : post'[q] = post[q]
  BY PostEffect DEF IInv
<1>2. /\ r0 \in Room /\ seqs \in [Room -> Nat] /\ post \in [Post -> Request] /\ post[p] \in Request
      /\ \A s \in Sub : SubRoom(s) \in Room /\ sub[s].since \in Nat
      /\ \A c \in Client : RoomOf[c] \in Room
  BY Parts, SubParts DEF IInv, TypeOK, Subscriber
<1>3. /\ post[p].at = "new" /\ post'[p].at = "publish" /\ post'[p].event = Comment(n0)
      /\ post'[p].targets = post[p].targets
      /\ seqs' = [seqs EXCEPT ![r0] = n0]
  BY <1>2 DEF AssignId, Request
<1>4. /\ seqs'[r0] = n0 /\ \A r \in Room \ {r0} : seqs'[r] = seqs[r]
      /\ \A r \in Room : seqs[r] \in Nat /\ seqs'[r] \in Nat /\ seqs[r] <= seqs'[r]
  BY <1>2, <1>3
<1>5. /\ \A q \in Post \ {p} : \A n, s : /\ Fanning(q, Comment(n))' <=> Fanning(q, Comment(n))
                                         /\ GoesTo(q, s)' <=> GoesTo(q, s)
      /\ \A n : ~Fanning(p, Comment(n))
      /\ \A n : Fanning(p, Comment(n))' <=> n = n0
      /\ \A s : GoesTo(p, s)'
  BY <1>1, <1>3, Comments DEF Fanning, GoesTo
<1>6. \A s, n : /\ Waiting(s, Comment(n))' <=> Waiting(s, Comment(n))
                /\ Writing(s, Comment(n))' <=> Writing(s, Comment(n))
  BY <1>1 DEF Waiting, Writing
<1>7. /\ \A q \in Post : RoomOf[q] = r0 => ~Fanning(q, Comment(n0))
      /\ \A s \in Sub : SubRoom(s) = r0 => ~Waiting(s, Comment(n0)) /\ ~Writing(s, Comment(n0))
      /\ \A c \in Client : RoomOf[c] = r0 => n0 \notin Range(client[c].shown)
  <2>1. n0 \in Nat /\ ~(n0 <= seqs[r0])
    BY <1>2, <1>4
  <2> HIDE DEF n0, r0
  <2>2. ASSUME NEW q \in Post, RoomOf[q] = r0 PROVE ~Fanning(q, Comment(n0))
    BY <2>1, <2>2 DEF IInv, IdsAreOwn
  <2>3. ASSUME NEW s \in Sub, SubRoom(s) = r0
        PROVE  ~Waiting(s, Comment(n0)) /\ ~Writing(s, Comment(n0))
    BY <2>1, <2>3 DEF IInv, IdsAreOwn
  <2>4. ASSUME NEW c \in Client, RoomOf[c] = r0 PROVE n0 \notin Range(client[c].shown)
    BY <2>1, <2>4 DEF IInv, IdsAreOwn
  <2> QED BY <2>2, <2>3, <2>4
<1> HIDE DEF r0, n0
<1>8. RegistryExact' /\ NoRepeat'
  BY <1>1 DEF IInv, RegistryExact, NoRepeat, Live
<1>9. Placed'
  BY <1>1, <1>3 DEF IInv, Placed
<1>10. NothingMissed'
  <2> SUFFICES ASSUME NEW s \in Sub, Live(s)', ~sub'[s].killed,
                      NEW n \in sub'[s].since + 1 .. seqs'[SubRoom(s)],
                      ~(n \in sub'[s].got), ~Waiting(s, Comment(n))', ~Writing(s, Comment(n))'
               PROVE  \E q \in Post : /\ RoomOf[q] = SubRoom(s) /\ Fanning(q, Comment(n))'
                                      /\ GoesTo(q, s)'
    BY DEF NothingMissed
  <2>1. CASE SubRoom(s) = r0 /\ n = n0
    BY <1>5, <2>1 DEF r0
  <2>2. CASE ~(SubRoom(s) = r0 /\ n = n0)
    <3>1. n \in sub[s].since + 1 .. seqs[SubRoom(s)]
      BY <1>1, <1>2, <1>4, <2>2 DEF n0
    <3>2. PICK q \in Post : RoomOf[q] = SubRoom(s) /\ Fanning(q, Comment(n)) /\ GoesTo(q, s)
      BY <1>1, <1>6, <3>1 DEF IInv, NothingMissed, Live
    <3> QED BY <1>5, <3>2
  <2> QED BY <2>1, <2>2
<1>11. IdsAreOwn'
  <2>1. ASSUME NEW q \in Post, NEW t \in Post, NEW n \in Nat, RoomOf[q] = RoomOf[t],
               Fanning(q, Comment(n))', Fanning(t, Comment(n))'
        PROVE  q = t
    <3>1. CASE q # p /\ t # p
      BY <1>5, <2>1, <3>1 DEF IInv, IdsAreOwn
    <3>2. CASE q = p \/ t = p
      BY <1>5, <1>7, <2>1, <3>2 DEF r0
    <3> QED BY <3>1, <3>2
  <2>2. ASSUME NEW q \in Post, NEW n \in Nat, Fanning(q, Comment(n))'
        PROVE  n <= seqs'[RoomOf[q]]
    <3>1. CASE q = p
      <4>1. n = n0 /\ RoomOf[q] = r0 /\ seqs'[r0] = n0
        BY <1>4, <1>5, <2>2, <3>1 DEF r0
      <4> QED BY <4>1
    <3>2. CASE q # p
      <4>1. n <= seqs[RoomOf[q]] /\ RoomOf[q] \in Room
        BY <1>5, <2>2, <3>2, Parts DEF IInv, IdsAreOwn
      <4> QED BY <1>4, <4>1
    <3> QED BY <3>1, <3>2
  <2>3. ASSUME NEW s \in Sub, NEW n \in Nat, (Waiting(s, Comment(n)) \/ Writing(s, Comment(n)))'
        PROVE  n <= seqs'[SubRoom(s)]
    <3>1. n <= seqs[SubRoom(s)]
      BY <1>6, <2>3 DEF IInv, IdsAreOwn
    <3> QED BY <1>2, <1>4, <3>1
  <2>4. ASSUME NEW c \in Client, NEW n \in Range(client'[c].shown)
        PROVE  n <= seqs'[RoomOf[c]]
    <3>1. n <= seqs[RoomOf[c]] /\ n \in Nat
      <4>1. client[c].shown \in Seq(Nat)
        BY Parts DEF IInv, Page
      <4>2. Range(client[c].shown) \subseteq Nat
        BY <4>1, ElementOfSeq, LenProperties DEF Range
      <4> QED BY <1>1, <2>4, <4>2 DEF IInv, IdsAreOwn
    <3> QED BY <1>2, <1>4, <3>1
  <2> QED BY <2>1, <2>2, <2>3, <2>4 DEF IdsAreOwn
<1>12. OnePlace'
  <2>1. ASSUME NEW s \in Sub, NEW q \in Post, NEW n \in Nat, RoomOf[q] = SubRoom(s),
               Fanning(q, Comment(n))', GoesTo(q, s)'
        PROVE  ~Waiting(s, Comment(n)) /\ ~Writing(s, Comment(n))
    <3>1. CASE q = p
      BY <1>5, <1>7, <2>1, <3>1 DEF r0
    <3>2. CASE q # p
      BY <1>5, <2>1, <3>2 DEF IInv, OnePlace
    <3> QED BY <3>1, <3>2
  <2> QED BY <1>1, <1>6, <2>1 DEF IInv, OnePlace
<1>13. NotAgain'
  <2>1. ASSUME NEW s \in Sub, s[2] = client[Owner(s)].conns, NEW n \in Range(client[Owner(s)].shown),
               NEW q \in Post, RoomOf[q] = SubRoom(s), Fanning(q, Comment(n))', GoesTo(q, s)'
        PROVE  FALSE
    <3>1. CASE q = p
      BY <1>5, <1>7, <2>1, <3>1, SubParts DEF r0
    <3>2. CASE q # p
      BY <1>5, <2>1, <3>2 DEF IInv, NotAgain
    <3> QED BY <3>1, <3>2
  <2> QED BY <1>1, <1>6, <2>1 DEF IInv, NotAgain
<1>14. NotBefore'
  <2> SUFFICES ASSUME NEW q \in Post, NEW n \in Nat, post'[q].at = "publish",
                      post'[q].event = Comment(n), NEW c \in Client, RoomOf[c] = RoomOf[q]
               PROVE  n \notin Range(client'[c].shown)
    BY DEF NotBefore
  <2>1. CASE q = p
    BY <1>1, <1>3, <1>7, <2>1, Comments DEF r0
  <2>2. CASE q # p
    BY <1>1, <2>2 DEF IInv, NotBefore
  <2> QED BY <2>1, <2>2
<1> QED BY <1>1, <1>8, <1>9, <1>10, <1>11, <1>12, <1>13, <1>14 DEF IInv

\* Publish copies exactly the streams being served.
LEMMA SnapshotStep ==
  ASSUME IInv, NEW p \in Post, Snapshot(p)
  PROVE  IInv'
<1> DEFINE all == IF RoomOf[p] \in DOMAIN rooms THEN rooms[RoomOf[p]] ELSE {}
<1>1. /\ TypeOK' /\ UNCHANGED <<seqs, rooms, sub, client>>
      /\ \A q \in Post \ {p} : post'[q] = post[q]
  BY PostEffect DEF IInv, Snapshot
<1>2. /\ post[p].at = "publish" /\ post'[p].at = "send" /\ post'[p].event = post[p].event
      /\ post'[p].targets = all
  BY Parts DEF IInv, TypeOK, Snapshot, Request
<1>3. /\ \A s \in Sub : Live(s) /\ SubRoom(s) = RoomOf[p] => s \in all
      /\ \A s \in all : s \in Sub /\ Live(s) /\ SubRoom(s) = RoomOf[p]
  <2>1. \A r \in DOMAIN rooms : rooms[r] \subseteq Sub
    BY DEF IInv, TypeOK
  <2> QED BY <2>1 DEF IInv, RegistryExact, Placed
<1> HIDE DEF all
<1>4. /\ \A q \in Post : \A e : Fanning(q, e)' <=> Fanning(q, e)
      /\ \A q \in Post : \A s : GoesTo(q, s)' => GoesTo(q, s)
      /\ \A q \in Post, s \in Sub : GoesTo(q, s) /\ Live(s) /\ SubRoom(s) = RoomOf[q] => GoesTo(q, s)'
  BY <1>1, <1>2, <1>3 DEF Fanning, GoesTo
<1>5. \A s, n : /\ Waiting(s, Comment(n))' <=> Waiting(s, Comment(n))
                /\ Writing(s, Comment(n))' <=> Writing(s, Comment(n))
  BY <1>1 DEF Waiting, Writing
<1>6. RegistryExact' /\ NoRepeat'
  BY <1>1 DEF IInv, RegistryExact, NoRepeat, Live
<1>7. Placed'
  <2>1. \A s \in all : SubRoom(s) = RoomOf[p] /\ sub[s].at \notin {"none", "opened"}
    BY <1>3 DEF Live
  <2> QED BY <1>1, <1>2, <2>1 DEF IInv, Placed
<1>8. NothingMissed'
  <2> SUFFICES ASSUME NEW s \in Sub, Live(s)', ~sub'[s].killed,
                      NEW n \in sub'[s].since + 1 .. seqs'[SubRoom(s)],
                      ~(n \in sub'[s].got), ~Waiting(s, Comment(n))', ~Writing(s, Comment(n))'
               PROVE  \E q \in Post : /\ RoomOf[q] = SubRoom(s) /\ Fanning(q, Comment(n))'
                                      /\ GoesTo(q, s)'
    BY DEF NothingMissed
  <2>1. PICK q \in Post : RoomOf[q] = SubRoom(s) /\ Fanning(q, Comment(n)) /\ GoesTo(q, s)
    BY <1>1, <1>5 DEF IInv, NothingMissed, Live
  <2>2. Live(s)
    BY <1>1 DEF Live
  <2> QED BY <1>4, <2>1, <2>2
<1>9. IdsAreOwn'
  BY <1>1, <1>4, <1>5 DEF IInv, IdsAreOwn
<1>10. OnePlace'
  BY <1>1, <1>4, <1>5 DEF IInv, OnePlace
<1>11. NotAgain'
  BY <1>1, <1>4, <1>5 DEF IInv, NotAgain
<1>12. NotBefore'
  <2>1. \A q \in Post : post'[q].at = "publish" => post'[q] = post[q]
    BY <1>1, <1>2
  <2> QED BY <1>1, <2>1 DEF IInv, NotBefore
<1> QED BY <1>1, <1>6, <1>7, <1>8, <1>9, <1>10, <1>11, <1>12 DEF IInv

\* An event moves from its request to the mailbox, or the subscriber is lost to it.
LEMMA SendStep ==
  ASSUME IInv, NEW p \in Post, NEW s \in Sub, Send(p, s)
  PROVE  IInv'
<1> DEFINE e == post[p].event
           b == sub[s].buf
           put == sub'[s].buf = Append(b, e)
<1>1. /\ post[p].at = "send" /\ s \in post[p].targets
      /\ UNCHANGED <<seqs, counters, rooms, client>>
      /\ \A q \in Post \ {p} : post'[q] = post[q]
      /\ post'[p].at = "send" /\ post'[p].event = e /\ post'[p].targets = post[p].targets \ {s}
      /\ \A t \in Sub \ {s} : sub'[t] = sub[t]
      /\ sub'[s].at = sub[s].at /\ sub'[s].out = sub[s].out
      /\ sub'[s].since = sub[s].since /\ sub'[s].got = sub[s].got
      /\ sub[s].killed => sub'[s].killed
      /\ (sub'[s].buf = b /\ (sub[s].at = "gone" \/ sub'[s].killed)) \/ put
      /\ TypeOK'
  BY SendEffect DEF IInv
<1>2. e \in Event /\ b \in Seq(Event)
  BY Parts DEF IInv, Request, Subscriber
<1>3. /\ SubRoom(s) = RoomOf[p] /\ sub[s].at \notin {"none", "opened"}
      /\ \A n : e = Comment(n) => Fanning(p, Comment(n)) /\ GoesTo(p, s)
  BY <1>1 DEF IInv, Placed, Fanning, GoesTo
<1> HIDE DEF e, b, put
<1>4. /\ \A q \in Post : \A x : Fanning(q, x)' <=> Fanning(q, x)
      /\ \A q \in Post : \A t : GoesTo(q, t)' => GoesTo(q, t)
      /\ \A q \in Post : \A t : q # p \/ t # s => (GoesTo(q, t) => GoesTo(q, t)')
      /\ ~GoesTo(p, s)'
      /\ \A n : Fanning(p, Comment(n)) => e = Comment(n)
  BY <1>1 DEF Fanning, GoesTo, e
<1>5. /\ \A t \in Sub : \A x : Writing(t, x)' <=> Writing(t, x)
      /\ \A t \in Sub \ {s} : \A x : Waiting(t, x)' <=> Waiting(t, x)
      /\ \A x : Waiting(s, x) => Waiting(s, x)'
      /\ \A x : Waiting(s, x)' => Waiting(s, x) \/ (put /\ x = e)
      /\ \A x : put /\ x = e => Waiting(s, x)'
  <2>1. CASE put
    <3>1. Range(sub'[s].buf) = Range(b) \cup {e}
      BY <1>2, <2>1, Enqueue DEF put
    <3> QED BY <1>1, <2>1, <3>1 DEF Writing, Waiting, b
  <2>2. CASE ~put
    BY <1>1, <2>2 DEF Writing, Waiting, b
  <2> QED BY <2>1, <2>2
<1>6. \A n \in Nat : e = Comment(n) =>
        /\ ~Waiting(s, Comment(n)) /\ ~Writing(s, Comment(n)) /\ n <= seqs[SubRoom(s)]
        /\ s[2] = client[Owner(s)].conns => n \notin Range(client[Owner(s)].shown)
        /\ \A q \in Post : RoomOf[q] = SubRoom(s) /\ Fanning(q, Comment(n)) => q = p
  BY <1>3 DEF IInv, OnePlace, IdsAreOwn, NotAgain
<1>7. RegistryExact' /\ NoRepeat'
  BY <1>1 DEF IInv, RegistryExact, NoRepeat, Live
<1>8. Placed'
  <2>1. \A t \in Sub : sub'[t].at = sub[t].at
    BY <1>1
  <2>2. \A q \in Post : post'[q].targets \subseteq post[q].targets
    BY <1>1
  <2>3. \A q \in Post : post[q].targets \subseteq Sub
    BY Parts DEF IInv, Request
  <2>4. \A r \in DOMAIN rooms' : \A t \in rooms'[r] : SubRoom(t) = r
    BY <1>1 DEF IInv, Placed
  <2>5. \A q \in Post : \A t \in post'[q].targets :
          SubRoom(t) = RoomOf[q] /\ sub'[t].at \notin {"none", "opened"}
    BY <2>1, <2>2, <2>3 DEF IInv, Placed
  <2>6. \A t \in Sub : sub'[t].at \in {"none", "opened"} => sub'[t].buf = <<>>
    BY <1>1, <1>3, <2>1 DEF IInv, Placed
  <2>7. \A t \in Sub : t[2] > client'[Owner(t)].conns => sub'[t].at = "none"
    BY <1>1, <2>1 DEF IInv, Placed
  <2> QED BY <2>4, <2>5, <2>6, <2>7 DEF Placed
<1>9. NothingMissed'
  <2> SUFFICES ASSUME NEW t \in Sub, Live(t)', ~sub'[t].killed,
                      NEW n \in sub'[t].since + 1 .. seqs'[SubRoom(t)],
                      ~(n \in sub'[t].got), ~Waiting(t, Comment(n))', ~Writing(t, Comment(n))'
               PROVE  \E q \in Post : /\ RoomOf[q] = SubRoom(t) /\ Fanning(q, Comment(n))'
                                      /\ GoesTo(q, t)'
    BY DEF NothingMissed
  <2>1. Live(t) /\ ~sub[t].killed /\ n \in sub[t].since + 1 .. seqs[SubRoom(t)] /\ ~(n \in sub[t].got)
    BY <1>1 DEF Live
  <2>2. PICK q \in Post : RoomOf[q] = SubRoom(t) /\ Fanning(q, Comment(n)) /\ GoesTo(q, t)
    BY <1>5, <2>1 DEF IInv, NothingMissed
  <2>3. ~(q = p /\ t = s)
    <3> SUFFICES ASSUME q = p, t = s PROVE FALSE
      OBVIOUS
    <3>1. put
      BY <1>1, <2>1 DEF Live
    <3> QED BY <1>4, <1>5, <2>2, <3>1
  <2> QED BY <1>4, <2>2, <2>3
<1>10. IdsAreOwn'
  <2>1. \A t \in Sub, n \in Nat :
          (Waiting(t, Comment(n)) \/ Writing(t, Comment(n)))' => n <= seqs[SubRoom(t)]
    BY <1>5, <1>6 DEF IInv, IdsAreOwn
  <2> QED BY <1>1, <1>4, <2>1 DEF IInv, IdsAreOwn
<1>11. OnePlace'
  <2>1. ASSUME NEW n \in Nat, NEW i \in DOMAIN sub'[s].buf, NEW j \in DOMAIN sub'[s].buf,
               sub'[s].buf[i] = Comment(n), sub'[s].buf[j] = Comment(n)
        PROVE  i = j
    <3>1. CASE put
      <4>1. /\ DOMAIN b = 1 .. Len(b) /\ DOMAIN sub'[s].buf = 1 .. Len(b) + 1 /\ Len(b) \in Nat
            /\ \A k \in 1 .. Len(b) : sub'[s].buf[k] = b[k]
            /\ sub'[s].buf[Len(b) + 1] = e
        BY <1>2, <3>1, Enqueue DEF put
      <4>2. CASE i \in 1 .. Len(b) /\ j \in 1 .. Len(b)
        BY <2>1, <4>1, <4>2 DEF IInv, OnePlace, b
      <4>3. CASE i = Len(b) + 1 /\ j = Len(b) + 1
        BY <4>3
      <4>4. CASE ~(i \in 1 .. Len(b) /\ j \in 1 .. Len(b)) /\ ~(i = Len(b) + 1 /\ j = Len(b) + 1)
        <5>1. PICK k \in 1 .. Len(b) : b[k] = Comment(n) /\ e = Comment(n)
          <6>1. CASE i \in 1 .. Len(b)
            <7>1. j = Len(b) + 1
              BY <4>1, <4>4, <6>1
            <7> QED BY <2>1, <4>1, <6>1, <7>1
          <6>2. CASE i \notin 1 .. Len(b)
            <7>1. i = Len(b) + 1
              BY <4>1, <6>2
            <7>2. j \in 1 .. Len(b)
              BY <4>1, <4>4, <7>1
            <7> QED BY <2>1, <4>1, <7>1, <7>2
          <6> QED BY <6>1, <6>2
        <5>2. Waiting(s, Comment(n))
          BY <4>1, <5>1 DEF Waiting, Range, b
        <5> QED BY <1>6, <5>1, <5>2
      <4> QED BY <4>2, <4>3, <4>4
    <3>2. CASE ~put
      BY <1>1, <2>1, <3>2 DEF IInv, OnePlace, b
    <3> QED BY <3>1, <3>2
  <2>2. ASSUME NEW n \in Nat, Waiting(s, Comment(n))'
        PROVE  /\ ~Writing(s, Comment(n))'
               /\ \A q \in Post : RoomOf[q] = SubRoom(s) /\ Fanning(q, Comment(n))' => ~GoesTo(q, s)'
    <3>1. CASE Waiting(s, Comment(n))
      BY <1>4, <1>5, <3>1 DEF IInv, OnePlace
    <3>2. CASE e = Comment(n)
      BY <1>4, <1>5, <1>6, <3>2
    <3> QED BY <1>5, <2>2, <3>1, <3>2
  <2>3. ASSUME NEW n \in Nat, Writing(s, Comment(n))'
        PROVE  \A q \in Post : RoomOf[q] = SubRoom(s) /\ Fanning(q, Comment(n))' => ~GoesTo(q, s)'
    BY <1>4, <1>5, <2>3 DEF IInv, OnePlace
  <2>4. ASSUME NEW t \in Sub \ {s}, NEW n \in Nat
        PROVE  /\ \A i, j \in DOMAIN sub'[t].buf :
                    sub'[t].buf[i] = Comment(n) /\ sub'[t].buf[j] = Comment(n) => i = j
               /\ ~(Waiting(t, Comment(n))' /\ Writing(t, Comment(n))')
               /\ \A q \in Post :
                    RoomOf[q] = SubRoom(t) /\ Fanning(q, Comment(n))' /\ GoesTo(q, t)' =>
                      ~Waiting(t, Comment(n))' /\ ~Writing(t, Comment(n))'
    BY <1>1, <1>4, <1>5 DEF IInv, OnePlace
  <2> QED BY <2>1, <2>2, <2>3, <2>4 DEF OnePlace
<1>12. NotAgain'
  <2>1. ASSUME NEW t \in Sub, t[2] = client[Owner(t)].conns, NEW n \in Range(client[Owner(t)].shown)
        PROVE  ~Waiting(t, Comment(n))'
    <3>1. ~Waiting(t, Comment(n))
      BY <2>1 DEF IInv, NotAgain
    <3>2. n \in Nat
      <4>1. client[Owner(t)].shown \in Seq(Nat)
        BY Parts, SubParts DEF IInv, Page
      <4> QED BY <4>1, ElementOfSeq, LenProperties DEF Range
    <3> QED BY <1>5, <1>6, <2>1, <3>1, <3>2
  <2> QED BY <1>1, <1>4, <1>5, <2>1 DEF IInv, NotAgain
<1>13. NotBefore'
  <2>1. \A q \in Post : post'[q].at = "publish" => post'[q] = post[q]
    BY <1>1
  <2> QED BY <1>1, <2>1 DEF IInv, NotBefore
<1> QED BY <1>1, <1>7, <1>8, <1>9, <1>10, <1>11, <1>12, <1>13 DEF IInv

\* A handler enters its room, and nothing it has to get has been accepted yet.
LEMMA SubscribeStep ==
  ASSUME IInv, NEW s \in Sub, Subscribe(s)
  PROVE  IInv'
<1>1. /\ UNCHANGED <<seqs, counters, post, client>>
      /\ \A t \in Sub \ {s} : sub'[t] = sub[t]
      /\ sub[s].at = "opened" /\ sub'[s].at = "prime" /\ sub'[s].since = seqs[SubRoom(s)]
      /\ sub'[s].buf = sub[s].buf
      /\ DOMAIN rooms' = DOMAIN rooms \cup {SubRoom(s)}
      /\ \A r \in DOMAIN rooms \ {SubRoom(s)} : rooms'[r] = rooms[r]
      /\ rooms'[SubRoom(s)] =
           (IF SubRoom(s) \in DOMAIN rooms THEN rooms[SubRoom(s)] ELSE {}) \cup {s}
      /\ TypeOK'
  BY SubscribeEffect DEF IInv
<1>2. /\ \A q \in Post : \A e : Fanning(q, e)' <=> Fanning(q, e)
      /\ \A q \in Post : \A t : GoesTo(q, t)' <=> GoesTo(q, t)
      /\ \A t \in Sub : \A e : Waiting(t, e)' <=> Waiting(t, e)
      /\ \A t \in Sub : \A e : Writing(t, e)' <=> Writing(t, e)
  BY <1>1 DEF Fanning, GoesTo, Waiting, Writing
<1>3. RegistryExact'
  <2>1. ASSUME NEW t \in Sub
        PROVE  Live(t)' <=> SubRoom(t) \in DOMAIN rooms' /\ t \in rooms'[SubRoom(t)]
    <3>1. Live(t) <=> SubRoom(t) \in DOMAIN rooms /\ t \in rooms[SubRoom(t)]
      BY DEF IInv, RegistryExact
    <3>2. CASE t = s
      BY <1>1, <3>2 DEF Live
    <3>3. CASE t # s
      <4>1. Live(t)' <=> Live(t)
        BY <1>1, <3>3 DEF Live
      <4> QED BY <1>1, <3>1, <3>3, <4>1
    <3> QED BY <3>2, <3>3
  <2>2. ASSUME NEW r \in DOMAIN rooms' PROVE rooms'[r] # {}
    BY <1>1 DEF IInv, RegistryExact
  <2> QED BY <2>1, <2>2 DEF RegistryExact
<1>4. Placed'
  <2>1. \A r \in DOMAIN rooms' : \A t \in rooms'[r] : SubRoom(t) = r
    BY <1>1 DEF IInv, Placed
  <2>2. \A q \in Post : post'[q].targets \subseteq Sub /\ post'[q] = post[q]
    BY <1>1, Parts DEF IInv, Request
  <2>3. \A q \in Post : \A t \in post'[q].targets :
          SubRoom(t) = RoomOf[q] /\ sub'[t].at \notin {"none", "opened"}
    BY <1>1, <2>2 DEF IInv, Placed
  <2>4. \A t \in Sub : sub'[t].at \in {"none", "opened"} => sub'[t].buf = <<>>
    BY <1>1 DEF IInv, Placed
  <2>5. \A t \in Sub : t[2] > client'[Owner(t)].conns => sub'[t].at = "none"
    BY <1>1 DEF IInv, Placed
  <2> QED BY <2>1, <2>3, <2>4, <2>5 DEF Placed
<1>5. NothingMissed'
  <2> SUFFICES ASSUME NEW t \in Sub, Live(t)', ~sub'[t].killed,
                      NEW n \in sub'[t].since + 1 .. seqs'[SubRoom(t)],
                      ~(n \in sub'[t].got), ~Waiting(t, Comment(n))', ~Writing(t, Comment(n))'
               PROVE  \E q \in Post : /\ RoomOf[q] = SubRoom(t) /\ Fanning(q, Comment(n))'
                                      /\ GoesTo(q, t)'
    BY DEF NothingMissed
  <2>1. t # s
    <3>1. seqs[SubRoom(s)] \in Nat
      BY SubParts, Parts DEF IInv
    <3> QED BY <1>1, <3>1
  <2>2. Live(t)
    BY <1>1, <2>1 DEF Live
  <2>3. PICK q \in Post : RoomOf[q] = SubRoom(t) /\ Fanning(q, Comment(n)) /\ GoesTo(q, t)
    BY <1>1, <1>2, <2>1, <2>2 DEF IInv, NothingMissed
  <2> QED BY <1>2, <2>3
<1>6. IdsAreOwn'
  BY <1>1, <1>2 DEF IInv, IdsAreOwn
<1>7. OnePlace'
  <2>1. \A t \in Sub : sub'[t].buf = sub[t].buf
    BY <1>1
  <2> QED BY <1>2, <2>1 DEF IInv, OnePlace
<1>8. NotAgain' /\ NotBefore' /\ NoRepeat'
  BY <1>1, <1>2 DEF IInv, NotAgain, NotBefore, NoRepeat
<1> QED BY <1>1, <1>3, <1>4, <1>5, <1>6, <1>7, <1>8 DEF IInv

\* An event leaves the mailbox for the wire.
LEMMA TakeStep ==
  ASSUME IInv, NEW s \in Sub, Prime(s) \/ TakeEvent(s)
  PROVE  IInv'
<1> DEFINE b == sub[s].buf
           took == b # <<>> /\ sub'[s].out = Head(b) /\ sub'[s].buf = Tail(b)
<1>1. /\ UNCHANGED <<seqs, counters, rooms, post, client>>
      /\ \A t \in Sub \ {s} : sub'[t] = sub[t]
      /\ sub[s].at \in {"prime", "loop"} /\ sub'[s].at = "write"
      /\ sub'[s].since = sub[s].since /\ sub'[s].killed = sub[s].killed
      /\ sub'[s].got = sub[s].got
      /\ (sub'[s].out = Count(counters[SubRoom(s)]) /\ sub'[s].buf = b) \/ took
      /\ TypeOK'
  BY TakeEffect DEF IInv
<1>2. b \in Seq(Event)
  BY Parts DEF IInv, Subscriber
<1> HIDE DEF b, took
<1>3. ASSUME took
      PROVE  /\ Len(b) \in Nat \ {0} /\ Range(b) = Range(sub'[s].buf) \cup {sub'[s].out}
             /\ DOMAIN b = 1 .. Len(b) /\ DOMAIN sub'[s].buf = 1 .. Len(b) - 1
             /\ sub'[s].out = b[1] /\ \A i \in 1 .. Len(b) - 1 : sub'[s].buf[i] = b[i + 1]
  BY <1>2, <1>3, Dequeue DEF took
<1>4. /\ \A q \in Post : \A e : Fanning(q, e)' <=> Fanning(q, e)
      /\ \A q \in Post : \A t : GoesTo(q, t)' <=> GoesTo(q, t)
      /\ \A t \in Sub \ {s} : \A e : Waiting(t, e)' <=> Waiting(t, e)
      /\ \A t \in Sub \ {s} : \A e : Writing(t, e)' <=> Writing(t, e)
  BY <1>1 DEF Fanning, GoesTo, Waiting, Writing
<1>5. /\ \A n : ~Writing(s, Comment(n))
      /\ \A n : Waiting(s, Comment(n)) <=> Waiting(s, Comment(n))' \/ Writing(s, Comment(n))'
      /\ \A n : Writing(s, Comment(n))' => took
  <2>1. CASE took
    BY <1>1, <1>3, <2>1 DEF Waiting, Writing, b
  <2>2. CASE ~took
    BY <1>1, <2>2, Comments DEF Waiting, Writing, b
  <2> QED BY <2>1, <2>2
<1>6. ASSUME NEW n \in Nat, Waiting(s, Comment(n))', Writing(s, Comment(n))'
      PROVE  FALSE
  <2>1. took
    BY <1>5, <1>6
  <2>2. PICK i \in 1 .. Len(b) - 1 : b[i + 1] = Comment(n)
    BY <1>3, <1>6, <2>1 DEF Waiting, Range
  <2>3. b[1] = Comment(n) /\ 1 \in DOMAIN b /\ i + 1 \in DOMAIN b
    BY <1>3, <1>6, <2>1 DEF Writing
  <2>4. 1 = i + 1
    BY <2>2, <2>3 DEF IInv, OnePlace, b
  <2> QED BY <1>3, <2>1, <2>4
<1>7. RegistryExact'
  <2>1. \A t \in Sub : Live(t)' <=> Live(t)
    BY <1>1 DEF Live
  <2> QED BY <1>1, <2>1 DEF IInv, RegistryExact
<1>8. Placed'
  <2>1. \A r \in DOMAIN rooms' : \A t \in rooms'[r] : SubRoom(t) = r
    BY <1>1 DEF IInv, Placed
  <2>2. \A q \in Post : post'[q].targets \subseteq Sub /\ post'[q] = post[q]
    BY <1>1, Parts DEF IInv, Request
  <2>3. \A q \in Post : \A t \in post'[q].targets :
          SubRoom(t) = RoomOf[q] /\ sub'[t].at \notin {"none", "opened"}
    BY <1>1, <2>2 DEF IInv, Placed
  <2>4. \A t \in Sub : sub'[t].at \in {"none", "opened"} => sub'[t].buf = <<>>
    BY <1>1 DEF IInv, Placed
  <2>5. \A t \in Sub : t[2] > client'[Owner(t)].conns => sub'[t].at = "none"
    BY <1>1 DEF IInv, Placed
  <2> QED BY <2>1, <2>3, <2>4, <2>5 DEF Placed
<1>9. NothingMissed'
  <2> SUFFICES ASSUME NEW t \in Sub, Live(t)', ~sub'[t].killed,
                      NEW n \in sub'[t].since + 1 .. seqs'[SubRoom(t)],
                      ~(n \in sub'[t].got), ~Waiting(t, Comment(n))', ~Writing(t, Comment(n))'
               PROVE  \E q \in Post : /\ RoomOf[q] = SubRoom(t) /\ Fanning(q, Comment(n))'
                                      /\ GoesTo(q, t)'
    BY DEF NothingMissed
  <2>1. Live(t) /\ ~sub[t].killed /\ n \in sub[t].since + 1 .. seqs[SubRoom(t)] /\ ~(n \in sub[t].got)
    BY <1>1 DEF Live
  <2>2. ~Waiting(t, Comment(n)) /\ ~Writing(t, Comment(n))
    BY <1>4, <1>5
  <2>3. PICK q \in Post : RoomOf[q] = SubRoom(t) /\ Fanning(q, Comment(n)) /\ GoesTo(q, t)
    BY <2>1, <2>2 DEF IInv, NothingMissed
  <2> QED BY <1>4, <2>3
<1>10. \A t \in Sub : \A n : (Waiting(t, Comment(n)) \/ Writing(t, Comment(n)))' =>
                           Waiting(t, Comment(n)) \/ Writing(t, Comment(n))
  BY <1>4, <1>5
<1>11. IdsAreOwn'
  BY <1>1, <1>4, <1>10 DEF IInv, IdsAreOwn
<1>12. OnePlace'
  <2>1. ASSUME NEW n \in Nat, NEW i \in DOMAIN sub'[s].buf, NEW j \in DOMAIN sub'[s].buf,
               sub'[s].buf[i] = Comment(n), sub'[s].buf[j] = Comment(n)
        PROVE  i = j
    <3>1. CASE took
      <4>1. /\ i \in 1 .. Len(b) - 1 /\ j \in 1 .. Len(b) - 1
            /\ b[i + 1] = Comment(n) /\ b[j + 1] = Comment(n)
        BY <1>3, <2>1, <3>1
      <4>2. i + 1 \in DOMAIN b /\ j + 1 \in DOMAIN b
        BY <1>3, <3>1, <4>1
      <4>3. i + 1 = j + 1
        BY <4>1, <4>2 DEF IInv, OnePlace, b
      <4> QED BY <4>1, <4>3
    <3>2. CASE ~took
      BY <1>1, <2>1, <3>2 DEF IInv, OnePlace, b
    <3> QED BY <3>1, <3>2
  <2>2. ASSUME NEW t \in Sub \ {s}, NEW n \in Nat
        PROVE  /\ \A i, j \in DOMAIN sub'[t].buf :
                    sub'[t].buf[i] = Comment(n) /\ sub'[t].buf[j] = Comment(n) => i = j
               /\ ~(Waiting(t, Comment(n))' /\ Writing(t, Comment(n))')
    BY <1>1, <1>4 DEF IInv, OnePlace
  <2>3. ASSUME NEW t \in Sub, NEW n \in Nat, NEW q \in Post,
               RoomOf[q] = SubRoom(t), Fanning(q, Comment(n))', GoesTo(q, t)'
        PROVE  ~Waiting(t, Comment(n))' /\ ~Writing(t, Comment(n))'
    BY <1>4, <1>10, <2>3 DEF IInv, OnePlace
  <2> QED BY <1>6, <2>1, <2>2, <2>3 DEF OnePlace
<1>13. NotAgain' /\ NotBefore' /\ NoRepeat'
  BY <1>1, <1>4, <1>10 DEF IInv, NotAgain, NotBefore, NoRepeat
<1> QED BY <1>1, <1>7, <1>8, <1>9, <1>11, <1>12, <1>13 DEF IInv

\* An event reaches the page of the connection, which does not show it yet.
LEMMA WriteStep ==
  ASSUME IInv, NEW s \in Sub, WriteEvent(s)
  PROVE  IInv'
<1> DEFINE o == sub[s].out
           k == o.n
<1>1. /\ UNCHANGED <<seqs, counters, rooms, post>>
      /\ \A t \in Sub \ {s} : sub'[t] = sub[t]
      /\ sub[s].at = "write" /\ sub'[s].at = "loop"
      /\ sub'[s].since = sub[s].since /\ sub'[s].killed = sub[s].killed
      /\ sub'[s].buf = sub[s].buf
      /\ sub'[s].got = IF o.name = "comment" THEN sub[s].got \cup {k} ELSE sub[s].got
      /\ \A c \in Client : c # Owner(s) \/ ~Connected(s) => client'[c] = client[c]
      /\ Connected(s) => client'[Owner(s)] = Handle(client[Owner(s)], o)
      /\ \A c \in Client : client'[c].conns = client[c].conns
      /\ TypeOK'
  BY WriteEffect DEF IInv
<1>2. /\ o \in Event /\ k \in Nat /\ (o.name = "comment" => o = Comment(k))
      /\ Owner(s) \in Client /\ client[Owner(s)] \in Page
      /\ Len(client[Owner(s)].shown) <= MaxShown /\ SubRoom(s) = RoomOf[Owner(s)]
  BY Parts, SubParts, Comments DEF IInv, Subscriber, Event
<1> HIDE DEF o, k
<1>3. /\ \A q \in Post : \A e : Fanning(q, e)' <=> Fanning(q, e)
      /\ \A q \in Post : \A t : GoesTo(q, t)' <=> GoesTo(q, t)
      /\ \A t \in Sub : \A e : Waiting(t, e)' <=> Waiting(t, e)
      /\ \A t \in Sub \ {s} : \A e : Writing(t, e)' <=> Writing(t, e)
      /\ \A e : ~Writing(s, e)'
      /\ \A e : Writing(s, e) <=> e = o
  BY <1>1 DEF Fanning, GoesTo, Waiting, Writing, o
<1>4. \* What the page shows now, and that it is new to it.
      /\ \A c \in Client : \A n : n \in Range(client'[c].shown) =>
           n \in Range(client[c].shown)
             \/ (c = Owner(s) /\ s[2] = client[c].conns /\ n = k /\ o = Comment(k))
      /\ \A c \in Client : IsInjective(client'[c].shown)
  <2>1. CASE ~Connected(s)
    BY <1>1, <2>1 DEF IInv, NoRepeat
  <2>2. CASE Connected(s) /\ o.name = "count"
    <3>1. client'[Owner(s)].shown = client[Owner(s)].shown
      BY <1>1, <1>2, <2>2, HandleShows
    <3> QED BY <1>1, <3>1 DEF IInv, NoRepeat
  <2>3. CASE Connected(s) /\ o.name = "comment"
    <3>1. Writing(s, Comment(k)) /\ s[2] = client[Owner(s)].conns
      BY <1>2, <1>3, <2>3 DEF Connected
    <3>2. k \notin Range(client[Owner(s)].shown)
      BY <3>1 DEF IInv, NotAgain
    <3>3. IsInjective(client[Owner(s)].shown)
      BY <1>2 DEF IInv, NoRepeat
    <3>4. /\ Range(client'[Owner(s)].shown) \subseteq Range(client[Owner(s)].shown) \cup {k}
          /\ IsInjective(client'[Owner(s)].shown)
      BY <1>1, <1>2, <2>3, <3>2, <3>3, HandleShows DEF k
    <3>5. \A c \in Client \ {Owner(s)} : client'[c] = client[c] /\ IsInjective(client[c].shown)
      BY <1>1 DEF IInv, NoRepeat
    <3> QED BY <1>2, <2>3, <3>1, <3>4, <3>5
  <2> QED BY <1>2, <2>1, <2>2, <2>3 DEF Event
<1>5. ASSUME o = Comment(k)
      PROVE  /\ k <= seqs[SubRoom(s)] /\ ~Waiting(s, Comment(k))
             /\ \A q \in Post : RoomOf[q] = SubRoom(s) /\ Fanning(q, Comment(k)) => ~GoesTo(q, s)
  <2>1. Writing(s, Comment(k)) /\ k \in Nat
    BY <1>2, <1>3, <1>5
  <2> QED BY <2>1 DEF IInv, IdsAreOwn, OnePlace
<1>6. RegistryExact'
  <2>1. \A t \in Sub : Live(t)' <=> Live(t)
    BY <1>1 DEF Live
  <2> QED BY <1>1, <2>1 DEF IInv, RegistryExact
<1>7. Placed'
  <2>1. \A r \in DOMAIN rooms' : \A t \in rooms'[r] : SubRoom(t) = r
    BY <1>1 DEF IInv, Placed
  <2>2. \A q \in Post : post'[q].targets \subseteq Sub /\ post'[q] = post[q]
    BY <1>1, Parts DEF IInv, Request
  <2>3. \A q \in Post : \A t \in post'[q].targets :
          SubRoom(t) = RoomOf[q] /\ sub'[t].at \notin {"none", "opened"}
    BY <1>1, <2>2 DEF IInv, Placed
  <2>4. \A t \in Sub : sub'[t].at \in {"none", "opened"} => sub'[t].buf = <<>>
    BY <1>1 DEF IInv, Placed
  <2>5. \A t \in Sub : t[2] > client'[Owner(t)].conns => sub'[t].at = "none"
    <3>1. \A t \in Sub : client'[Owner(t)].conns = client[Owner(t)].conns
      BY <1>1, SubParts
    <3>2. ~(s[2] > client[Owner(s)].conns)
      BY <1>1 DEF IInv, Placed
    <3> QED BY <1>1, <3>1, <3>2 DEF IInv, Placed
  <2> QED BY <2>1, <2>3, <2>4, <2>5 DEF Placed
<1>8. NothingMissed'
  <2> SUFFICES ASSUME NEW t \in Sub, Live(t)', ~sub'[t].killed,
                      NEW n \in sub'[t].since + 1 .. seqs'[SubRoom(t)],
                      ~(n \in sub'[t].got), ~Waiting(t, Comment(n))', ~Writing(t, Comment(n))'
               PROVE  \E q \in Post : /\ RoomOf[q] = SubRoom(t) /\ Fanning(q, Comment(n))'
                                      /\ GoesTo(q, t)'
    BY DEF NothingMissed
  <2>1. Live(t) /\ ~sub[t].killed /\ n \in sub[t].since + 1 .. seqs[SubRoom(t)] /\ ~(n \in sub[t].got)
    BY <1>1 DEF Live
  <2>2. ~Waiting(t, Comment(n)) /\ ~Writing(t, Comment(n))
    <3>1. ASSUME t = s, o = Comment(n) PROVE FALSE
      <4>1. o.name = "comment" /\ k = n
        BY <3>1, Comments DEF k
      <4> QED BY <1>1, <3>1, <4>1
    <3> QED BY <1>3, <3>1
  <2>3. PICK q \in Post : RoomOf[q] = SubRoom(t) /\ Fanning(q, Comment(n)) /\ GoesTo(q, t)
    BY <2>1, <2>2 DEF IInv, NothingMissed
  <2> QED BY <1>3, <2>3
<1>9. IdsAreOwn'
  <2>1. ASSUME NEW c \in Client, NEW n \in Range(client'[c].shown)
        PROVE  n <= seqs[RoomOf[c]]
    BY <1>2, <1>4, <1>5 DEF IInv, IdsAreOwn
  <2>2. \A t \in Sub, n \in Nat :
          (Waiting(t, Comment(n)) \/ Writing(t, Comment(n)))' => n <= seqs[SubRoom(t)]
    BY <1>3 DEF IInv, IdsAreOwn
  <2> QED BY <1>1, <1>3, <2>1, <2>2 DEF IInv, IdsAreOwn
<1>10. OnePlace'
  <2>1. \A t \in Sub : sub'[t].buf = sub[t].buf
    BY <1>1
  <2> QED BY <1>3, <2>1 DEF IInv, OnePlace
<1>11. NotAgain'
  <2>1. ASSUME NEW t \in Sub, t[2] = client'[Owner(t)].conns, NEW n \in Range(client'[Owner(t)].shown)
        PROVE  /\ ~Waiting(t, Comment(n))' /\ ~Writing(t, Comment(n))'
               /\ \A q \in Post : RoomOf[q] = SubRoom(t) /\ Fanning(q, Comment(n))' => ~GoesTo(q, t)'
    <3>1. Owner(t) \in Client /\ t[2] = client[Owner(t)].conns /\ t = <<Owner(t), t[2]>>
      BY <1>1, <2>1, SubParts
    <3>2. CASE n \in Range(client[Owner(t)].shown)
      BY <1>3, <3>1, <3>2 DEF IInv, NotAgain
    <3>3. CASE Owner(t) = Owner(s) /\ s[2] = client[Owner(t)].conns /\ n = k /\ o = Comment(k)
      <4>1. t = s
        BY <3>1, <3>3, SubParts
      <4> QED BY <1>3, <1>5, <3>3, <4>1
    <3> QED BY <1>4, <2>1, <3>1, <3>2, <3>3
  <2> QED BY <2>1 DEF NotAgain
<1>12. NotBefore'
  <2> SUFFICES ASSUME NEW q \in Post, NEW n \in Nat, post'[q].at = "publish",
                      post'[q].event = Comment(n), NEW c \in Client, RoomOf[c] = RoomOf[q],
                      n \in Range(client'[c].shown)
               PROVE  FALSE
    BY DEF NotBefore
  <2>1. n \notin Range(client[c].shown)
    BY <1>1 DEF IInv, NotBefore
  <2>2. c = Owner(s) /\ n = k /\ o = Comment(k)
    BY <1>4, <2>1
  <2>3. Fanning(q, Comment(k)) /\ GoesTo(q, s) /\ RoomOf[q] = SubRoom(s)
    BY <1>1, <1>2, <2>2 DEF Fanning, GoesTo
  <2> QED BY <1>5, <2>2, <2>3
<1>13. NoRepeat'
  BY <1>4 DEF NoRepeat
<1> QED BY <1>1, <1>6, <1>7, <1>8, <1>9, <1>10, <1>11, <1>12, <1>13 DEF IInv

\* A handler leaves its room with all it had.
LEMMA EndStep ==
  ASSUME IInv, NEW s \in Sub, End(s)
  PROVE  IInv'
<1>1. /\ UNCHANGED <<seqs, counters, post>>
      /\ \A t \in Sub \ {s} : sub'[t] = sub[t]
      /\ sub'[s].at = "gone" /\ sub'[s].buf = <<>> /\ sub[s].at = "loop"
      /\ DOMAIN rooms' = {r \in DOMAIN rooms : rooms[r] # {s}}
      /\ \A r \in DOMAIN rooms' : rooms'[r] = rooms[r] \ {s}
      /\ \A c \in Client : client'[c].conns = client[c].conns /\ client'[c].shown = client[c].shown
      /\ TypeOK'
  BY EndEffect DEF IInv
<1>2. /\ \A q \in Post : \A e : Fanning(q, e)' <=> Fanning(q, e)
      /\ \A q \in Post : \A t : GoesTo(q, t)' <=> GoesTo(q, t)
      /\ \A t \in Sub \ {s} : \A e : Waiting(t, e)' <=> Waiting(t, e)
      /\ \A t \in Sub \ {s} : \A e : Writing(t, e)' <=> Writing(t, e)
      /\ \A e : ~Writing(s, e)' /\ ~Waiting(s, e)'
      /\ DOMAIN sub'[s].buf = {}
  <2>1. Range(<<>>) = {} /\ DOMAIN <<>> = {}
    BY DEF Range
  <2> QED BY <1>1, <2>1 DEF Fanning, GoesTo, Waiting, Writing
<1>3. RegistryExact'
  <2>1. ASSUME NEW t \in Sub
        PROVE  Live(t)' <=> SubRoom(t) \in DOMAIN rooms' /\ t \in rooms'[SubRoom(t)]
    <3>1. Live(t) <=> SubRoom(t) \in DOMAIN rooms /\ t \in rooms[SubRoom(t)]
      BY DEF IInv, RegistryExact
    <3>2. CASE t = s
      BY <1>1, <3>2 DEF Live
    <3>3. CASE t # s
      <4>1. Live(t)' <=> Live(t)
        BY <1>1, <3>3 DEF Live
      <4> QED BY <1>1, <3>1, <3>3, <4>1
    <3> QED BY <3>2, <3>3
  <2>2. ASSUME NEW r \in DOMAIN rooms' PROVE rooms'[r] # {}
    BY <1>1 DEF IInv, RegistryExact
  <2> QED BY <2>1, <2>2 DEF RegistryExact
<1>4. Placed'
  <2>1. \A r \in DOMAIN rooms' : \A t \in rooms'[r] : SubRoom(t) = r
    BY <1>1 DEF IInv, Placed
  <2>2. \A q \in Post : post'[q].targets \subseteq Sub /\ post'[q] = post[q]
    BY <1>1, Parts DEF IInv, Request
  <2>3. \A q \in Post : \A t \in post'[q].targets :
          SubRoom(t) = RoomOf[q] /\ sub'[t].at \notin {"none", "opened"}
    BY <1>1, <2>2 DEF IInv, Placed
  <2>4. \A t \in Sub : sub'[t].at \in {"none", "opened"} => sub'[t].buf = <<>>
    BY <1>1 DEF IInv, Placed
  <2>5. \A t \in Sub : t[2] > client'[Owner(t)].conns => sub'[t].at = "none"
    <3>1. \A t \in Sub : client'[Owner(t)].conns = client[Owner(t)].conns
      BY <1>1, SubParts
    <3>2. ~(s[2] > client[Owner(s)].conns)
      BY <1>1 DEF IInv, Placed
    <3> QED BY <1>1, <3>1, <3>2 DEF IInv, Placed
  <2> QED BY <2>1, <2>3, <2>4, <2>5 DEF Placed
<1>5. NothingMissed'
  <2> SUFFICES ASSUME NEW t \in Sub, Live(t)', ~sub'[t].killed,
                      NEW n \in sub'[t].since + 1 .. seqs'[SubRoom(t)],
                      ~(n \in sub'[t].got), ~Waiting(t, Comment(n))', ~Writing(t, Comment(n))'
               PROVE  \E q \in Post : /\ RoomOf[q] = SubRoom(t) /\ Fanning(q, Comment(n))'
                                      /\ GoesTo(q, t)'
    BY DEF NothingMissed
  <2>1. t # s /\ Live(t)
    BY <1>1 DEF Live
  <2>2. PICK q \in Post : RoomOf[q] = SubRoom(t) /\ Fanning(q, Comment(n)) /\ GoesTo(q, t)
    BY <1>1, <1>2, <2>1 DEF IInv, NothingMissed
  <2> QED BY <1>2, <2>2
<1>6. \A t \in Sub : \A n : (Waiting(t, Comment(n)) \/ Writing(t, Comment(n)))' =>
                          t # s /\ (Waiting(t, Comment(n)) \/ Writing(t, Comment(n)))
  BY <1>2
<1>7. IdsAreOwn'
  BY <1>1, <1>2, <1>6 DEF IInv, IdsAreOwn
<1>8. OnePlace'
  <2>1. \A t \in Sub \ {s} : sub'[t].buf = sub[t].buf
    BY <1>1
  <2> QED BY <1>2, <2>1 DEF IInv, OnePlace
<1>9. NotAgain'
  <2>1. \A t \in Sub : /\ client'[Owner(t)].conns = client[Owner(t)].conns
                       /\ client'[Owner(t)].shown = client[Owner(t)].shown
    BY <1>1, SubParts
  <2> QED BY <1>2, <1>6, <2>1 DEF IInv, NotAgain
<1>10. NotBefore' /\ NoRepeat'
  BY <1>1 DEF IInv, NotBefore, NoRepeat
<1> QED BY <1>1, <1>3, <1>4, <1>5, <1>7, <1>8, <1>9, <1>10 DEF IInv

\* A page that connects anew has a connection to which nothing is sent yet.
LEMMA PageStep ==
  ASSUME IInv, NEW c \in Client, Connect(c) \/ Disconnect(c) \/ StallOrResume(c)
  PROVE  IInv'
<1> DEFINE new == <<c, client[c].conns + 1>>
           came == client'[c].conns = client[c].conns + 1
<1>1. /\ UNCHANGED <<seqs, counters, rooms, post>>
      /\ \A d \in Client : client'[d].shown = client[d].shown
      /\ \A d \in Client \ {c} : client'[d] = client[d]
      /\ \/ sub' = sub /\ client'[c].conns = client[c].conns
         \/ /\ came /\ new \in Sub
            /\ \A s \in Sub : s # new => sub'[s] = sub[s]
            /\ \A s \in Sub : s = new => sub'[s].at = "opened" /\ sub'[s].buf = sub[s].buf
      /\ TypeOK'
  BY PageEffect DEF IInv
<1>2. /\ client[c].conns \in Nat /\ new[2] = client[c].conns + 1 /\ Owner(new) = c
      /\ \A d \in Client : client[d].conns \in Nat
  BY Parts DEF IInv, Page, Owner
<1>3. ASSUME came
      PROVE  /\ new \in Sub /\ sub[new].at = "none" /\ sub[new].buf = <<>>
             /\ \A s \in Sub : s # new => sub'[s] = sub[s]
             /\ sub'[new].at = "opened" /\ sub'[new].buf = <<>>
  <2>1. /\ new \in Sub /\ \A s \in Sub : s # new => sub'[s] = sub[s]
        /\ \A s \in Sub : s = new => sub'[s].at = "opened" /\ sub'[s].buf = sub[s].buf
    BY <1>1, <1>2, <1>3
  <2>2. new[2] > client[Owner(new)].conns
    BY <1>2
  <2>3. sub[new].at = "none" /\ sub[new].buf = <<>>
    BY <2>1, <2>2 DEF IInv, Placed
  <2> QED BY <2>1, <2>3
<1> HIDE DEF new, came
<1>4. \A s \in Sub : (came /\ s = new) \/ sub'[s] = sub[s]
  BY <1>1
<1>5. /\ \A q \in Post : \A e : Fanning(q, e)' <=> Fanning(q, e)
      /\ \A q \in Post : \A t : GoesTo(q, t)' <=> GoesTo(q, t)
  BY <1>1 DEF Fanning, GoesTo
<1>6. /\ \A t \in Sub : Live(t)' <=> Live(t)
      /\ \A t \in Sub : Live(t) => sub'[t] = sub[t]
      /\ \A t \in Sub : sub'[t].buf = sub[t].buf
      /\ \A t \in Sub : \A e : Waiting(t, e)' <=> Waiting(t, e)
      /\ \A t \in Sub : \A e : Writing(t, e)' <=> Writing(t, e)
      /\ \A t \in Sub : came /\ t = new => \A e : ~Waiting(t, e)' /\ ~Writing(t, e)'
  <2>1. Range(<<>>) = {}
    BY DEF Range
  <2>2. ASSUME NEW t \in Sub
        PROVE  /\ Live(t)' <=> Live(t)
               /\ Live(t) => sub'[t] = sub[t]
               /\ sub'[t].buf = sub[t].buf
               /\ \A e : Waiting(t, e)' <=> Waiting(t, e)
               /\ \A e : Writing(t, e)' <=> Writing(t, e)
               /\ came /\ t = new => \A e : ~Waiting(t, e)' /\ ~Writing(t, e)'
    <3>1. CASE came /\ t = new
      BY <1>3, <2>1, <3>1 DEF Live, Waiting, Writing
    <3>2. CASE ~(came /\ t = new)
      BY <1>4, <3>2 DEF Live, Waiting, Writing
    <3> QED BY <3>1, <3>2
  <2> QED BY <2>2
<1>7. RegistryExact'
  BY <1>1, <1>6 DEF IInv, RegistryExact
<1>8. Placed'
  <2>1. \A r \in DOMAIN rooms' : \A t \in rooms'[r] : SubRoom(t) = r
    BY <1>1 DEF IInv, Placed
  <2>2. \A q \in Post : post'[q].targets \subseteq Sub /\ post'[q] = post[q]
    BY <1>1, Parts DEF IInv, Request
  <2>3. \A q \in Post : \A t \in post'[q].targets :
          SubRoom(t) = RoomOf[q] /\ sub'[t].at \notin {"none", "opened"}
    <3> SUFFICES ASSUME NEW q \in Post, NEW t \in post'[q].targets
                 PROVE  SubRoom(t) = RoomOf[q] /\ sub'[t].at \notin {"none", "opened"}
      OBVIOUS
    <3>1. t \in Sub /\ SubRoom(t) = RoomOf[q] /\ sub[t].at \notin {"none", "opened"}
      BY <2>2 DEF IInv, Placed
    <3> QED BY <1>3, <1>4, <3>1
  <2>4. \A t \in Sub : sub'[t].at \in {"none", "opened"} => sub'[t].buf = <<>>
    <3> SUFFICES ASSUME NEW t \in Sub, sub'[t].at \in {"none", "opened"}
                 PROVE  sub'[t].buf = <<>>
      OBVIOUS
    <3>1. CASE came /\ t = new
      BY <1>3, <3>1
    <3>2. CASE ~(came /\ t = new)
      BY <1>4, <3>2 DEF IInv, Placed
    <3> QED BY <3>1, <3>2
  <2>5. \A t \in Sub : t[2] > client'[Owner(t)].conns => sub'[t].at = "none"
    <3> SUFFICES ASSUME NEW t \in Sub, t[2] > client'[Owner(t)].conns
                 PROVE  sub'[t].at = "none"
      OBVIOUS
    <3>1. Owner(t) \in Client /\ t[2] \in Nat
      BY SubParts, ConstantsAssumption
    <3>2. t[2] > client[Owner(t)].conns /\ ~(came /\ t = new)
      BY <1>1, <1>2, <3>1 DEF came
    <3> QED BY <1>4, <3>2 DEF IInv, Placed
  <2> QED BY <2>1, <2>3, <2>4, <2>5 DEF Placed
<1>9. NothingMissed'
  <2> SUFFICES ASSUME NEW t \in Sub, Live(t)', ~sub'[t].killed,
                      NEW n \in sub'[t].since + 1 .. seqs'[SubRoom(t)],
                      ~(n \in sub'[t].got), ~Waiting(t, Comment(n))', ~Writing(t, Comment(n))'
               PROVE  \E q \in Post : /\ RoomOf[q] = SubRoom(t) /\ Fanning(q, Comment(n))'
                                      /\ GoesTo(q, t)'
    BY DEF NothingMissed
  <2>1. Live(t) /\ sub'[t] = sub[t]
    BY <1>6
  <2>2. PICK q \in Post : RoomOf[q] = SubRoom(t) /\ Fanning(q, Comment(n)) /\ GoesTo(q, t)
    BY <1>1, <1>6, <2>1 DEF IInv, NothingMissed
  <2> QED BY <1>5, <2>2
<1>10. IdsAreOwn'
  BY <1>1, <1>5, <1>6 DEF IInv, IdsAreOwn
<1>11. OnePlace'
  BY <1>5, <1>6 DEF IInv, OnePlace
<1>12. NotAgain'
  <2>1. ASSUME NEW t \in Sub, t[2] = client'[Owner(t)].conns, NEW n \in Range(client'[Owner(t)].shown)
        PROVE  /\ ~Waiting(t, Comment(n))' /\ ~Writing(t, Comment(n))'
               /\ \A q \in Post : RoomOf[q] = SubRoom(t) /\ Fanning(q, Comment(n))' => ~GoesTo(q, t)'
    <3>1. /\ Owner(t) \in Client /\ SubRoom(t) = RoomOf[Owner(t)]
          /\ n \in Range(client[Owner(t)].shown) /\ n \in Nat
      <4>1. Owner(t) \in Client /\ SubRoom(t) = RoomOf[Owner(t)] /\ client[Owner(t)].shown \in Seq(Nat)
        BY SubParts, Parts DEF IInv, Page
      <4>2. n \in Range(client[Owner(t)].shown)
        BY <1>1, <2>1, <4>1
      <4> QED BY <4>1, <4>2, ElementOfSeq, LenProperties DEF Range
    <3>2. CASE t[2] = client[Owner(t)].conns
      BY <1>5, <1>6, <3>1, <3>2 DEF IInv, NotAgain
    <3>3. CASE t[2] # client[Owner(t)].conns
      <4>1. came /\ t = new
        BY <1>1, <2>1, <3>1, <3>3, SubParts DEF came, new
      <4>2. ASSUME NEW q \in Post, RoomOf[q] = SubRoom(t), Fanning(q, Comment(n))', GoesTo(q, t)'
            PROVE  FALSE
        <5>1. Fanning(q, Comment(n)) /\ GoesTo(q, t)
          BY <1>5, <4>2
        <5>2. t \notin post[q].targets
          BY <1>3, <4>1 DEF IInv, Placed
        <5>3. post[q].at = "publish" /\ post[q].event = Comment(n)
          BY <5>1, <5>2 DEF Fanning, GoesTo
        <5> QED BY <3>1, <4>2, <5>3 DEF IInv, NotBefore
      <4> QED BY <1>6, <4>1, <4>2
    <3> QED BY <3>2, <3>3
  <2> QED BY <2>1 DEF NotAgain
<1>13. NotBefore' /\ NoRepeat'
  BY <1>1 DEF IInv, NotBefore, NoRepeat
<1> QED BY <1>1, <1>7, <1>8, <1>9, <1>10, <1>11, <1>12, <1>13 DEF IInv

-----------------------------------------------------------------------------
(* What holds always.                                                      *)

\* At the start there is nobody and nothing.
LEMMA Initially == Init => IInv
<1> SUFFICES ASSUME Init PROVE IInv
  OBVIOUS
<1>1. /\ DOMAIN rooms = {}
      /\ \A s \in Sub : /\ sub[s].at = "none" /\ sub[s].buf = <<>>
                        /\ SubRoom(s) \in Room /\ seqs[SubRoom(s)] = 0
      /\ \A p \in Post : post[p].at = "new" /\ post[p].targets = {}
      /\ \A c \in Client : client[c].conns = 0 /\ client[c].shown = <<>>
  BY SubParts DEF Init
<1>2. TypeOK
  <2>1. Count(0) \in Event /\ <<>> \in Seq(Event) /\ <<>> \in Seq(Nat) /\ Len(<<>>) = 0
    BY EmptySeq DEF Count, Event
  <2>2. /\ [at |-> "none", out |-> Count(0), buf |-> <<>>, killed |-> FALSE, since |-> 0, got |-> {}]
             \in Subscriber
        /\ [at |-> "new", event |-> Count(0), targets |-> {}] \in Request
    BY <2>1 DEF Subscriber, Request
  <2>3. [conns |-> 0, open |-> FALSE, stalled |-> FALSE, shown |-> <<>>, count |-> 0] \in Page
    BY <2>1, ConstantsAssumption DEF Page
  <2>4. /\ sub \in [Sub -> Subscriber] /\ post \in [Post -> Request] /\ client \in [Client -> Page]
        /\ seqs \in [Room -> Nat] /\ counters \in [Room -> Nat]
    BY <2>2, <2>3 DEF Init
  <2>5. DOMAIN rooms \subseteq Room /\ rooms \in [DOMAIN rooms -> SUBSET Sub]
    BY <1>1 DEF Init
  <2> QED BY <1>1, <2>1, <2>4, <2>5, ConstantsAssumption DEF TypeOK
<1>3. Range(<<>>) = {} /\ DOMAIN <<>> = {}
  BY DEF Range
<1>4. /\ \A p \in Post : \A e : ~Fanning(p, e)
      /\ \A s \in Sub : \A e : ~Waiting(s, e) /\ ~Writing(s, e)
      /\ \A s \in Sub : ~Live(s) /\ DOMAIN sub[s].buf = {}
      /\ \A c \in Client : Range(client[c].shown) = {} /\ IsInjective(client[c].shown)
  BY <1>1, <1>3 DEF Fanning, Waiting, Writing, Live, IsInjective
<1>5. RegistryExact /\ Placed
  BY <1>1, <1>4 DEF RegistryExact, Placed
<1>6. NothingMissed /\ IdsAreOwn /\ OnePlace
  BY <1>4 DEF NothingMissed, IdsAreOwn, OnePlace
<1>7. NotAgain /\ NoRepeat
  BY <1>4, SubParts DEF NotAgain, NoRepeat
<1>8. NotBefore
  BY <1>4 DEF NotBefore
<1> QED BY <1>2, <1>5, <1>6, <1>7, <1>8 DEF IInv

\* Every step of the specification, and a stutter.
LEMMA Inductive == IInv /\ [Next]_vars => IInv'
<1> SUFFICES ASSUME IInv, [Next]_vars PROVE IInv'
  OBVIOUS
<1>1. CASE Next
  <2>1. ASSUME NEW p \in Post,
               RejectComment(p) \/ AssignId(p) \/ Snapshot(p) \/ CountUp(p) \/ Posted(p)
        PROVE  IInv'
    BY <2>1, QuietStep, AssignStep, SnapshotStep
  <2>2. ASSUME NEW p \in Post, NEW s \in Sub, Send(p, s) PROVE IInv'
    BY <2>2, SendStep
  <2>3. ASSUME NEW s \in Sub, Subscribe(s) \/ Prime(s) \/ TakeEvent(s) \/ WriteEvent(s) \/ End(s)
        PROVE  IInv'
    BY <2>3, SubscribeStep, TakeStep, WriteStep, EndStep
  <2>4. ASSUME NEW c \in Client, Connect(c) \/ Disconnect(c) \/ StallOrResume(c) PROVE IInv'
    BY <2>4, PageStep
  <2> QED BY <1>1, <2>1, <2>2, <2>3, <2>4 DEF Next
<1>2. CASE UNCHANGED vars
  BY <1>2 DEF vars, IInv, TypeOK, RegistryExact, Placed, NothingMissed, IdsAreOwn, OnePlace,
              NotAgain, NotBefore, NoRepeat, Live, Waiting, Writing, Fanning, GoesTo
<1> QED BY <1>1, <1>2

\* The inductive invariant holds of every behaviour.
LEMMA Invariant == Spec => []IInv
BY Initially, Inductive, PTL DEF Spec

(* Types hold; no mailbox ever holds more than subscriberBufferSize events *)
(* and no page lists more than MAX_COMMENTS, whatever pages stop reading.  *)
THEOREM TypeCorrect == Spec => []TypeOK
BY Invariant, PTL DEF IInv

(* Hub.Subscribe and the deferred Unsubscribe keep exactly the streams     *)
(* being served registered, and no empty room, through every race.         *)
THEOREM RegistryIsExact == Spec => []RegistryExact
BY Invariant, PTL DEF IInv

(* A stream that Publish has not killed misses no comment of its room,     *)
(* however many requests publish at a time.                                *)
THEOREM NothingIsLost == Spec => []NoSilentLoss
<1>1. IInv => NoSilentLoss
  <2> SUFFICES ASSUME IInv, NEW s \in Sub, Live(s), ~sub[s].killed,
                      NEW n \in sub[s].since + 1 .. seqs[SubRoom(s)], Published(SubRoom(s), n)
               PROVE  \/ n \in sub[s].got
                      \/ Comment(n) \in Range(sub[s].buf)
                      \/ sub[s].at = "write" /\ sub[s].out = Comment(n)
    BY DEF NoSilentLoss
  <2>1. ~\E p \in Post : RoomOf[p] = SubRoom(s) /\ Fanning(p, Comment(n))
    BY DEF Published, Fanning
  <2> QED BY <2>1 DEF IInv, NothingMissed, Waiting, Writing
<1> QED BY <1>1, Invariant, PTL

(* A page lists no comment twice, however its connections overlap.         *)
THEOREM NothingRepeats == Spec => []NoRepeat
BY Invariant, PTL DEF IInv

-----------------------------------------------------------------------------
(* The count, when a room's comments are posted one after the other.       *)

\* The count of the room of s, as the event that brings it.
Now(s) == Count(counters[SubRoom(s)])

\* b has no count, or its last one is e.
NoCount(b) == \A j \in DOMAIN b : b[j].name # "count"
LastCount(b, e) == \E i \in DOMAIN b : b[i] = e /\ \A j \in DOMAIN b : i < j => b[j].name # "count"

\* The count is being published to s.
InFlight(s) == \E p \in Post : RoomOf[p] = SubRoom(s) /\ Fanning(p, Now(s)) /\ GoesTo(p, s)

\* It is about to be read, or is being written, or the page shows it.
AtHand(s) ==
  \/ sub[s].at = "prime"
  \/ Writing(s, Now(s))
  \/ /\ ~(sub[s].at = "write" /\ sub[s].out.name = "count")
     /\ client[Owner(s)].count = counters[SubRoom(s)]

\* What the page learns last is the count.
Comes(s) ==
  Connected(s) /\ Live(s) /\ ~sub[s].killed =>
    \/ InFlight(s)
    \/ LastCount(sub[s].buf, Now(s))
    \/ NoCount(sub[s].buf) /\ AtHand(s)

\* One request at a time is posting to a room, and a count it publishes is the room's.
OneAtATime ==
  /\ \A p, q \in Post : RoomOf[p] = RoomOf[q] /\ p \in Posting(RoomOf[p]) /\ q \in Posting(RoomOf[p])
       => p = q
  /\ \A p \in Post : post[p].at \in {"publish", "send"} /\ post[p].event.name = "count" =>
       post[p].event = Count(counters[RoomOf[p]])

Counts == OneAtATime /\ \A s \in Sub : Comes(s)

\* One more event at the end.
LEMMA CountLast ==
  ASSUME NEW b \in Seq(Event), NEW e \in Event, NEW x
  PROVE  /\ LastCount(Append(b, e), e)
         /\ e.name # "count" /\ LastCount(b, x) => LastCount(Append(b, e), x)
         /\ e.name # "count" /\ NoCount(b) => NoCount(Append(b, e))
<1>1. PICK n \in Nat : n = Len(b)
  BY Enqueue
<1>2. PICK a : a = Append(b, e)
  OBVIOUS
<1>3. /\ DOMAIN b = 1 .. n /\ DOMAIN a = 1 .. n + 1
      /\ \A i \in 1 .. n : a[i] = b[i]
      /\ a[n + 1] = e
  BY <1>1, <1>2, Enqueue
<1>4. LastCount(a, e)
  <2>1. n + 1 \in DOMAIN a /\ \A j \in DOMAIN a : ~(n + 1 < j)
    BY <1>3
  <2> QED BY <1>3, <2>1 DEF LastCount
<1>5. ASSUME e.name # "count", LastCount(b, x) PROVE LastCount(a, x)
  <2>1. PICK i \in 1 .. n : b[i] = x /\ \A j \in 1 .. n : i < j => b[j].name # "count"
    BY <1>3, <1>5 DEF LastCount
  <2>2. i \in DOMAIN a /\ a[i] = x
    BY <1>3, <2>1
  <2>3. ASSUME NEW j \in 1 .. n + 1, i < j PROVE a[j].name # "count"
    <3>1. CASE j = n + 1
      BY <1>3, <1>5, <3>1
    <3>2. CASE j # n + 1
      <4>1. j \in 1 .. n
        BY <3>2
      <4> QED BY <1>3, <2>1, <2>3, <4>1
    <3> QED BY <3>1, <3>2
  <2> QED BY <1>3, <2>2, <2>3 DEF LastCount
<1>6. ASSUME e.name # "count", NoCount(b) PROVE NoCount(a)
  <2>1. ASSUME NEW j \in 1 .. n + 1 PROVE a[j].name # "count"
    <3>1. CASE j = n + 1
      BY <1>3, <1>6, <3>1
    <3>2. CASE j # n + 1
      <4>1. j \in 1 .. n
        BY <3>2
      <4> QED BY <1>3, <1>6, <4>1 DEF NoCount
    <3> QED BY <3>1, <3>2
  <2> QED BY <1>3, <2>1 DEF NoCount
<1> QED BY <1>2, <1>4, <1>5, <1>6

\* The first event is taken out.
LEMMA CountFirst ==
  ASSUME NEW b \in Seq(Event), b # <<>>, NEW x
  PROVE  /\ LastCount(b, x) => LastCount(Tail(b), x) \/ (Head(b) = x /\ NoCount(Tail(b)))
         /\ NoCount(b) => Head(b).name # "count" /\ NoCount(Tail(b))
<1>1. PICK n \in Nat \ {0} : n = Len(b)
  BY Dequeue
<1>2. PICK t : t = Tail(b)
  OBVIOUS
<1>3. /\ DOMAIN b = 1 .. n /\ DOMAIN t = 1 .. n - 1
      /\ Head(b) = b[1] /\ \A i \in 1 .. n - 1 : t[i] = b[i + 1]
  BY <1>1, <1>2, Dequeue
<1>4. ASSUME LastCount(b, x) PROVE LastCount(t, x) \/ (Head(b) = x /\ NoCount(t))
  <2>1. PICK i \in 1 .. n : b[i] = x /\ \A j \in 1 .. n : i < j => b[j].name # "count"
    BY <1>3, <1>4 DEF LastCount
  <2>2. ASSUME NEW j \in 1 .. n - 1, i < j + 1 PROVE t[j].name # "count"
    <3>1. j + 1 \in 1 .. n /\ t[j] = b[j + 1]
      BY <1>3
    <3> QED BY <2>1, <2>2, <3>1
  <2>3. CASE i = 1
    <3>1. \A j \in 1 .. n - 1 : i < j + 1
      BY <2>3
    <3>2. NoCount(t)
      BY <1>3, <2>2, <3>1 DEF NoCount
    <3> QED BY <1>3, <2>1, <2>3, <3>2
  <2>4. CASE i # 1
    <3>1. i - 1 \in 1 .. n - 1 /\ i - 1 + 1 = i
      BY <2>4
    <3>2. i - 1 \in DOMAIN t /\ t[i - 1] = x
      BY <1>3, <2>1, <3>1
    <3>3. \A j \in 1 .. n - 1 : i - 1 < j => i < j + 1
      OBVIOUS
    <3>4. \A j \in DOMAIN t : i - 1 < j => t[j].name # "count"
      BY <1>3, <2>2, <3>3
    <3> QED BY <3>2, <3>4 DEF LastCount
  <2> QED BY <2>3, <2>4
<1>5. ASSUME NoCount(b) PROVE Head(b).name # "count" /\ NoCount(t)
  <2>1. 1 \in DOMAIN b /\ \A j \in 1 .. n - 1 : j + 1 \in DOMAIN b
    BY <1>3
  <2> QED BY <1>3, <1>5, <2>1 DEF NoCount
<1> QED BY <1>2, <1>4, <1>5

\* A subscriber to which nothing happened, of a page whose count is the same.
LEMMA StillComes ==
  ASSUME NEW s \in Sub, Comes(s), sub'[s] = sub[s],
         Connected(s)' => Connected(s), client'[Owner(s)].count = client[Owner(s)].count,
         counters'[SubRoom(s)] = counters[SubRoom(s)],
         Live(s) /\ InFlight(s) => InFlight(s)'
  PROVE  Comes(s)'
<1>1. Now(s)' = Now(s) /\ (Live(s)' <=> Live(s)) /\ (sub'[s].killed <=> sub[s].killed)
  BY DEF Now, Live, SubRoom, Owner
<1>2. AtHand(s)' <=> AtHand(s)
  BY <1>1 DEF AtHand, Writing, SubRoom, Owner
<1>3. CASE ~(Connected(s) /\ Live(s) /\ ~sub[s].killed)
  BY <1>1, <1>3 DEF Comes
<1>4. CASE Connected(s) /\ Live(s) /\ ~sub[s].killed
  <2>1. InFlight(s) \/ LastCount(sub[s].buf, Now(s)) \/ (NoCount(sub[s].buf) /\ AtHand(s))
    BY <1>4 DEF Comes
  <2>2. InFlight(s)' \/ LastCount(sub'[s].buf, Now(s)') \/ (NoCount(sub'[s].buf) /\ AtHand(s)')
    BY <1>1, <1>2, <1>4, <2>1
  <2> QED BY <2>2 DEF Comes, LastCount, NoCount
<1> QED BY <1>3, <1>4

\* A flight goes on if its request goes on to the same subscriber.
LEMMA StillInFlight ==
  ASSUME NEW s \in Sub, InFlight(s), counters'[SubRoom(s)] = counters[SubRoom(s)],
         \A p \in Post : RoomOf[p] = SubRoom(s) /\ Fanning(p, Now(s)) /\ GoesTo(p, s) =>
           Fanning(p, Now(s))' /\ GoesTo(p, s)'
  PROVE  InFlight(s)'
<1>1. PICK p \in Post : RoomOf[p] = SubRoom(s) /\ Fanning(p, Now(s)) /\ GoesTo(p, s)
  BY DEF InFlight
<1>2. RoomOf[p] = SubRoom(s)' /\ Fanning(p, Now(s))' /\ GoesTo(p, s)'
  BY <1>1 DEF SubRoom, Owner
<1> QED BY <1>2 DEF InFlight

\* The others' requests and counts stay what they are.
LEMMA OneStays ==
  ASSUME OneAtATime, UNCHANGED <<counters, post>>
  PROVE  OneAtATime'
BY DEF OneAtATime, Posting

\* Before anything is posted.
LEMMA CountsInit == Init => Counts
<1> SUFFICES ASSUME Init PROVE Counts
  OBVIOUS
<1>1. /\ \A p \in Post : post[p].at = "new"
      /\ \A s \in Sub : sub[s].at = "none"
  BY DEF Init
<1>2. OneAtATime
  BY <1>1 DEF OneAtATime, Posting
<1>3. \A s \in Sub : Comes(s)
  BY <1>1 DEF Comes, Live
<1> QED BY <1>2, <1>3 DEF Counts

\* Nobody is posting to a room when a request begins.
LEMMA Alone ==
  ASSUME MaxPosting = 1, OneAtATime, NEW p \in Post, AssignId(p)
  PROVE  Posting(RoomOf[p]) = {}
<1> DEFINE P == Posting(RoomOf[p])
<1> SUFFICES ASSUME P # {} PROVE FALSE
  OBVIOUS
<1>1. PICK q \in P : TRUE
  OBVIOUS
<1>2. q \in Post /\ RoomOf[q] = RoomOf[p]
  BY <1>1 DEF Posting
<1>3. \A x \in P : x = q
  <2> SUFFICES ASSUME NEW x \in P PROVE x = q
    OBVIOUS
  <2>1. x \in Post /\ RoomOf[x] = RoomOf[p]
    BY DEF Posting
  <2> QED BY <1>1, <1>2, <2>1 DEF OneAtATime
<1>4. P = {q}
  <2> HIDE DEF P
  <2> QED BY <1>1, <1>3
<1>5. Cardinality(P) = 1
  BY <1>4, FS_Singleton
<1>6. Cardinality(P) < MaxPosting
  BY DEF AssignId
<1> QED BY <1>5, <1>6

\* A request begins, or is rejected: its count is not in flight.
LEMMA BeginCounts ==
  ASSUME MaxPosting = 1, IInv, Counts, NEW p \in Post, RejectComment(p) \/ AssignId(p)
  PROVE  Counts'
<1>1. /\ UNCHANGED <<counters, rooms, sub, client>>
      /\ \A q \in Post \ {p} : post'[q] = post[q]
      /\ post \in [Post -> Request]
  BY PostEffect DEF IInv, TypeOK, RejectComment, AssignId
<1>2. post[p].at = "new"
  BY DEF RejectComment, AssignId
<1>3. \/ post'[p].at = "rejected"
      \/ /\ post'[p].at = "publish" /\ post'[p].event.name = "comment"
         /\ Posting(RoomOf[p]) = {}
  <2>1. CASE RejectComment(p)
    BY <1>1, <2>1 DEF RejectComment, Request
  <2>2. CASE AssignId(p)
    <3>1. Posting(RoomOf[p]) = {}
      BY <2>2, Alone DEF Counts
    <3>2. post'[p].at = "publish" /\ post'[p].event = Comment(seqs[RoomOf[p]] + 1)
      BY <1>1, <2>2 DEF AssignId, Request
    <3> QED BY <3>1, <3>2, Comments
  <2> QED BY <2>1, <2>2
<1>4. OneAtATime'
  <2>1. ASSUME NEW q \in Post, NEW x \in Post, RoomOf[q] = RoomOf[x],
               q \in Posting(RoomOf[q])', x \in Posting(RoomOf[q])'
        PROVE  q = x
    <3>1. CASE q # p /\ x # p
      BY <1>1, <2>1, <3>1 DEF Counts, OneAtATime, Posting
    <3>2. CASE q = p /\ x # p
      BY <1>1, <1>3, <2>1, <3>2 DEF Posting
    <3>3. CASE q # p /\ x = p
      BY <1>1, <1>3, <2>1, <3>3 DEF Posting
    <3> QED BY <3>1, <3>2, <3>3
  <2>2. ASSUME NEW q \in Post, post'[q].at \in {"publish", "send"}, post'[q].event.name = "count"
        PROVE  post'[q].event = Count(counters'[RoomOf[q]])
    BY <1>1, <1>3, <2>2 DEF Counts, OneAtATime
  <2> QED BY <2>1, <2>2 DEF OneAtATime
<1>5. ASSUME NEW s \in Sub PROVE Comes(s)'
  <2>1. Live(s) /\ InFlight(s) => InFlight(s)'
    <3>1. \A q \in Post : Fanning(q, Now(s)) => q # p
      BY <1>2 DEF Fanning
    <3>2. \A q \in Post : Fanning(q, Now(s)) /\ GoesTo(q, s) => Fanning(q, Now(s))' /\ GoesTo(q, s)'
      BY <1>1, <3>1 DEF Fanning, GoesTo, Now, SubRoom, Owner
    <3> QED BY <1>1, <3>2, StillInFlight
  <2> QED BY <1>1, <2>1, StillComes DEF Counts, Connected
<1> QED BY <1>4, <1>5 DEF Counts

\* Who is subscribed when a count is fanned out is among those it goes to.
LEMMA SnapshotCounts ==
  ASSUME IInv, Counts, NEW p \in Post, Snapshot(p)
  PROVE  Counts'
<1>1. /\ UNCHANGED <<counters, rooms, sub, client>>
      /\ \A q \in Post \ {p} : post'[q] = post[q]
      /\ post \in [Post -> Request]
  BY PostEffect DEF IInv, TypeOK, Snapshot
<1>2. /\ post[p].at = "publish" /\ post'[p].at = "send" /\ post'[p].event = post[p].event
      /\ post'[p].targets = IF RoomOf[p] \in DOMAIN rooms THEN rooms[RoomOf[p]] ELSE {}
  BY <1>1 DEF Snapshot, Request
<1>3. OneAtATime'
  <2>1. \A q \in Post : /\ q \in Posting(RoomOf[q])' <=> q \in Posting(RoomOf[q])
                        /\ post'[q].event = post[q].event
                        /\ post'[q].at \in {"publish", "send"} <=> post[q].at \in {"publish", "send"}
    BY <1>1, <1>2 DEF Posting
  <2>2. \A q, x \in Post : RoomOf[q] = RoomOf[x] =>
          (x \in Posting(RoomOf[q])' <=> x \in Posting(RoomOf[q]))
    BY <1>1, <1>2 DEF Posting
  <2> QED BY <1>1, <2>1, <2>2 DEF Counts, OneAtATime
<1>4. ASSUME NEW s \in Sub PROVE Comes(s)'
  <2>1. ASSUME Live(s), NEW q \in Post, RoomOf[q] = SubRoom(s), Fanning(q, Now(s)), GoesTo(q, s)
        PROVE  Fanning(q, Now(s))' /\ GoesTo(q, s)'
    <3>1. Now(s)' = Now(s)
      BY <1>1 DEF Now, SubRoom, Owner
    <3>2. CASE q = p
      <4>1. SubRoom(s) \in DOMAIN rooms /\ s \in rooms[SubRoom(s)]
        BY <2>1 DEF IInv, RegistryExact
      <4> QED BY <1>2, <2>1, <3>1, <3>2, <4>1 DEF Fanning, GoesTo
    <3>3. CASE q # p
      BY <1>1, <2>1, <3>1, <3>3 DEF Fanning, GoesTo
    <3> QED BY <3>2, <3>3
  <2>2. Live(s) /\ InFlight(s) => InFlight(s)'
    BY <1>1, <2>1, StillInFlight
  <2> QED BY <1>1, <2>2, StillComes DEF Counts, Connected
<1> QED BY <1>3, <1>4 DEF Counts

\* The new count is on its way to everybody in the room.
LEMMA CountUpCounts ==
  ASSUME IInv, Counts, NEW p \in Post, CountUp(p)
  PROVE  Counts'
<1>1. /\ UNCHANGED <<rooms, sub, client>>
      /\ \A q \in Post \ {p} : post'[q] = post[q]
      /\ post \in [Post -> Request] /\ counters \in [Room -> Nat] /\ RoomOf[p] \in Room
  BY PostEffect, Parts DEF IInv, TypeOK
<1>2. /\ post[p].at = "send" /\ post[p].event.name = "comment" /\ post'[p].at = "publish"
      /\ post'[p].event = Count(counters[RoomOf[p]] + 1)
      /\ counters'[RoomOf[p]] = counters[RoomOf[p]] + 1
      /\ \A r \in Room \ {RoomOf[p]} : counters'[r] = counters[r]
  BY <1>1 DEF CountUp, Request
<1>3. p \in Posting(RoomOf[p])
  BY <1>2 DEF Posting
<1>4. OneAtATime'
  <2>1. \A q, x \in Post : x \in Posting(RoomOf[q])' <=> x \in Posting(RoomOf[q])
    BY <1>1, <1>2 DEF Posting
  <2>2. ASSUME NEW q \in Post, post'[q].at \in {"publish", "send"}, post'[q].event.name = "count"
        PROVE  post'[q].event = Count(counters'[RoomOf[q]])
    <3>1. CASE q = p
      BY <1>2, <3>1
    <3>2. CASE q # p
      <4>1. q \in Posting(RoomOf[q])
        BY <1>1, <2>2, <3>2 DEF Posting
      <4>2. RoomOf[q] # RoomOf[p]
        BY <1>3, <3>2, <4>1 DEF Counts, OneAtATime
      <4>3. RoomOf[q] \in Room /\ counters'[RoomOf[q]] = counters[RoomOf[q]]
        BY <1>2, <4>2, Parts DEF IInv
      <4> QED BY <1>1, <2>2, <3>2, <4>3 DEF Counts, OneAtATime
    <3> QED BY <3>1, <3>2
  <2> QED BY <2>1, <2>2 DEF Counts, OneAtATime
<1>5. ASSUME NEW s \in Sub PROVE Comes(s)'
  <2>1. CASE SubRoom(s) = RoomOf[p]
    <3>1. SubRoom(s)' = RoomOf[p] /\ Now(s)' = Count(counters[RoomOf[p]] + 1)
      BY <1>2, <2>1 DEF Now, SubRoom, Owner
    <3>2. Fanning(p, Now(s))' /\ GoesTo(p, s)'
      BY <1>2, <3>1 DEF Fanning, GoesTo
    <3>3. InFlight(s)'
      BY <3>1, <3>2 DEF InFlight
    <3> QED BY <3>3 DEF Comes
  <2>2. CASE SubRoom(s) # RoomOf[p]
    <3>1. counters'[SubRoom(s)] = counters[SubRoom(s)]
      BY <1>2, <2>2, SubParts
    <3>2. \A q \in Post : RoomOf[q] = SubRoom(s) /\ Fanning(q, Now(s)) /\ GoesTo(q, s) =>
            Fanning(q, Now(s))' /\ GoesTo(q, s)'
      BY <1>1, <2>2, <3>1 DEF Fanning, GoesTo, Now, SubRoom, Owner
    <3>3. Live(s) /\ InFlight(s) => InFlight(s)'
      BY <3>1, <3>2, StillInFlight
    <3> QED BY <1>1, <3>1, <3>3, StillComes DEF Counts, Connected
  <2> QED BY <2>1, <2>2
<1> QED BY <1>4, <1>5 DEF Counts

\* A request is answered when its count goes to nobody any more.
LEMMA PostedCounts ==
  ASSUME IInv, Counts, NEW p \in Post, Posted(p)
  PROVE  Counts'
<1>1. /\ UNCHANGED <<counters, rooms, sub, client>>
      /\ \A q \in Post \ {p} : post'[q] = post[q]
      /\ post \in [Post -> Request]
  BY PostEffect DEF IInv, TypeOK, Posted
<1>2. post[p].at = "send" /\ post[p].targets = {} /\ post'[p].at = "done"
  BY <1>1 DEF Posted, Request
<1>3. OneAtATime'
  <2>1. \A q, x \in Post : x \in Posting(RoomOf[q])' => x \in Posting(RoomOf[q])
    BY <1>1, <1>2 DEF Posting
  <2>2. \A q \in Post : post'[q].at \in {"publish", "send"} => q # p
    BY <1>2
  <2> QED BY <1>1, <2>1, <2>2 DEF Counts, OneAtATime
<1>4. ASSUME NEW s \in Sub PROVE Comes(s)'
  <2>1. \A q \in Post : GoesTo(q, s) => q # p
    BY <1>2 DEF GoesTo
  <2>2. \A q \in Post : Fanning(q, Now(s)) /\ GoesTo(q, s) => Fanning(q, Now(s))' /\ GoesTo(q, s)'
    BY <1>1, <2>1 DEF Fanning, GoesTo, Now, SubRoom, Owner
  <2>3. Live(s) /\ InFlight(s) => InFlight(s)'
    BY <1>1, <2>2, StillInFlight
  <2> QED BY <1>1, <2>3, StillComes DEF Counts, Connected
<1> QED BY <1>3, <1>4 DEF Counts

\* A count that is offered becomes the last one in the mailbox; a comment passes no count.
LEMMA SendCounts ==
  ASSUME IInv, Counts, NEW p \in Post, NEW s \in Sub, Send(p, s)
  PROVE  Counts'
<1> DEFINE e == post[p].event
<1>1. /\ UNCHANGED <<counters, client>>
      /\ post[p].at = "send" /\ s \in post[p].targets
      /\ \A q \in Post \ {p} : post'[q] = post[q]
      /\ post'[p].at = "send" /\ post'[p].event = e
      /\ post'[p].targets = post[p].targets \ {s}
      /\ \A t \in Sub \ {s} : sub'[t] = sub[t]
      /\ sub'[s].at = sub[s].at /\ sub'[s].out = sub[s].out
      /\ sub[s].killed => sub'[s].killed
      /\ \/ sub[s].at = "gone" \/ sub'[s].killed
         \/ sub'[s].buf = Append(sub[s].buf, e)
  BY SendEffect DEF IInv
<1>2. sub[s].buf \in Seq(Event) /\ e \in Event /\ SubRoom(s) = RoomOf[p]
  BY <1>1, Parts DEF IInv, Placed, Subscriber, Request
<1>3. OneAtATime'
  <2>1. \A q, x \in Post : x \in Posting(RoomOf[q])' <=> x \in Posting(RoomOf[q])
    BY <1>1 DEF Posting
  <2>2. \A q \in Post : /\ post'[q].event = post[q].event
                        /\ post'[q].at \in {"publish", "send"} <=> post[q].at \in {"publish", "send"}
    BY <1>1
  <2> QED BY <1>1, <2>1, <2>2 DEF Counts, OneAtATime
<1>4. ASSUME NEW t \in Sub \ {s} PROVE Comes(t)'
  <2>1. \A q \in Post : Fanning(q, Now(t)) /\ GoesTo(q, t) => Fanning(q, Now(t))' /\ GoesTo(q, t)'
    BY <1>1 DEF Fanning, GoesTo, Now, SubRoom, Owner
  <2>2. InFlight(t) => InFlight(t)'
    BY <1>1, <2>1, StillInFlight
  <2> QED BY <1>1, <2>2, StillComes DEF Counts, Connected
<1>5. Comes(s)'
  <2> SUFFICES ASSUME Connected(s)', Live(s)', ~sub'[s].killed
               PROVE  (InFlight(s) \/ LastCount(sub[s].buf, Now(s)) \/ (NoCount(sub[s].buf) /\ AtHand(s)))'
    BY DEF Comes
  <2>1. sub'[s].buf = Append(sub[s].buf, e)
    BY <1>1 DEF Live
  <2>2. Now(s)' = Now(s) /\ (AtHand(s)' <=> AtHand(s))
    BY <1>1 DEF Now, AtHand, Writing, SubRoom, Owner
  <2>3. CASE e.name = "count"
    <3>1. e = Now(s)
      BY <1>1, <1>2, <2>3 DEF Counts, OneAtATime, Now
    <3>2. LastCount(sub'[s].buf, Now(s)')
      BY <1>2, <2>1, <2>2, <3>1, CountLast
    <3> QED BY <3>2 DEF LastCount
  <2>4. CASE e.name # "count"
    <3>1. InFlight(s) \/ LastCount(sub[s].buf, Now(s)) \/ (NoCount(sub[s].buf) /\ AtHand(s))
      BY <1>1 DEF Counts, Comes, Connected, Live
    <3>2. \A q \in Post : Fanning(q, Now(s)) => q # p
      BY <2>4, Comments DEF Fanning, Now
    <3>3. \A q \in Post : Fanning(q, Now(s)) /\ GoesTo(q, s) => Fanning(q, Now(s))' /\ GoesTo(q, s)'
      BY <1>1, <3>2 DEF Fanning, GoesTo, Now, SubRoom, Owner
    <3>4. InFlight(s) => InFlight(s)'
      BY <1>1, <3>3, StillInFlight
    <3>5. /\ LastCount(sub[s].buf, Now(s)) => LastCount(sub'[s].buf, Now(s)')
          /\ NoCount(sub[s].buf) => NoCount(sub'[s].buf)
      BY <1>2, <2>1, <2>2, <2>4, CountLast
    <3> QED BY <2>2, <3>1, <3>4, <3>5 DEF LastCount, NoCount
  <2> QED BY <2>3, <2>4
<1> QED BY <1>3, <1>4, <1>5 DEF Counts

\* A new subscriber has no mail yet, and will read the count.
LEMMA SubscribeCounts ==
  ASSUME IInv, Counts, NEW s \in Sub, Subscribe(s)
  PROVE  Counts'
<1>1. /\ UNCHANGED <<counters, post, client>>
      /\ \A t \in Sub \ {s} : sub'[t] = sub[t]
      /\ sub[s].at = "opened" /\ sub'[s].at = "prime" /\ sub'[s].buf = sub[s].buf
  BY SubscribeEffect DEF IInv
<1>2. OneAtATime'
  BY <1>1, OneStays DEF Counts
<1>3. ASSUME NEW t \in Sub \ {s} PROVE Comes(t)'
  <2>1. InFlight(t) => InFlight(t)'
    BY <1>1 DEF InFlight, Fanning, GoesTo, Now, SubRoom, Owner
  <2> QED BY <1>1, <2>1, StillComes DEF Counts, Connected
<1>4. Comes(s)'
  <2>1. sub'[s].buf = <<>>
    BY <1>1 DEF IInv, Placed
  <2>2. (NoCount(sub[s].buf) /\ AtHand(s))'
    BY <1>1, <2>1 DEF NoCount, AtHand
  <2> QED BY <2>2 DEF Comes
<1> QED BY <1>2, <1>3, <1>4 DEF Counts

\* The count read first is the room's; the last one in the mailbox is, when it is taken.
LEMMA TakeCounts ==
  ASSUME IInv, Counts, NEW s \in Sub, Prime(s) \/ TakeEvent(s)
  PROVE  Counts'
<1>1. /\ UNCHANGED <<counters, post, client>>
      /\ \A t \in Sub \ {s} : sub'[t] = sub[t]
      /\ sub[s].at \in {"prime", "loop"} /\ sub'[s].at = "write"
      /\ sub'[s].killed = sub[s].killed /\ sub \in [Sub -> Subscriber]
  BY TakeEffect DEF IInv, TypeOK
<1>2. OneAtATime'
  BY <1>1, OneStays DEF Counts
<1>3. \A t \in Sub : InFlight(t)' <=> InFlight(t)
  BY <1>1 DEF InFlight, Fanning, GoesTo, Now, SubRoom, Owner
<1>4. ASSUME NEW t \in Sub \ {s} PROVE Comes(t)'
  BY <1>1, <1>3, StillComes DEF Counts, Connected
<1>5. Comes(s)'
  <2> SUFFICES ASSUME Connected(s)', Live(s)', ~sub'[s].killed
               PROVE  (InFlight(s) \/ LastCount(sub[s].buf, Now(s)) \/ (NoCount(sub[s].buf) /\ AtHand(s)))'
    BY DEF Comes
  <2>1. InFlight(s) \/ LastCount(sub[s].buf, Now(s)) \/ (NoCount(sub[s].buf) /\ AtHand(s))
    BY <1>1 DEF Counts, Comes, Connected, Live
  <2>2. Now(s)' = Now(s)
    BY <1>1 DEF Now, SubRoom, Owner
  <2>3. CASE Prime(s)
    <3>1. sub'[s].out = Now(s) /\ sub'[s].buf = sub[s].buf
      BY <1>1, <2>3 DEF Prime, Now, Subscriber
    <3>2. AtHand(s)'
      BY <1>1, <2>2, <3>1 DEF AtHand, Writing
    <3>3. /\ LastCount(sub[s].buf, Now(s)) => LastCount(sub[s].buf, Now(s))'
          /\ NoCount(sub[s].buf) => NoCount(sub[s].buf)'
      BY <2>2, <3>1 DEF LastCount, NoCount
    <3> QED BY <1>3, <2>1, <3>2, <3>3
  <2>4. CASE TakeEvent(s)
    <3>1. /\ sub[s].at = "loop" /\ sub[s].buf # <<>> /\ sub[s].buf \in Seq(Event)
          /\ sub'[s].out = Head(sub[s].buf) /\ sub'[s].buf = Tail(sub[s].buf)
      BY <1>1, <2>4 DEF TakeEvent, Subscriber
    <3>2. /\ LastCount(sub[s].buf, Now(s)) => \/ LastCount(sub'[s].buf, Now(s))
                                              \/ sub'[s].out = Now(s) /\ NoCount(sub'[s].buf)
          /\ NoCount(sub[s].buf) => sub'[s].out.name # "count" /\ NoCount(sub'[s].buf)
      BY <3>1, CountFirst
    <3>3. sub'[s].out = Now(s) => AtHand(s)'
      BY <1>1, <2>2 DEF AtHand, Writing
    <3>4. sub'[s].out.name # "count" /\ AtHand(s) => AtHand(s)'
      BY <1>1, <3>1 DEF AtHand, Writing, SubRoom, Owner
    <3> QED BY <1>3, <2>1, <2>2, <3>2, <3>3, <3>4 DEF LastCount, NoCount
  <2> QED BY <2>3, <2>4
<1> QED BY <1>2, <1>4, <1>5 DEF Counts

\* The page shows the count that was written; a comment leaves the count alone.
LEMMA WriteCounts ==
  ASSUME IInv, Counts, NEW s \in Sub, WriteEvent(s)
  PROVE  Counts'
<1>1. /\ UNCHANGED <<counters, post>>
      /\ \A t \in Sub \ {s} : sub'[t] = sub[t]
      /\ sub[s].at = "write" /\ sub'[s].at = "loop"
      /\ sub'[s].killed = sub[s].killed /\ sub'[s].buf = sub[s].buf
      /\ \A c \in Client : c # Owner(s) \/ ~Connected(s) => client'[c] = client[c]
      /\ Connected(s) => client'[Owner(s)] = Handle(client[Owner(s)], sub[s].out)
      /\ \A c \in Client : client'[c].conns = client[c].conns /\ client'[c].open = client[c].open
  BY WriteEffect DEF IInv
<1>2. OneAtATime'
  BY <1>1, OneStays DEF Counts
<1>3. \A t \in Sub : InFlight(t)' <=> InFlight(t)
  BY <1>1 DEF InFlight, Fanning, GoesTo, Now, SubRoom, Owner
<1>4. \A t \in Sub : Connected(t)' <=> Connected(t)
  <2>1. \A t \in Sub : Owner(t) \in Client /\ Owner(t)' = Owner(t)
    BY SubParts DEF Owner
  <2> QED BY <1>1, <2>1 DEF Connected
<1>5. ASSUME NEW t \in Sub \ {s} PROVE Comes(t)'
  <2>1. CASE ~Connected(t)
    BY <1>4, <2>1 DEF Comes
  <2>2. CASE Connected(t)
    <3>1. Owner(t) # Owner(s) \/ ~Connected(s)
      <4>1. t = <<Owner(t), t[2]>> /\ s = <<Owner(s), s[2]>> /\ t # s
        BY SubParts
      <4> QED BY <2>2, <4>1 DEF Connected
    <3>2. client'[Owner(t)] = client[Owner(t)]
      BY <1>1, <3>1, SubParts
    <3> QED BY <1>1, <1>3, <1>4, <3>2, StillComes DEF Counts
  <2> QED BY <2>1, <2>2
<1>6. Comes(s)'
  <2> SUFFICES ASSUME Connected(s)', Live(s)', ~sub'[s].killed
               PROVE  (InFlight(s) \/ LastCount(sub[s].buf, Now(s)) \/ (NoCount(sub[s].buf) /\ AtHand(s)))'
    BY DEF Comes
  <2>1. Connected(s)
    BY <1>4
  <2>2. InFlight(s) \/ LastCount(sub[s].buf, Now(s)) \/ (NoCount(sub[s].buf) /\ AtHand(s))
    BY <1>1, <2>1 DEF Counts, Comes, Live
  <2>3. Now(s)' = Now(s)
    BY <1>1 DEF Now, SubRoom, Owner
  <2>4. /\ LastCount(sub[s].buf, Now(s)) => LastCount(sub[s].buf, Now(s))'
        /\ NoCount(sub[s].buf) => NoCount(sub[s].buf)'
    BY <1>1, <2>3 DEF LastCount, NoCount
  <2>5. AtHand(s) => AtHand(s)'
    <3> DEFINE n == counters[SubRoom(s)]
               ev == sub[s].out
    <3> SUFFICES ASSUME AtHand(s) PROVE AtHand(s)'
      OBVIOUS
    <3>1. /\ client[Owner(s)] \in Page /\ Len(client[Owner(s)].shown) <= MaxShown
          /\ ev \in Event /\ Owner(s) \in Client
      BY Parts, SubParts DEF IInv, Subscriber
    <3>2. /\ ev.name = "count" => client'[Owner(s)].count = ev.n
          /\ ev.name = "comment" => client'[Owner(s)].count = client[Owner(s)].count
      BY <1>1, <2>1, <3>1, HandleShows
    <3>3. client'[Owner(s)].count = n
      <4>1. CASE ev = Count(n)
        <5>1. ev.name = "count" /\ ev.n = n
          BY <4>1 DEF Count
        <5> QED BY <3>2, <5>1
      <4>2. CASE ev.name # "count" /\ client[Owner(s)].count = n
        <5>1. ev.name = "comment"
          BY <3>1, <4>2 DEF Event
        <5> QED BY <3>2, <4>2, <5>1
      <4>3. ev = Count(n) \/ (ev.name # "count" /\ client[Owner(s)].count = n)
        BY <1>1 DEF AtHand, Writing, Now
      <4> QED BY <4>1, <4>2, <4>3
    <3> QED BY <1>1, <3>3 DEF AtHand, SubRoom, Owner
  <2> QED BY <1>3, <2>2, <2>4, <2>5
<1> QED BY <1>2, <1>5, <1>6 DEF Counts

\* A stream that has ended shows nothing any more, and takes nobody else's place.
LEMMA EndCounts ==
  ASSUME IInv, Counts, NEW s \in Sub, End(s)
  PROVE  Counts'
<1>1. /\ UNCHANGED <<counters, post>>
      /\ \A t \in Sub \ {s} : sub'[t] = sub[t]
      /\ sub'[s].at = "gone"
      /\ \A c \in Client : /\ client'[c].conns = client[c].conns
                           /\ client'[c].count = client[c].count
                           /\ client'[c].open => client[c].open
  BY EndEffect DEF IInv
<1>2. OneAtATime'
  BY <1>1, OneStays DEF Counts
<1>3. ASSUME NEW t \in Sub \ {s} PROVE Comes(t)'
  <2>1. InFlight(t) => InFlight(t)'
    BY <1>1 DEF InFlight, Fanning, GoesTo, Now, SubRoom, Owner
  <2>2. Owner(t) \in Client /\ Owner(t)' = Owner(t)
    BY SubParts DEF Owner
  <2>3. Connected(t)' => Connected(t)
    BY <1>1, <2>2 DEF Connected
  <2> QED BY <1>1, <2>1, <2>2, <2>3, StillComes DEF Counts
<1>4. Comes(s)'
  BY <1>1 DEF Comes, Live
<1> QED BY <1>2, <1>3, <1>4 DEF Counts

\* The page's connections come and go: only the last one it opened is what it shows.
LEMMA PageCounts ==
  ASSUME IInv, Counts, NEW c \in Client, Connect(c) \/ Disconnect(c) \/ StallOrResume(c)
  PROVE  Counts'
<1>1. /\ UNCHANGED <<counters, post>>
      /\ \A d \in Client : client'[d].count = client[d].count
      /\ \A d \in Client \ {c} : client'[d] = client[d]
      /\ client[c] \in Page
  BY PageEffect, Parts DEF IInv
<1>2. \/ sub' = sub /\ client'[c].conns = client[c].conns
         /\ (client'[c].open => client[c].open)
      \/ /\ client'[c].conns = client[c].conns + 1
         /\ \A s \in Sub : s # <<c, client[c].conns + 1>> => sub'[s] = sub[s]
         /\ \A s \in Sub : s = <<c, client[c].conns + 1>> => sub'[s].at = "opened"
  BY PageEffect DEF IInv
<1>3. OneAtATime'
  BY <1>1, OneStays DEF Counts
<1>4. ASSUME NEW s \in Sub PROVE Comes(s)'
  <2>1. InFlight(s) => InFlight(s)'
    BY <1>1 DEF InFlight, Fanning, GoesTo, Now, SubRoom, Owner
  <2>2. Owner(s) \in Client /\ Owner(s)' = Owner(s) /\ s[2] \in Nat /\ s = <<Owner(s), s[2]>>
    BY SubParts, ConstantsAssumption DEF Owner
  <2>3. CASE ~Live(s)'
    BY <2>3 DEF Comes
  <2>4. CASE ~Connected(s)'
    BY <2>4 DEF Comes
  <2>5. CASE Live(s)' /\ Connected(s)'
    <3>1. sub'[s] = sub[s]
      BY <1>2, <2>5 DEF Live
    <3>2. Connected(s)
      <4>1. CASE Owner(s) # c
        BY <1>1, <2>2, <2>5, <4>1 DEF Connected
      <4>2. CASE Owner(s) = c
        <5>1. client'[c].open /\ client'[c].conns = s[2]
          BY <2>2, <2>5, <4>2 DEF Connected
        <5>2. sub'[s].at # "opened"
          BY <2>5 DEF Live
        <5>3. client'[c].conns = client[c].conns /\ (client'[c].open => client[c].open)
          BY <1>2, <2>2, <4>2, <5>1, <5>2
        <5> QED BY <2>2, <4>2, <5>1, <5>3 DEF Connected
      <4> QED BY <4>1, <4>2
    <3> QED BY <1>1, <2>1, <2>2, <3>1, <3>2, StillComes DEF Counts
  <2> QED BY <2>3, <2>4, <2>5
<1> QED BY <1>3, <1>4 DEF Counts

\* Every step of the specification, and a stutter.
LEMMA CountsStep ==
  ASSUME MaxPosting = 1, IInv, Counts, [Next]_vars
  PROVE  Counts'
<1>1. CASE Next
  <2>1. ASSUME NEW p \in Post,
               RejectComment(p) \/ AssignId(p) \/ Snapshot(p) \/ CountUp(p) \/ Posted(p)
        PROVE  Counts'
    BY <2>1, BeginCounts, SnapshotCounts, CountUpCounts, PostedCounts
  <2>2. ASSUME NEW p \in Post, NEW s \in Sub, Send(p, s) PROVE Counts'
    BY <2>2, SendCounts
  <2>3. ASSUME NEW s \in Sub, Subscribe(s) \/ Prime(s) \/ TakeEvent(s) \/ WriteEvent(s) \/ End(s)
        PROVE  Counts'
    BY <2>3, SubscribeCounts, TakeCounts, WriteCounts, EndCounts
  <2>4. ASSUME NEW c \in Client, Connect(c) \/ Disconnect(c) \/ StallOrResume(c) PROVE Counts'
    BY <2>4, PageCounts
  <2> QED BY <1>1, <2>1, <2>2, <2>3, <2>4 DEF Next
<1>2. CASE UNCHANGED vars
  <2>1. UNCHANGED <<seqs, counters, rooms, sub, post, client>>
    BY <1>2 DEF vars
  <2>2. OneAtATime'
    BY <2>1, OneStays DEF Counts
  <2>3. ASSUME NEW s \in Sub PROVE Comes(s)'
    <3>1. InFlight(s) => InFlight(s)'
      BY <2>1 DEF InFlight, Fanning, GoesTo, Now, SubRoom, Owner
    <3> QED BY <2>1, <3>1, StillComes DEF Counts, Connected
  <2> QED BY <2>2, <2>3 DEF Counts
<1> QED BY <1>1, <1>2

(* If Service.AddComment runs one at a time in a room, an open page whose  *)
(* stream has nothing left to write shows the number of comments: through  *)
(* reconnections, kills and whatever the handlers and Publish interleave.  *)
THEOREM CountIsShown ==
  ASSUME MaxPosting = 1
  PROVE  Spec => []CountSettles
<1>1. IInv /\ Counts => CountSettles
  <2> SUFFICES ASSUME IInv, Counts, NEW c \in Client, Settled(c)
               PROVE  client[c].count = counters[RoomOf[c]]
    BY DEF CountSettles
  <2> DEFINE s == <<c, client[c].conns>>
  <2>1. /\ client[c].open /\ client[c].conns > 0 /\ Posting(RoomOf[c]) = {}
        /\ sub[s].at = "loop" /\ sub[s].buf = <<>> /\ ~sub[s].killed
    BY DEF Settled
  <2>2. s \in Sub
    <3>1. client[c].conns \in 0 .. MaxConns
      BY Parts DEF IInv, Page
    <3> QED BY <2>1, <3>1, ConstantsAssumption DEF Sub
  <2>3. Owner(s) = c /\ SubRoom(s) = RoomOf[c] /\ Connected(s) /\ Live(s)
    BY <2>1 DEF Owner, SubRoom, Connected, Live
  <2>4. ~InFlight(s)
    BY <2>1, <2>3 DEF InFlight, Fanning, Posting
  <2>5. ~LastCount(sub[s].buf, Now(s))
    BY <2>1 DEF LastCount
  <2>6. AtHand(s)
    BY <2>1, <2>2, <2>3, <2>4, <2>5 DEF Counts, Comes
  <2> QED BY <2>1, <2>3, <2>6 DEF AtHand, Writing
<1>2. IInv /\ Counts /\ [Next]_vars => Counts'
  BY CountsStep
<1> QED BY <1>1, <1>2, CountsInit, Invariant, PTL DEF Spec
=============================================================================
