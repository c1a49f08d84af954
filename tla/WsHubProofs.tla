---------------------------- MODULE WsHubProofs ----------------------------
(***************************************************************************)
(* The hub of cmd/api behind cmd/notifier, for every number of connections *)
(* and of lost Redis connections: one reader per channel, an exact         *)
(* registry, and nothing skipped or out of order on a connection that is   *)
(* still there.                                                            *)
(***************************************************************************)
EXTENDS Notifications, TLAPS, SequenceTheorems, FiniteSetTheorems

NP == INSTANCE NotifierProofs

\* What the hub does, whoever publishes.
HubNext == HubLocal \/ PublishNote

Increasing(s) == \A i, j \in DOMAIN s : i < j => s[i] < s[j]

\* What waits in a subscription comes after what its reader is writing, and that
\* after what the connections still to be written to have received.
InOrder ==
  /\ \A r \in Readers :
       /\ Increasing(reader[r].inbox)
       /\ \A i \in DOMAIN reader[r].inbox : reader[r].note < reader[r].inbox[i]
       /\ \A c \in Conn : \A i \in DOMAIN got[c] :
            /\ got[c][i] <= reader[r].note
            /\ c \in reader[r].left => got[c][i] < reader[r].note
  /\ \A c \in Conn : Increasing(got[c]) /\ (Readers = {} => got[c] = <<>>)

\* A registration without a reader has nothing to read or write, and a broadcast is of
\* some notification.
IdleReaders ==
  /\ \A r \in Conn \ Readers : reader[r].inbox = <<>> /\ reader[r].left = {}
  /\ \A r \in Conn : reader[r].left # {} => reader[r].note # 0

\* The first half of NothingSkipped, without the order.
Delivered ==
  \A c \in Conn : conn[c] = "open" =>
    \A n \in since[c] + 1 .. published : n \in ToSet(got[c]) \cup lost \/ Underway(n, c)

IInv == HubTypeOK /\ OneReader /\ RegistryExact /\ IdleReaders /\ InOrder /\ Delivered

-----------------------------------------------------------------------------
(* Sequences.                                                              *)

\* Taking the first element leaves the others, in their order.
LEMMA TakeFirst ==
  ASSUME NEW n \in Nat, NEW s \in Seq(1 .. n), s # <<>>
  PROVE  /\ Head(s) \in 1 .. n /\ Tail(s) \in Seq(1 .. n)
         /\ ToSet(s) = ToSet(Tail(s)) \cup {Head(s)}
         /\ Increasing(s) => /\ Increasing(Tail(s))
                             /\ \A i \in DOMAIN Tail(s) : Head(s) < Tail(s)[i]
<1>1. /\ Len(s) \in Nat \ {0} /\ DOMAIN s = 1 .. Len(s)
      /\ \A i \in 1 .. Len(s) : s[i] \in 1 .. n
  BY LenProperties, EmptySeq, ElementOfSeq
<1>2. /\ Head(s) = s[1] /\ Tail(s) \in Seq(1 .. n)
      /\ DOMAIN Tail(s) = 1 .. Len(s) - 1
      /\ \A i \in 1 .. Len(s) - 1 : Tail(s)[i] = s[i + 1]
  BY <1>1, HeadTailProperties
<1>3. ToSet(s) = ToSet(Tail(s)) \cup {Head(s)}
  <2>1. ASSUME NEW i \in DOMAIN s PROVE s[i] \in ToSet(Tail(s)) \cup {Head(s)}
    <3>1. CASE i = 1
      BY <1>2, <3>1
    <3>2. CASE i # 1
      <4>1. i - 1 \in DOMAIN Tail(s) /\ Tail(s)[i - 1] = s[i]
        BY <1>1, <1>2, <3>2
      <4> QED BY <4>1 DEF ToSet
    <3> QED BY <3>1, <3>2
  <2>2. ASSUME NEW i \in DOMAIN Tail(s) PROVE Tail(s)[i] \in ToSet(s)
    <3>1. i + 1 \in DOMAIN s /\ Tail(s)[i] = s[i + 1]
      BY <1>1, <1>2
    <3> QED BY <3>1 DEF ToSet
  <2>3. Head(s) \in ToSet(s)
    BY <1>1, <1>2 DEF ToSet
  <2> QED BY <2>1, <2>2, <2>3 DEF ToSet
<1>4. ASSUME Increasing(s)
      PROVE  Increasing(Tail(s)) /\ \A i \in DOMAIN Tail(s) : Head(s) < Tail(s)[i]
  <2>1. \A i, j \in 1 .. Len(s) : i < j => s[i] < s[j]
    BY <1>1, <1>4 DEF Increasing
  <2>2. ASSUME NEW i \in 1 .. Len(s) - 1, NEW j \in 1 .. Len(s) - 1, i < j
        PROVE  Tail(s)[i] < Tail(s)[j]
    <3>1. i + 1 \in 1 .. Len(s) /\ j + 1 \in 1 .. Len(s) /\ i + 1 < j + 1
      BY <1>1, <2>2
    <3>2. s[i + 1] < s[j + 1]
      BY <2>1, <3>1
    <3> QED BY <1>2, <3>2
  <2>3. ASSUME NEW i \in 1 .. Len(s) - 1 PROVE s[1] < Tail(s)[i]
    <3>1. 1 \in 1 .. Len(s) /\ i + 1 \in 1 .. Len(s) /\ 1 < i + 1
      BY <1>1
    <3>2. s[1] < s[i + 1]
      BY <2>1, <3>1
    <3> QED BY <1>2, <3>2
  <2> QED BY <1>2, <2>2, <2>3 DEF Increasing
<1> QED BY <1>1, <1>2, <1>3, <1>4

\* A larger element at the end.
LEMMA AddLast ==
  ASSUME NEW n \in Nat, NEW s \in Seq(1 .. n), NEW x \in 1 .. n
  PROVE  /\ Append(s, x) \in Seq(1 .. n)
         /\ ToSet(Append(s, x)) = ToSet(s) \cup {x}
         /\ \A i \in DOMAIN Append(s, x) : Append(s, x)[i] \in ToSet(s) \cup {x}
         /\ Increasing(s) /\ (\A i \in DOMAIN s : s[i] < x) => Increasing(Append(s, x))
<1>1. /\ Len(s) \in Nat /\ DOMAIN s = 1 .. Len(s)
      /\ \A i \in 1 .. Len(s) : s[i] \in 1 .. n
  BY LenProperties, ElementOfSeq
<1>2. /\ Append(s, x) \in Seq(1 .. n)
      /\ DOMAIN Append(s, x) = 1 .. Len(s) + 1
      /\ \A i \in 1 .. Len(s) : Append(s, x)[i] = s[i]
      /\ Append(s, x)[Len(s) + 1] = x
  BY <1>1, AppendProperties, LenProperties
<1>3. ToSet(Append(s, x)) = ToSet(s) \cup {x}
  <2>1. \A i \in DOMAIN Append(s, x) : Append(s, x)[i] \in ToSet(s) \cup {x}
    BY <1>1, <1>2 DEF ToSet
  <2>2. ASSUME NEW i \in DOMAIN s PROVE s[i] \in ToSet(Append(s, x))
    <3>1. i \in DOMAIN Append(s, x) /\ Append(s, x)[i] = s[i]
      BY <1>1, <1>2
    <3> QED BY <3>1 DEF ToSet
  <2>3. x \in ToSet(Append(s, x))
    <3>1. Len(s) + 1 \in DOMAIN Append(s, x)
      BY <1>1, <1>2
    <3> QED BY <1>2, <3>1 DEF ToSet
  <2> QED BY <2>1, <2>2, <2>3 DEF ToSet
<1>4. ASSUME Increasing(s), \A i \in DOMAIN s : s[i] < x PROVE Increasing(Append(s, x))
  BY <1>1, <1>2, <1>4 DEF Increasing
<1> QED BY <1>2, <1>3, <1>4 DEF ToSet

\* The part of a sequence between two places.
LEMMA CutOut ==
  ASSUME NEW n \in Nat, NEW s \in Seq(1 .. n), NEW a \in 1 .. Len(s) + 1, NEW b \in a - 1 .. Len(s)
  PROVE  /\ SubSeq(s, a, b) \in Seq(1 .. n)
         /\ DOMAIN SubSeq(s, a, b) = 1 .. b - a + 1 /\ Len(SubSeq(s, a, b)) = b - a + 1
         /\ \A i \in 1 .. b - a + 1 : SubSeq(s, a, b)[i] = s[a + i - 1]
<1>1. Len(s) \in Nat
  BY LenProperties
<1> QED BY <1>1, SubSeqProperties, LenProperties

\* Leaving out one element.
LEMMA LeaveOut ==
  ASSUME NEW n \in Nat, NEW s \in Seq(1 .. n), NEW k \in 1 .. Len(s)
  PROVE  /\ RemoveAt(s, k) \in Seq(1 .. n)
         /\ ToSet(s) = ToSet(RemoveAt(s, k)) \cup {s[k]}
         /\ Increasing(s) => Increasing(RemoveAt(s, k))
<1> DEFINE t == RemoveAt(s, k)
           l == SubSeq(s, 1, k - 1)
           r == SubSeq(s, k + 1, Len(s))
           old(i) == IF i < k THEN i ELSE i + 1
<1>1. /\ Len(s) \in Nat /\ k \in Nat \ {0} /\ k <= Len(s) /\ DOMAIN s = 1 .. Len(s)
      /\ \A i \in 1 .. Len(s) : s[i] \in 1 .. n
  BY LenProperties, ElementOfSeq
<1>2. /\ l \in Seq(1 .. n) /\ Len(l) = k - 1
      /\ \A i \in 1 .. k - 1 : l[i] = s[i]
  <2>1. 1 \in 1 .. Len(s) + 1 /\ k - 1 \in 1 - 1 .. Len(s)
    BY <1>1
  <2> QED BY <1>1, <2>1, CutOut
<1>3. r \in Seq(1 .. n) /\ Len(r) = Len(s) - k /\ \A i \in 1 .. Len(s) - k : r[i] = s[k + i]
  <2>1. k + 1 \in 1 .. Len(s) + 1 /\ Len(s) \in (k + 1) - 1 .. Len(s)
    BY <1>1
  <2>2. /\ r \in Seq(1 .. n) /\ Len(r) = Len(s) - (k + 1) + 1
        /\ \A i \in 1 .. Len(s) - (k + 1) + 1 : r[i] = s[k + 1 + i - 1]
    BY <2>1, CutOut
  <2>3. Len(s) - (k + 1) + 1 = Len(s) - k
    BY <1>1
  <2> HIDE DEF r
  <2>4. ASSUME NEW i \in 1 .. Len(s) - k PROVE r[i] = s[k + i]
    <3>1. k + 1 + i - 1 = k + i
      BY <1>1
    <3>2. r[i] = s[k + 1 + i - 1]
      BY <2>2, <2>3
    <3> QED BY <3>1, <3>2
  <2> QED BY <2>2, <2>3, <2>4
<1>r. t = l \o r
  BY DEF RemoveAt
<1> HIDE DEF t, l, r
<1>4. t \in Seq(1 .. n) /\ Len(t) = Len(s) - 1 /\ DOMAIN t = 1 .. Len(s) - 1
  <2>1. t \in Seq(1 .. n) /\ Len(t) = Len(l) + Len(r)
    BY <1>2, <1>3, <1>r, ConcatProperties
  <2>2. Len(t) = Len(s) - 1
    BY <1>1, <1>2, <1>3, <2>1
  <2> QED BY <2>1, <2>2, LenProperties
<1>5. ASSUME NEW i \in 1 .. Len(s) - 1
      PROVE  t[i] = s[old(i)] /\ old(i) \in 1 .. Len(s)
  <2>1. i \in 1 .. Len(l) + Len(r) /\ i - Len(l) = i - (k - 1)
    BY <1>1, <1>2, <1>3
  <2>2. t[i] = IF i <= Len(l) THEN l[i] ELSE r[i - Len(l)]
    BY <1>2, <1>3, <1>r, <2>1, ConcatProperties
  <2>3. CASE i <= k - 1
    BY <1>1, <1>2, <2>2, <2>3
  <2>4. CASE ~(i <= k - 1)
    <3>1. i - (k - 1) \in 1 .. Len(s) - k /\ k + (i - (k - 1)) = i + 1 /\ ~(i < k)
      BY <1>1, <2>4
    <3>2. t[i] = r[i - (k - 1)]
      BY <1>2, <2>1, <2>2, <2>4
    <3>3. r[i - (k - 1)] = s[i + 1]
      BY <1>3, <3>1
    <3>4. old(i) = i + 1 /\ i + 1 \in 1 .. Len(s)
      BY <1>1, <3>1
    <3> QED BY <3>2, <3>3, <3>4
  <2> QED BY <2>3, <2>4
<1>6. ToSet(s) = ToSet(t) \cup {s[k]}
  <2>1. ASSUME NEW i \in 1 .. Len(s), i # k PROVE s[i] \in ToSet(t)
    <3> DEFINE j == IF i < k THEN i ELSE i - 1
    <3>1. j \in 1 .. Len(s) - 1 /\ old(j) = i
      BY <1>1, <2>1
    <3>2. t[j] = s[i]
      BY <1>5, <3>1
    <3> QED BY <1>4, <3>1, <3>2 DEF ToSet
  <2>2. ASSUME NEW i \in DOMAIN t PROVE t[i] \in ToSet(s)
    BY <1>1, <1>4, <1>5 DEF ToSet
  <2>3. ToSet(t) \subseteq ToSet(s) /\ s[k] \in ToSet(s)
    BY <1>1, <2>2 DEF ToSet
  <2>4. ToSet(s) \subseteq ToSet(t) \cup {s[k]}
    BY <1>1, <2>1 DEF ToSet
  <2> QED BY <2>3, <2>4
<1>7. ASSUME Increasing(s) PROVE Increasing(t)
  <2> SUFFICES ASSUME NEW i \in 1 .. Len(s) - 1, NEW j \in 1 .. Len(s) - 1, i < j
               PROVE  t[i] < t[j]
    BY <1>4 DEF Increasing
  <2>1. old(i) \in 1 .. Len(s) /\ old(j) \in 1 .. Len(s) /\ old(i) < old(j)
    BY <1>1, <1>5
  <2>2. s[old(i)] < s[old(j)]
    BY <1>1, <1>7, <2>1 DEF Increasing
  <2> QED BY <1>5, <2>2
<1> QED BY <1>4, <1>6, <1>7 DEF t

-----------------------------------------------------------------------------
(* The handlers.                                                           *)

\* A reader record is replaced by another.
LEMMA PutReader ==
  ASSUME HubTypes, NEW r \in Conn, NEW x \in ReaderRecord,
         published' = published, reader' = [reader EXCEPT ![r] = x]
  PROVE  /\ reader' \in [Conn -> ReaderRecord'] /\ reader'[r] = x
         /\ \A s \in Conn \ {r} : reader'[s] = reader[s]
<1>1. ReaderRecord' = ReaderRecord
  BY DEF ReaderRecord
<1>2. reader \in [Conn -> ReaderRecord]
  BY DEF HubTypes
<1> QED BY <1>1, <1>2

\* Nobody watches, nothing was published.
LEMMA InitIInv == HubInit => IInv
<1> SUFFICES ASSUME HubInit PROVE IInv
  OBVIOUS
<1>1. Readers = {}
  BY DEF HubInit, Readers, NoReader
<1>2. <<>> \in Seq(1 .. 0) /\ published = 0
  BY EmptySeq DEF HubInit
<1>3. HubTypes
  <2>1. reader \in [Conn -> ReaderRecord]
    BY <1>2 DEF HubInit, NoReader, ReaderRecord
  <2>2. got \in [Conn -> Seq(1 .. published)] /\ since \in [Conn -> 0 .. published]
    BY <1>2 DEF HubInit
  <2> QED BY <2>1, <2>2 DEF HubInit, HubTypes
<1>4. OneReader /\ RegistryExact /\ IdleReaders
  BY <1>1 DEF HubInit, OneReader, RegistryExact, IdleReaders, NoReader
<1>5. InOrder
  <2>1. Increasing(<<>>)
    BY DEF Increasing
  <2> QED BY <1>1, <2>1 DEF HubInit, InOrder
<1>6. Delivered
  BY DEF HubInit, Delivered
<1>7. HubTypeOK
  BY <1>1, <1>3 DEF HubInit, HubTypeOK
<1> QED BY <1>4, <1>5, <1>6, <1>7 DEF IInv

\* A registration starts a reader only when there is none, and is owed nothing yet.
LEMMA RegisterStep ==
  ASSUME IInv, NEW c \in Conn, Register(c)
  PROVE  IInv'
<1>0. HubTypes /\ OneReader /\ RegistryExact /\ IdleReaders /\ InOrder /\ Delivered
  BY DEF IInv, HubTypeOK
<1>1. /\ conns' = conns \cup {c} /\ subscribing' = TRUE
      /\ conn[c] = "new" /\ conn' = [conn EXCEPT ![c] = "open"]
      /\ since' = [since EXCEPT ![c] = published]
      /\ UNCHANGED <<stalled, published, breaks, got, lost>>
  BY DEF Register
<1>2. /\ \A k \in Conn : conn'[k] = "open" => k = c \/ conn[k] = "open"
      /\ since'[c] = published /\ \A k \in Conn \ {c} : since'[k] = since[k]
      /\ published \in Nat
  BY <1>0, <1>1 DEF HubTypes
<1>3. RegistryExact'
  BY <1>0, <1>1 DEF HubTypes, RegistryExact
<1>t. /\ conns' \subseteq Conn /\ conn' \in [Conn -> {"new", "open", "gone", "closed", "ended"}]
      /\ since' \in [Conn -> 0 .. published]
  BY <1>0, <1>1 DEF HubTypes
<1>4. CASE subscribing
  <2>1. reader' = reader /\ Readers' = Readers
    BY <1>4 DEF Register, NeedsSubscription, Readers
  <2>2. HubTypeOK'
    <3>1. HubTypes'
      BY <1>0, <1>1, <1>t, <2>1 DEF HubTypes, ReaderRecord
    <3>2. Readers # {}
      BY <1>4 DEF IInv, HubTypeOK
    <3> QED BY <1>1, <2>1, <3>1, <3>2 DEF HubTypeOK
  <2>3. OneReader' /\ IdleReaders' /\ InOrder'
    BY <1>0, <1>1, <2>1 DEF OneReader, IdleReaders, InOrder
  <2>4. Delivered'
    <3> SUFFICES ASSUME NEW k \in Conn, conn'[k] = "open",
                        NEW n \in since'[k] + 1 .. published'
                 PROVE  n \in ToSet(got'[k]) \cup lost' \/ Underway(n, k)'
      BY DEF Delivered
    <3>1. k # c
      BY <1>1, <1>2
    <3>2. conn[k] = "open" /\ n \in since[k] + 1 .. published
      BY <1>1, <1>2, <3>1
    <3>3. n \in ToSet(got[k]) \cup lost \/ Underway(n, k)
      BY <1>0, <3>2 DEF Delivered
    <3>4. Underway(n, k)' <=> Underway(n, k)
      BY <2>1 DEF Underway
    <3> QED BY <1>1, <3>3, <3>4
  <2> QED BY <1>3, <2>2, <2>3, <2>4 DEF IInv
<1>5. CASE ~subscribing
  <2>1. reader' = [reader EXCEPT ![c].at = "starting"]
    BY <1>5 DEF Register, NeedsSubscription
  <2>2. Readers = {}
    BY <1>5 DEF IInv, HubTypeOK
  <2>3. Readers' = {c}
    BY <1>0, <2>1, <2>2 DEF HubTypes, Readers
  <2>4. HubTypeOK'
    <3>1. reader' \in [Conn -> ReaderRecord']
      <4>1. [reader[c] EXCEPT !.at = "starting"] \in ReaderRecord
        <5>1. reader[c] \in ReaderRecord
          BY <1>0 DEF HubTypes
        <5> QED BY <5>1 DEF ReaderRecord
      <4>2. reader' = [reader EXCEPT ![c] = [reader[c] EXCEPT !.at = "starting"]]
        BY <2>1
      <4>3. published' = published
        BY <1>1
      <4> QED BY <1>0, <4>1, <4>2, <4>3, PutReader
    <3>2. HubTypes'
      BY <1>0, <1>1, <1>t, <3>1 DEF HubTypes
    <3> QED BY <1>1, <2>3, <3>2 DEF HubTypeOK
  <2>5. OneReader'
    BY <2>3 DEF OneReader
  <2>6. \A r \in Conn : /\ reader'[r].inbox = <<>> /\ reader'[r].left = {}
                        /\ reader'[r].note \in Nat
    BY <1>0, <2>1, <2>2 DEF HubTypes, ReaderRecord, IdleReaders
  <2>7. \A k \in Conn : got'[k] = <<>>
    BY <1>0, <1>1, <2>2 DEF InOrder
  <2>8. IdleReaders' /\ InOrder'
    <3>1. Increasing(<<>>) /\ DOMAIN <<>> = {}
      BY DEF Increasing
    <3> QED BY <2>3, <2>6, <2>7, <3>1 DEF IdleReaders, InOrder
  <2>9. Delivered'
    <3> SUFFICES ASSUME NEW k \in Conn, conn'[k] = "open",
                        NEW n \in since'[k] + 1 .. published'
                 PROVE  n \in ToSet(got'[k]) \cup lost'
      BY DEF Delivered
    <3>1. k # c
      BY <1>1, <1>2
    <3>2. conn[k] = "open" /\ n \in since[k] + 1 .. published
      BY <1>1, <1>2, <3>1
    <3>3. n \in ToSet(got[k]) \cup lost
      BY <1>0, <2>2, <3>2 DEF Delivered, Underway
    <3> QED BY <1>1, <3>3
  <2> QED BY <1>3, <2>4, <2>5, <2>8, <2>9 DEF IInv
<1> QED BY <1>4, <1>5

\* A handler that ends, a client that leaves, stalls or goes on: no message moves.
LEMMA ClientStep ==
  ASSUME IInv, NEW c \in Conn, HandlerEnds(c) \/ Leave(c) \/ StallOrResume(c)
  PROVE  IInv'
<1>0. HubTypes /\ OneReader /\ RegistryExact /\ IdleReaders /\ InOrder /\ Delivered
  BY DEF IInv, HubTypeOK
<1>1. UNCHANGED <<subscribing, since, reader, published, breaks, got, lost>>
  BY DEF HandlerEnds, Leave, StallOrResume, Client
<1>2. /\ conn' \in [Conn -> {"new", "open", "gone", "closed", "ended"}]
      /\ \A k \in Conn : conn'[k] = "open" => conn[k] = "open"
  BY <1>0 DEF HubTypes, HandlerEnds, Leave, StallOrResume
<1>3. conns' \subseteq Conn /\ stalled' \subseteq MayStall
  BY <1>0 DEF HubTypes, HandlerEnds, Leave, StallOrResume, Unregister
<1>4. RegistryExact'
  BY <1>0 DEF HubTypes, RegistryExact, HandlerEnds, Leave, StallOrResume, Unregister
<1>5. Readers' = Readers
  BY <1>1 DEF Readers
<1>6. HubTypeOK'
  BY <1>0, <1>1, <1>2, <1>3, <1>5 DEF IInv, HubTypeOK, HubTypes, ReaderRecord
<1>7. OneReader' /\ IdleReaders' /\ InOrder'
  BY <1>0, <1>1, <1>5 DEF OneReader, IdleReaders, InOrder
<1>8. Delivered'
  BY <1>0, <1>1, <1>2, <1>5 DEF Delivered, Underway
<1> QED BY <1>4, <1>6, <1>7, <1>8 DEF IInv

-----------------------------------------------------------------------------
(* Redis and the reader.                                                   *)

\* The types of one reader.
LEMMA ReaderTypes ==
  ASSUME HubTypes, NEW r \in Conn
  PROVE  /\ reader[r].at \in {"none", "starting", "listening", "broken"}
         /\ reader[r].inbox \in Seq(1 .. published) /\ reader[r].note \in 0 .. published
         /\ reader[r].left \subseteq Conn /\ published \in Nat
         /\ Len(reader[r].inbox) \in Nat
         /\ DOMAIN reader[r].inbox = 1 .. Len(reader[r].inbox)
         /\ \A i \in DOMAIN reader[r].inbox : reader[r].inbox[i] \in 1 .. published
BY LenProperties, ElementOfSeq DEF HubTypes, ReaderRecord

\* A step of the one reader leaves the others idle; what it has to show for order
\* and delivery is about its own inbox and broadcast.
LEMMA ReaderStep ==
  ASSUME IInv, NEW r \in Readers, HubTypes',
         conns' = conns, subscribing' = subscribing, conn' = conn, since' = since,
         published' = published,
         \A s \in Conn \ {r} : reader'[s] = reader[s],
         reader'[r].at # "none",
         reader'[r].left # {} => reader'[r].note # 0,
         Increasing(reader'[r].inbox),
         \A i \in DOMAIN reader'[r].inbox : reader'[r].note < reader'[r].inbox[i],
         \A c \in Conn : Increasing(got'[c]),
         \A c \in Conn : \A i \in DOMAIN got'[c] :
            /\ got'[c][i] <= reader'[r].note
            /\ c \in reader'[r].left => got'[c][i] < reader'[r].note,
         \A c \in Conn, n \in 1 .. published :
            /\ n \in lost => n \in lost'
            /\ n \in ToSet(got[c]) => n \in ToSet(got'[c])
            /\ n \in ToSet(reader[r].inbox) =>
                 \/ n \in lost' \cup ToSet(reader'[r].inbox)
                 \/ n = reader'[r].note /\ (conn[c] = "open" => c \in reader'[r].left)
            /\ n = reader[r].note /\ c \in reader[r].left /\ conn[c] = "open" =>
                 \/ n \in ToSet(got'[c])
                 \/ n = reader'[r].note /\ c \in reader'[r].left
  PROVE  IInv'
<1>0. HubTypes /\ OneReader /\ RegistryExact /\ IdleReaders /\ InOrder /\ Delivered
  BY DEF IInv, HubTypeOK
<1>1. Readers = {r} /\ r \in Conn
  BY <1>0 DEF OneReader, Readers
<1>2. Readers' = {r}
  BY <1>1 DEF Readers
<1>3. HubTypeOK'
  BY <1>1, <1>2 DEF IInv, HubTypeOK
<1>4. OneReader' /\ RegistryExact'
  BY <1>0, <1>2 DEF OneReader, RegistryExact
<1>5. IdleReaders'
  BY <1>0, <1>1, <1>2 DEF IdleReaders, Readers
<1>6. InOrder'
  BY <1>2 DEF InOrder
<1>7. Delivered'
  <2> SUFFICES ASSUME NEW c \in Conn, conn[c] = "open", NEW n \in since[c] + 1 .. published
               PROVE  n \in ToSet(got'[c]) \cup lost' \/ Underway(n, c)'
    BY DEF Delivered
  <2>1. n \in 1 .. published
    BY <1>0 DEF HubTypes
  <2>2. n \in ToSet(got[c]) \cup lost \/ Underway(n, c)
    BY <1>0 DEF Delivered
  <2>3. CASE n \in ToSet(got[c]) \cup lost
    BY <2>1, <2>3
  <2>4. CASE Underway(n, c)
    <3>1. n \in ToSet(reader[r].inbox) \/ (n = reader[r].note /\ c \in reader[r].left)
      BY <1>1, <2>4 DEF Underway
    <3>2. \/ n \in ToSet(got'[c]) \cup lost' \cup ToSet(reader'[r].inbox)
          \/ n = reader'[r].note /\ c \in reader'[r].left
      BY <2>1, <3>1
    <3> QED BY <1>2, <3>2 DEF Underway
  <2> QED BY <2>2, <2>3, <2>4
<1> QED BY <1>3, <1>4, <1>5, <1>6, <1>7 DEF IInv

\* What InOrder says of a reader.
LEMMA OrderOfReader ==
  ASSUME IInv, NEW r \in Readers
  PROVE  /\ reader[r].left # {} => reader[r].note # 0
         /\ Increasing(reader[r].inbox)
         /\ \A i \in DOMAIN reader[r].inbox : reader[r].note < reader[r].inbox[i]
         /\ \A c \in Conn : Increasing(got[c])
         /\ \A c \in Conn : \A i \in DOMAIN got[c] :
              /\ got[c][i] <= reader[r].note
              /\ c \in reader[r].left => got[c][i] < reader[r].note
BY DEF IInv, InOrder, IdleReaders, Readers

\* SUBSCRIBE moves no message.
LEMMA SubscribeStep ==
  ASSUME IInv, NEW r \in Conn, Subscribe(r)
  PROVE  IInv'
<1>0. HubTypes /\ r \in Readers
  BY DEF IInv, HubTypeOK, Subscribe, Readers
<1>1. reader' = [reader EXCEPT ![r].at = "listening"]
  BY DEF Subscribe
<1>2. UNCHANGED <<conns, subscribing, conn, stalled, since, published, breaks, got, lost>>
  BY DEF Subscribe, Pubsub
<1>3. HubTypes'
  <2> DEFINE x == [reader[r] EXCEPT !.at = "listening"]
  <2>1. reader[r] \in ReaderRecord
    BY <1>0 DEF HubTypes
  <2>2. x \in ReaderRecord
    BY <2>1 DEF ReaderRecord
  <2>3. reader' = [reader EXCEPT ![r] = x]
    BY <1>1
  <2> HIDE DEF x
  <2>4. reader' \in [Conn -> ReaderRecord']
    BY <1>0, <1>2, <2>2, <2>3, PutReader
  <2> QED BY <1>0, <1>2, <2>4 DEF HubTypes
<1>4. /\ \A s \in Conn \ {r} : reader'[s] = reader[s]
      /\ reader'[r].at # "none" /\ reader'[r].inbox = reader[r].inbox
      /\ reader'[r].note = reader[r].note /\ reader'[r].left = reader[r].left
  BY <1>0, <1>1 DEF HubTypes
<1> QED BY <1>0, <1>2, <1>3, <1>4, OrderOfReader, ReaderStep

\* What the Go channel already held is kept, the rest is counted as lost.
LEMMA ConnectionLostStep ==
  ASSUME IInv, NEW r \in Conn, ConnectionLost(r)
  PROVE  IInv'
<1>0. HubTypes /\ r \in Readers
  BY DEF IInv, HubTypeOK, ConnectionLost, Readers
<1> DEFINE s == reader[r].inbox
<1>1. PICK kept \in 0 .. Len(s) :
        /\ reader' = [reader EXCEPT ![r].at = "broken", ![r].inbox = SubSeq(@, 1, kept)]
        /\ lost' = lost \cup {s[i] : i \in kept + 1 .. Len(s)}
  BY DEF ConnectionLost
<1>2. UNCHANGED <<conns, subscribing, conn, stalled, since, published, got>> /\ breaks' = breaks + 1
  BY DEF ConnectionLost, Pubsub
<1>3. /\ s \in Seq(1 .. published) /\ Len(s) \in Nat /\ published \in Nat /\ DOMAIN s = 1 .. Len(s)
      /\ \A i \in 1 .. Len(s) : s[i] \in 1 .. published
  BY <1>0, ReaderTypes
<1> DEFINE t == SubSeq(s, 1, kept)
           x == [reader[r] EXCEPT !.at = "broken", !.inbox = t]
<1>4. t \in Seq(1 .. published) /\ DOMAIN t = 1 .. kept /\ \A i \in 1 .. kept : t[i] = s[i]
  <2>1. 1 \in 1 .. Len(s) + 1 /\ kept \in 1 - 1 .. Len(s) /\ kept - 1 + 1 = kept
    BY <1>3
  <2>2. \A i \in 1 .. kept : 1 + i - 1 = i
    BY <1>3
  <2>3. t \in Seq(1 .. published) /\ DOMAIN t = 1 .. kept - 1 + 1
        /\ \A i \in 1 .. kept - 1 + 1 : t[i] = s[1 + i - 1]
    BY <1>3, <2>1, CutOut
  <2> QED BY <2>1, <2>2, <2>3
<1>5. reader' = [reader EXCEPT ![r] = x]
  BY <1>1
<1> HIDE DEF t
<1>6. /\ x \in ReaderRecord /\ x.at = "broken" /\ x.inbox = t
      /\ x.note = reader[r].note /\ x.left = reader[r].left
  <2>1. reader[r] \in ReaderRecord
    BY <1>0 DEF HubTypes
  <2> HIDE DEF s
  <2> QED BY <1>4, <2>1 DEF ReaderRecord
<1> HIDE DEF x
<1>7. /\ reader' \in [Conn -> ReaderRecord'] /\ reader'[r] = x
      /\ \A q \in Conn \ {r} : reader'[q] = reader[q]
  BY <1>0, <1>2, <1>5, <1>6, PutReader
<1> HIDE DEF s
<1>8. lost' \subseteq 1 .. published /\ lost \subseteq lost'
  BY <1>0, <1>1, <1>3 DEF HubTypes
<1>9. HubTypes'
  BY <1>0, <1>2, <1>7, <1>8 DEF HubTypes
<1>10. Increasing(s) /\ (\A i \in DOMAIN s : reader[r].note < s[i])
  BY <1>0, OrderOfReader DEF s
<1>11. Increasing(t) /\ \A i \in DOMAIN t : reader[r].note < t[i]
  BY <1>3, <1>4, <1>10 DEF Increasing
<1>12. \A n \in ToSet(s) : n \in lost' \cup ToSet(t)
  <2> SUFFICES ASSUME NEW i \in 1 .. Len(s) PROVE s[i] \in lost' \cup ToSet(t)
    BY <1>3 DEF ToSet
  <2>1. CASE i <= kept
    <3>1. i \in DOMAIN t /\ t[i] = s[i]
      BY <1>3, <1>4, <2>1
    <3> QED BY <3>1 DEF ToSet
  <2>2. CASE ~(i <= kept)
    <3>1. i \in kept + 1 .. Len(s)
      BY <1>3, <2>2
    <3> QED BY <1>1, <3>1
  <2> QED BY <2>1, <2>2
<1>13. /\ reader'[r].at # "none" /\ reader'[r].inbox = t
       /\ reader'[r].note = reader[r].note /\ reader'[r].left = reader[r].left
  BY <1>6, <1>7
<1> QED BY <1>0, <1>2, <1>7, <1>8, <1>9, <1>11, <1>12, <1>13, OrderOfReader, ReaderStep DEF s

\* The message that found the Go channel full is counted as lost.
LEMMA DropOverflowStep ==
  ASSUME IInv, NEW r \in Conn, DropOverflow(r)
  PROVE  IInv'
<1> DEFINE s == reader[r].inbox
           k == ChanSize + 1
           t == RemoveAt(s, k)
           x == [reader[r] EXCEPT !.inbox = t]
<1>0. HubTypes /\ IdleReaders
  BY DEF IInv, HubTypeOK
<1>1. /\ Len(s) > ChanSize /\ reader' = [reader EXCEPT ![r].inbox = RemoveAt(@, ChanSize + 1)]
      /\ lost' = lost \cup {s[k]}
  BY DEF DropOverflow
<1>2. UNCHANGED <<conns, subscribing, conn, stalled, since, published, breaks, got>>
  BY DEF DropOverflow, Pubsub
<1>3. /\ s \in Seq(1 .. published) /\ Len(s) \in Nat /\ published \in Nat /\ DOMAIN s = 1 .. Len(s)
      /\ \A i \in 1 .. Len(s) : s[i] \in 1 .. published
  BY <1>0, ReaderTypes
<1>4. k \in 1 .. Len(s)
  BY <1>1, <1>3, WsHubAssumption
<1>5. r \in Readers
  <2>1. <<>> \in Seq(1 .. published) /\ Len(<<>>) = 0
    OBVIOUS
  <2>2. s # <<>>
    BY <1>3, <1>4, <2>1
  <2> QED BY <1>0, <2>2 DEF IdleReaders
<1>6. /\ t \in Seq(1 .. published) /\ ToSet(s) = ToSet(t) \cup {s[k]}
      /\ Increasing(s) => Increasing(t)
  BY <1>3, <1>4, LeaveOut
<1>7. reader' = [reader EXCEPT ![r] = x]
  BY <1>1
<1> HIDE DEF t, k
<1>8. /\ x \in ReaderRecord /\ x.at = reader[r].at /\ x.inbox = t
      /\ x.note = reader[r].note /\ x.left = reader[r].left
  <2>1. reader[r] \in ReaderRecord
    BY <1>0 DEF HubTypes
  <2> HIDE DEF s
  <2> QED BY <1>6, <2>1 DEF ReaderRecord
<1> HIDE DEF x
<1>9. /\ reader' \in [Conn -> ReaderRecord'] /\ reader'[r] = x
      /\ \A q \in Conn \ {r} : reader'[q] = reader[q]
  BY <1>0, <1>2, <1>7, <1>8, PutReader
<1> HIDE DEF s
<1>10. lost' \subseteq 1 .. published /\ lost \subseteq lost'
  BY <1>0, <1>1, <1>3, <1>4 DEF HubTypes
<1>11. HubTypes'
  BY <1>0, <1>2, <1>9, <1>10 DEF HubTypes
<1>12. Increasing(s) /\ \A i \in DOMAIN s : reader[r].note < s[i]
  BY <1>5, OrderOfReader DEF s
<1>13. \A i \in DOMAIN t : reader[r].note < t[i]
  <2>1. \A n \in ToSet(s) : reader[r].note < n
    BY <1>12 DEF ToSet
  <2>2. ToSet(t) \subseteq ToSet(s)
    BY <1>6
  <2> QED BY <2>1, <2>2 DEF ToSet
<1>14. \A n \in ToSet(s) : n \in lost' \cup ToSet(t)
  BY <1>1, <1>6
<1>15. /\ reader'[r].at # "none" /\ reader'[r].inbox = t
       /\ reader'[r].note = reader[r].note /\ reader'[r].left = reader[r].left
  BY <1>5, <1>8, <1>9 DEF Readers
<1> QED BY <1>2, <1>5, <1>6, <1>9, <1>10, <1>11, <1>12, <1>13, <1>14, <1>15, OrderOfReader, ReaderStep DEF s

\* The broadcast begins with every connection that is watched, the open ones among them.
LEMMA TakeStep ==
  ASSUME IInv, NEW r \in Conn, Take(r)
  PROVE  IInv'
<1> DEFINE s == reader[r].inbox
           x == [reader[r] EXCEPT !.note = Head(s), !.left = conns, !.inbox = Tail(s)]
<1>0. HubTypes /\ IdleReaders /\ RegistryExact
  BY DEF IInv, HubTypeOK
<1>1. reader[r].left = {} /\ s # <<>>
  BY DEF Take
<1>2. UNCHANGED <<conns, subscribing, conn, stalled, since, published, breaks, got, lost>>
  BY DEF Take, Pubsub
<1>3. s \in Seq(1 .. published) /\ published \in Nat /\ conns \subseteq Conn
  BY <1>0, ReaderTypes DEF HubTypes
<1>4. r \in Readers
  BY <1>0, <1>1 DEF IdleReaders
<1>5. /\ Head(s) \in 1 .. published /\ Tail(s) \in Seq(1 .. published)
      /\ ToSet(s) = ToSet(Tail(s)) \cup {Head(s)}
      /\ Increasing(s) => /\ Increasing(Tail(s))
                          /\ \A i \in DOMAIN Tail(s) : Head(s) < Tail(s)[i]
  BY <1>1, <1>3, TakeFirst
<1>6. reader' = [reader EXCEPT ![r] = x]
  BY DEF Take
<1>7. /\ x \in ReaderRecord /\ x.at = reader[r].at /\ x.inbox = Tail(s)
      /\ x.note = Head(s) /\ x.left = conns
  <2>1. reader[r] \in ReaderRecord
    BY <1>0 DEF HubTypes
  <2> HIDE DEF s
  <2>2. /\ Head(s) \in 0 .. published /\ Tail(s) \in Seq(1 .. published)
        /\ conns \in SUBSET Conn
    BY <1>3, <1>5
  <2> QED BY <2>1, <2>2 DEF ReaderRecord
<1> HIDE DEF x
<1>8. /\ reader' \in [Conn -> ReaderRecord'] /\ reader'[r] = x
      /\ \A q \in Conn \ {r} : reader'[q] = reader[q]
  BY <1>0, <1>2, <1>6, <1>7, PutReader
<1> HIDE DEF s
<1>9. HubTypes'
  BY <1>0, <1>2, <1>8 DEF HubTypes
<1>10. Increasing(s) /\ (\A i \in DOMAIN s : reader[r].note < s[i])
  BY <1>4, OrderOfReader DEF s
<1>11. reader[r].note < Head(s) /\ reader[r].note \in 0 .. published
  <2>1. Head(s) \in ToSet(s)
    BY <1>5
  <2> QED BY <1>0, <1>10, <2>1, ReaderTypes DEF ToSet
<1>12. \A c \in Conn : \A i \in DOMAIN got[c] : got[c][i] \in 1 .. published /\ got[c][i] < Head(s)
  <2> SUFFICES ASSUME NEW c \in Conn, NEW i \in DOMAIN got[c]
               PROVE  got[c][i] \in 1 .. published /\ got[c][i] < Head(s)
    OBVIOUS
  <2>1. got[c][i] \in 1 .. published
    BY <1>0, ElementOfSeq, LenProperties DEF HubTypes
  <2>2. got[c][i] <= reader[r].note
    BY <1>4, OrderOfReader
  <2> QED BY <1>3, <1>5, <1>11, <2>1, <2>2
<1>13. /\ reader'[r].at # "none" /\ reader'[r].inbox = Tail(s)
       /\ reader'[r].note = Head(s) /\ reader'[r].left = conns /\ Head(s) # 0
  BY <1>3, <1>4, <1>5, <1>7, <1>8 DEF Readers
<1>14. \A c \in Conn : \A i \in DOMAIN got'[c] :
         got'[c][i] <= reader'[r].note /\ got'[c][i] < reader'[r].note
  BY <1>2, <1>3, <1>5, <1>12, <1>13
<1>15. \A c \in Conn : conn[c] = "open" => c \in conns
  BY <1>0 DEF RegistryExact
<1>16. \A c \in Conn : Increasing(got'[c])
  BY <1>2, <1>4, OrderOfReader
<1>17. \A c \in Conn, n \in 1 .. published :
         n \in ToSet(reader[r].inbox) =>
           \/ n \in lost' \cup ToSet(reader'[r].inbox)
           \/ n = reader'[r].note /\ (conn[c] = "open" => c \in reader'[r].left)
  BY <1>5, <1>13, <1>15 DEF s
<1>18. /\ Increasing(reader'[r].inbox) /\ (reader'[r].left # {} => reader'[r].note # 0)
       /\ \A i \in DOMAIN reader'[r].inbox : reader'[r].note < reader'[r].inbox[i]
  BY <1>5, <1>10, <1>13
<1>19. reader[r].left = {} /\ reader'[r].at # "none" /\ got' = got /\ lost' = lost
  BY <1>1, <1>2, <1>13
<1> QED BY <1>2, <1>4, <1>8, <1>9, <1>14, <1>16, <1>17, <1>18, <1>19, ReaderStep

\* One connection less to write to: an open one has the notification now.
LEMMA WriteStep ==
  ASSUME IInv, NEW r \in Conn, NEW c \in Conn, Write(r, c)
  PROVE  IInv'
<1> DEFINE note == reader[r].note
           x == [reader[r] EXCEPT !.left = @ \ {c}]
<1>0. HubTypes /\ IdleReaders
  BY DEF IInv, HubTypeOK
<1>1. /\ c \in reader[r].left /\ conn[c] \in {"open", "gone"}
      /\ got' = IF conn[c] = "open" THEN [got EXCEPT ![c] = Append(@, note)] ELSE got
  BY DEF Write
<1>2. UNCHANGED <<conns, subscribing, conn, stalled, since, published, breaks, lost>>
  BY DEF Write, Pubsub
<1>3. r \in Readers /\ note \in 1 .. published /\ published \in Nat
  BY <1>0, <1>1, ReaderTypes DEF IdleReaders
<1>4. reader' = [reader EXCEPT ![r] = x]
  BY DEF Write, Written
<1>5. /\ x \in ReaderRecord /\ x.at = reader[r].at /\ x.inbox = reader[r].inbox
      /\ x.note = note /\ x.left = reader[r].left \ {c}
  <2>1. reader[r] \in ReaderRecord
    BY <1>0 DEF HubTypes
  <2> QED BY <2>1 DEF ReaderRecord
<1> HIDE DEF x
<1>6. /\ reader' \in [Conn -> ReaderRecord'] /\ reader'[r] = x
      /\ \A q \in Conn \ {r} : reader'[q] = reader[q]
  BY <1>0, <1>2, <1>4, <1>5, PutReader
<1>7. /\ reader'[r].at # "none" /\ reader'[r].inbox = reader[r].inbox
      /\ reader'[r].note = note /\ reader'[r].left = reader[r].left \ {c}
  BY <1>3, <1>5, <1>6 DEF Readers
<1>8. /\ \A k \in Conn : got[k] \in Seq(1 .. published)
      /\ \A k \in Conn : Increasing(got[k])
      /\ \A k \in Conn : \A i \in DOMAIN got[k] :
           got[k][i] <= note /\ (k \in reader[r].left => got[k][i] < note)
  BY <1>0, <1>3, OrderOfReader DEF HubTypes
<1> HIDE DEF note
<1>9. /\ \A k \in Conn \ {c} : got'[k] = got[k]
      /\ got'[c] = IF conn[c] = "open" THEN Append(got[c], note) ELSE got[c]
  BY <1>0, <1>1 DEF HubTypes
<1>10. /\ Append(got[c], note) \in Seq(1 .. published)
       /\ ToSet(Append(got[c], note)) = ToSet(got[c]) \cup {note}
       /\ Increasing(Append(got[c], note))
       /\ \A i \in DOMAIN Append(got[c], note) : Append(got[c], note)[i] <= note
  <2>1. \A i \in DOMAIN got[c] : got[c][i] < note
    BY <1>1, <1>8
  <2>2. /\ Append(got[c], note) \in Seq(1 .. published)
        /\ ToSet(Append(got[c], note)) = ToSet(got[c]) \cup {note}
        /\ \A i \in DOMAIN Append(got[c], note) : Append(got[c], note)[i] \in ToSet(got[c]) \cup {note}
        /\ Increasing(Append(got[c], note))
    <3>1. got[c] \in Seq(1 .. published) /\ Increasing(got[c])
      BY <1>8
    <3>2. published \in Nat /\ note \in 1 .. published
      BY <1>3 DEF note
    <3> QED BY <2>1, <3>1, <3>2, AddLast
  <2>3. \A n \in ToSet(got[c]) \cup {note} : n <= note
    BY <1>3, <1>8 DEF ToSet
  <2> QED BY <2>2, <2>3
<1>11. \A k \in Conn : got'[k] \in Seq(1 .. published) /\ Increasing(got'[k])
  BY <1>8, <1>9, <1>10
<1>12. HubTypes'
  <2>1. got' \in [Conn -> Seq(1 .. published)]
    <3>1. got' = [k \in Conn |-> got'[k]]
      BY <1>0, <1>1 DEF HubTypes
    <3> QED BY <1>11, <3>1
  <2> QED BY <1>0, <1>2, <1>6, <2>1 DEF HubTypes
<1>13. \A k \in Conn : \A i \in DOMAIN got'[k] :
         /\ got'[k][i] <= reader'[r].note
         /\ k \in reader'[r].left => got'[k][i] < reader'[r].note
  BY <1>7, <1>8, <1>9, <1>10
<1>14. \A k \in Conn, n \in 1 .. published :
         /\ n \in ToSet(got[k]) => n \in ToSet(got'[k])
         /\ n = reader[r].note /\ k \in reader[r].left /\ conn[k] = "open" =>
              n \in ToSet(got'[k]) \/ (n = reader'[r].note /\ k \in reader'[r].left)
  BY <1>7, <1>9, <1>10 DEF note
<1>15. /\ reader'[r].left # {} => reader'[r].note # 0
       /\ Increasing(reader'[r].inbox)
       /\ \A i \in DOMAIN reader'[r].inbox : reader'[r].note < reader'[r].inbox[i]
  BY <1>3, <1>7, OrderOfReader DEF note
<1> QED BY <1>2, <1>3, <1>6, <1>7, <1>11, <1>12, <1>13, <1>14, <1>15, ReaderStep

\* A connection that is not open is unregistered and closed: no open one is touched.
LEMMA WriteFailsStep ==
  ASSUME IInv, NEW r \in Conn, NEW c \in Conn, WriteFails(r, c)
  PROVE  IInv'
<1> DEFINE x == [reader[r] EXCEPT !.left = @ \ {c}]
<1>0. HubTypes /\ OneReader /\ RegistryExact /\ IdleReaders /\ InOrder /\ Delivered
  BY DEF IInv, HubTypeOK
<1>1. /\ c \in reader[r].left /\ conn[c] \in {"gone", "closed", "ended"}
      /\ conns' = conns \ {c} /\ conn' = [conn EXCEPT ![c] = IF @ = "ended" THEN @ ELSE "closed"]
      /\ UNCHANGED <<subscribing, stalled, published, breaks, got, since, lost>>
  BY DEF WriteFails, Unregister
<1>2. reader' = [reader EXCEPT ![r] = x]
  BY DEF WriteFails, Written
<1>3. /\ x \in ReaderRecord /\ x.at = reader[r].at /\ x.inbox = reader[r].inbox
      /\ x.note = reader[r].note /\ x.left = reader[r].left \ {c}
  <2>1. reader[r] \in ReaderRecord
    BY <1>0 DEF HubTypes
  <2> QED BY <2>1 DEF ReaderRecord
<1> HIDE DEF x
<1>4. reader' \in [Conn -> ReaderRecord'] /\ reader'[r] = x
      /\ \A q \in Conn \ {r} : reader'[q] = reader[q]
  BY <1>0, <1>1, <1>2, <1>3, PutReader
<1>5. \A q \in Conn : /\ reader'[q].at = reader[q].at /\ reader'[q].inbox = reader[q].inbox
                      /\ reader'[q].note = reader[q].note
                      /\ reader'[q].left \subseteq reader[q].left
                      /\ reader[q].left \ {c} \subseteq reader'[q].left
  BY <1>3, <1>4
<1>6. Readers' = Readers
  BY <1>5 DEF Readers
<1>7. /\ conn' \in [Conn -> {"new", "open", "gone", "closed", "ended"}]
      /\ \A k \in Conn : conn'[k] = "open" => conn[k] = "open" /\ k # c
  BY <1>0, <1>1 DEF HubTypes
<1>8. HubTypeOK'
  <2>1. HubTypes'
    BY <1>0, <1>1, <1>4, <1>7 DEF HubTypes
  <2> QED BY <1>1, <1>6, <2>1 DEF IInv, HubTypeOK
<1>9. OneReader' /\ RegistryExact'
  BY <1>0, <1>1, <1>6 DEF OneReader, RegistryExact, HubTypes
<1>10. IdleReaders'
  BY <1>0, <1>5, <1>6 DEF IdleReaders
<1>11. InOrder'
  <2>1. \A q \in Conn : q \in Readers => q \in Readers'
    BY <1>6
  <2> QED BY <1>0, <1>1, <1>5, <1>6 DEF InOrder, Readers
<1>12. Delivered'
  <2> SUFFICES ASSUME NEW k \in Conn, conn'[k] = "open", NEW n \in since[k] + 1 .. published
               PROVE  n \in ToSet(got[k]) \cup lost \/ Underway(n, k)'
    BY <1>1 DEF Delivered
  <2>1. conn[k] = "open" /\ k # c
    BY <1>7
  <2>2. n \in ToSet(got[k]) \cup lost \/ Underway(n, k)
    BY <1>0, <2>1 DEF Delivered
  <2>3. ASSUME Underway(n, k) PROVE Underway(n, k)'
    <3>1. PICK q \in Readers :
            n \in ToSet(reader[q].inbox) \/ (n = reader[q].note /\ k \in reader[q].left)
      BY <2>3 DEF Underway
    <3>2. q \in Conn /\ q \in Readers'
      BY <1>6 DEF Readers
    <3>3. n \in ToSet(reader'[q].inbox) \/ (n = reader'[q].note /\ k \in reader'[q].left)
      BY <1>5, <2>1, <3>1, <3>2
    <3> QED BY <3>2, <3>3 DEF Underway
  <2> QED BY <2>2, <2>3
<1> QED BY <1>8, <1>9, <1>10, <1>11, <1>12 DEF IInv

\* What is published goes to the subscription's end, or is counted as lost.
LEMMA PublishNoteStep ==
  ASSUME IInv, PublishNote
  PROVE  IInv'
<1> DEFINE In(q) == reader[q].inbox
           Out(q) == reader'[q].inbox
<1>0. HubTypes /\ OneReader /\ RegistryExact /\ IdleReaders /\ InOrder /\ Delivered
  BY DEF IInv, HubTypeOK
<1>1. /\ published' = published + 1 /\ published \in Nat
      /\ reader' = [q \in Conn |-> IF q \in Listening
                                   THEN [reader[q] EXCEPT !.inbox = Append(@, published')]
                                   ELSE reader[q]]
      /\ lost' = IF Listening = {} THEN lost \cup {published'} ELSE lost
      /\ UNCHANGED <<conns, subscribing, conn, stalled, since, breaks, got>>
  BY <1>0 DEF PublishNote, Pubsub, HubTypes
<1>2. /\ 1 .. published \subseteq 1 .. published' /\ published' \in 1 .. published' /\ published' \in Nat
      /\ \A s \in Seq(1 .. published) : s \in Seq(1 .. published')
  <2>1. /\ 1 .. published \subseteq 1 .. published' /\ published' \in 1 .. published' /\ published' \in Nat
    BY <1>1
  <2>2. \A s \in Seq(1 .. published) : s \in Seq(1 .. published')
    BY <2>1, SeqMonotonic
  <2> QED BY <2>1, <2>2
<1>3. ASSUME NEW q \in Conn
      PROVE  /\ In(q) \in Seq(1 .. published) /\ reader[q].note \in 0 .. published
             /\ reader'[q].at = reader[q].at /\ reader'[q].note = reader[q].note
             /\ reader'[q].left = reader[q].left
             /\ Out(q) = IF q \in Listening THEN Append(In(q), published') ELSE In(q)
             /\ reader[q].left \in SUBSET Conn
             /\ reader[q].at \in {"none", "starting", "listening", "broken"}
             /\ reader'[q] = [at |-> reader[q].at, inbox |-> Out(q), note |-> reader[q].note, left |-> reader[q].left]
  <2>1. reader[q] \in ReaderRecord
    BY <1>0 DEF HubTypes
  <2>2. reader'[q] = IF q \in Listening THEN [reader[q] EXCEPT !.inbox = Append(@, published')]
                                        ELSE reader[q]
    BY <1>1
  <2> QED BY <2>1, <2>2 DEF ReaderRecord
<1>4. Readers' = Readers
  BY <1>3 DEF Readers
<1> HIDE DEF In, Out
<1>5. ASSUME NEW q \in Conn
      PROVE  /\ Out(q) \in Seq(1 .. published') /\ ToSet(In(q)) \subseteq ToSet(Out(q))
             /\ q \in Listening => published' \in ToSet(Out(q))
             /\ Increasing(In(q)) => Increasing(Out(q))
             /\ (\A i \in DOMAIN In(q) : reader[q].note < In(q)[i]) =>
                   \A i \in DOMAIN Out(q) : reader[q].note < Out(q)[i]
  <2>1. CASE q \notin Listening
    BY <1>2, <1>3, <2>1
  <2>2. CASE q \in Listening
    <3>1. Out(q) = Append(In(q), published') /\ In(q) \in Seq(1 .. published')
      BY <1>2, <1>3, <2>2
    <3>2. \A i \in DOMAIN In(q) : In(q)[i] \in 1 .. published /\ In(q)[i] < published'
      <4>1. In(q) \in Seq(1 .. published)
        BY <1>3
      <4>2. \A i \in DOMAIN In(q) : In(q)[i] \in 1 .. published
        BY <4>1, LenProperties, ElementOfSeq
      <4> QED BY <1>1, <4>2
    <3>3. /\ Out(q) \in Seq(1 .. published') /\ ToSet(Out(q)) = ToSet(In(q)) \cup {published'}
          /\ \A i \in DOMAIN Out(q) : Out(q)[i] \in ToSet(In(q)) \cup {published'}
          /\ Increasing(In(q)) => Increasing(Out(q))
      BY <1>2, <3>1, <3>2, AddLast
    <3>4. ASSUME \A i \in DOMAIN In(q) : reader[q].note < In(q)[i]
          PROVE  \A n \in ToSet(In(q)) \cup {published'} : reader[q].note < n
      <4>1. reader[q].note < published'
        <5>1. reader[q].note \in 0 .. published
          BY <1>3
        <5> QED BY <1>1, <5>1
      <4> QED BY <3>4, <4>1 DEF ToSet
    <3> QED BY <3>3, <3>4
  <2> QED BY <2>1, <2>2
<1>6. HubTypeOK'
  <2>1. reader' \in [Conn -> ReaderRecord']
    <3>1. ASSUME NEW q \in Conn PROVE reader'[q] \in ReaderRecord'
      <4>1. reader[q].note \in 0 .. published'
        <5>1. reader[q].note \in 0 .. published
          BY <1>3
        <5> QED BY <1>1, <5>1
      <4>2. Out(q) \in Seq(1 .. published')
        BY <1>5
      <4>3. ReaderRecord' = [at : {"none", "starting", "listening", "broken"},
                             inbox : Seq(1 .. published'), note : 0 .. published', left : SUBSET Conn]
        BY DEF ReaderRecord
      <4>4. /\ reader[q].left \in SUBSET Conn
            /\ reader[q].at \in {"none", "starting", "listening", "broken"}
            /\ reader'[q] = [at |-> reader[q].at, inbox |-> Out(q),
                             note |-> reader[q].note, left |-> reader[q].left]
        BY <1>3
      <4> QED BY <4>1, <4>2, <4>3, <4>4
    <3>2. reader' = [q \in Conn |-> reader'[q]]
      BY <1>1
    <3> QED BY <3>1, <3>2
  <2>2. got' \in [Conn -> Seq(1 .. published')]
    BY <1>0, <1>1, <1>2 DEF HubTypes
  <2>3. since' \in [Conn -> 0 .. published'] /\ lost' \subseteq 1 .. published'
    BY <1>0, <1>1, <1>2 DEF HubTypes
  <2>4. HubTypes'
    BY <1>0, <1>1, <1>2, <2>1, <2>2, <2>3 DEF HubTypes
  <2> QED BY <1>1, <1>4, <2>4 DEF IInv, HubTypeOK
<1>7. OneReader' /\ RegistryExact'
  BY <1>0, <1>1, <1>4 DEF OneReader, RegistryExact
<1>8. IdleReaders'
  <2>1. \A q \in Conn \ Readers : Out(q) = In(q)
    BY <1>3 DEF Listening, Readers
  <2> QED BY <1>0, <1>3, <1>4, <2>1 DEF IdleReaders, In, Out
<1>9. InOrder'
  <2>1. ASSUME NEW q \in Readers
        PROVE  /\ Increasing(Out(q))
               /\ \A i \in DOMAIN Out(q) : reader'[q].note < Out(q)[i]
               /\ \A c \in Conn : \A i \in DOMAIN got'[c] :
                    /\ got'[c][i] <= reader'[q].note
                    /\ c \in reader'[q].left => got'[c][i] < reader'[q].note
    <3>1. q \in Conn
      BY DEF Readers
    <3>2. Increasing(In(q)) /\ \A i \in DOMAIN In(q) : reader[q].note < In(q)[i]
      BY OrderOfReader DEF In
    <3>3. Increasing(Out(q)) /\ \A i \in DOMAIN Out(q) : reader'[q].note < Out(q)[i]
      BY <1>3, <1>5, <3>1, <3>2
    <3> QED BY <1>1, <1>3, <3>1, <3>3, OrderOfReader
  <2>2. \A c \in Conn : Increasing(got'[c]) /\ (Readers' = {} => got'[c] = <<>>)
    BY <1>0, <1>1, <1>4 DEF InOrder
  <2> QED BY <1>4, <2>1, <2>2 DEF InOrder, Out
<1>10. Delivered'
  <2> SUFFICES ASSUME NEW c \in Conn, conn[c] = "open", NEW n \in since[c] + 1 .. published'
               PROVE  n \in ToSet(got[c]) \cup lost' \/ Underway(n, c)'
    BY <1>1 DEF Delivered
  <2>1. CASE n = published'
    <3>1. CASE Listening = {}
      BY <1>1, <2>1, <3>1
    <3>2. CASE Listening # {}
      <4>1. PICK q \in Listening : TRUE
        BY <3>2
      <4>2. q \in Conn /\ q \in Readers'
        BY <1>4, <4>1 DEF Listening, Readers
      <4>3. n \in ToSet(Out(q))
        BY <1>5, <2>1, <4>1, <4>2
      <4> QED BY <4>2, <4>3 DEF Underway, Out
    <3> QED BY <3>1, <3>2
  <2>2. CASE n # published'
    <3>1. n \in since[c] + 1 .. published
      BY <1>0, <1>1, <2>2 DEF HubTypes
    <3>2. n \in ToSet(got[c]) \cup lost \/ Underway(n, c)
      BY <1>0, <3>1 DEF Delivered
    <3>3. ASSUME Underway(n, c) PROVE Underway(n, c)'
      <4>1. PICK q \in Readers : n \in ToSet(In(q)) \/ (n = reader[q].note /\ c \in reader[q].left)
        BY <3>3 DEF Underway, In
      <4>2. q \in Conn /\ q \in Readers'
        BY <1>4 DEF Readers
      <4>3. n \in ToSet(Out(q)) \/ (n = reader'[q].note /\ c \in reader'[q].left)
        BY <1>3, <1>5, <4>1, <4>2
      <4> QED BY <4>2, <4>3 DEF Underway, Out
    <3> QED BY <1>1, <3>2, <3>3
  <2> QED BY <2>1, <2>2
<1> QED BY <1>6, <1>7, <1>8, <1>9, <1>10 DEF IInv

-----------------------------------------------------------------------------
(* The composition.                                                        *)

\* A step of the composition is one of the hub or leaves it alone.
LEMMA NextIsHub == [Next]_vars => HubNext \/ UNCHANGED hubVars
BY DEF Next, vars, HubNext, HandOn

\* A step that leaves the hub alone.
LEMMA IdleStep == IInv /\ UNCHANGED hubVars => IInv'
<1> SUFFICES ASSUME IInv, UNCHANGED hubVars PROVE IInv'
  OBVIOUS
<1>1. UNCHANGED <<conns, subscribing, reader, conn, stalled, published, breaks, got, since, lost>>
  BY DEF hubVars
<1>2. Readers' = Readers /\ ReaderRecord' = ReaderRecord
  BY <1>1 DEF Readers, ReaderRecord
<1>3. HubTypeOK' /\ OneReader' /\ RegistryExact'
  BY <1>1, <1>2 DEF IInv, HubTypeOK, HubTypes, OneReader, RegistryExact
<1>4. IdleReaders' /\ InOrder' /\ Delivered'
  BY <1>1, <1>2 DEF IInv, IdleReaders, InOrder, Delivered, Underway
<1> QED BY <1>3, <1>4 DEF IInv

\* IInv is inductive.
LEMMA Inductive == Spec => []IInv
<1>1. Init => IInv
  BY InitIInv DEF Init
<1>2. IInv /\ [Next]_vars => IInv'
  <2> SUFFICES ASSUME IInv, HubNext PROVE IInv'
    BY NextIsHub, IdleStep
  <2>1. CASE PublishNote
    BY <2>1, PublishNoteStep
  <2>2. ASSUME NEW c \in Conn, Register(c) PROVE IInv'
    BY <2>2, RegisterStep
  <2>3. ASSUME NEW c \in Conn, HandlerEnds(c) \/ Leave(c) \/ StallOrResume(c) PROVE IInv'
    BY <2>3, ClientStep
  <2>4. ASSUME NEW r \in Conn, Subscribe(r) PROVE IInv'
    BY <2>4, SubscribeStep
  <2>5. ASSUME NEW r \in Conn, ConnectionLost(r) PROVE IInv'
    BY <2>5, ConnectionLostStep
  <2>6. ASSUME NEW r \in Conn, DropOverflow(r) PROVE IInv'
    BY <2>6, DropOverflowStep
  <2>7. ASSUME NEW r \in Conn, Take(r) PROVE IInv'
    BY <2>7, TakeStep
  <2>8. ASSUME NEW r \in Conn, NEW c \in Conn, Write(r, c) PROVE IInv'
    BY <2>8, WriteStep
  <2>9. ASSUME NEW r \in Conn, NEW c \in Conn, WriteFails(r, c) PROVE IInv'
    BY <2>9, WriteFailsStep
  <2> QED BY <2>1, <2>2, <2>3, <2>4, <2>5, <2>6, <2>7, <2>8, <2>9 DEF HubNext, HubLocal
<1> QED BY <1>1, <1>2, PTL DEF Spec

(* Hub.subscribing[channel] says that a subscribeLoop was started, whoever *)
(* registers, leaves or fails.                                             *)
THEOREM HubTypeCorrect == Spec => []HubTypeOK
<1>1. IInv => HubTypeOK
  BY DEF IInv
<1> QED BY <1>1, Inductive, PTL

(* "Each channel is subscribed to Redis exactly once": Register starts a   *)
(* second subscribeLoop for no number of watchers that come and go.        *)
THEOREM SubscribedOnce == Spec => []OneReader
<1>1. IInv => OneReader
  BY DEF IInv
<1> QED BY <1>1, Inductive, PTL

(* The three places that write Hub.conns agree with the connections.       *)
THEOREM RegistryIsExact == Spec => []RegistryExact
<1>1. IInv => RegistryExact
  BY DEF IInv
<1> QED BY <1>1, Inductive, PTL

(* broadcast and subscribeLoop skip nothing for a connection that stays    *)
(* open, send nothing twice and keep the order of publication.             *)
THEOREM NothingIsSkipped == Spec => []NothingSkipped
<1>1. IInv => NothingSkipped
  <2> SUFFICES ASSUME IInv, NEW c \in Conn, conn[c] = "open"
               PROVE  /\ IsInjective(got[c])
                      /\ \A i, j \in DOMAIN got[c] : i < j => got[c][i] < got[c][j]
                      /\ \A n \in since[c] + 1 .. published :
                           n \in ToSet(got[c]) \cup lost \/ Underway(n, c)
    BY DEF NothingSkipped
  <2>1. /\ DOMAIN got[c] = 1 .. Len(got[c]) /\ Len(got[c]) \in Nat /\ published \in Nat
        /\ \A i \in DOMAIN got[c] : got[c][i] \in 1 .. published
    BY LenProperties, ElementOfSeq DEF IInv, HubTypeOK, HubTypes
  <2>2. \A i, j \in DOMAIN got[c] : i < j => got[c][i] < got[c][j]
    BY DEF IInv, InOrder, Increasing
  <2>3. IsInjective(got[c])
    <3> SUFFICES ASSUME NEW i \in DOMAIN got[c], NEW j \in DOMAIN got[c], got[c][i] = got[c][j]
                 PROVE  i = j
      BY DEF IsInjective
    <3> QED BY <2>1, <2>2
  <2> QED BY <2>2, <2>3 DEF IInv, Delivered
<1> QED BY <1>1, Inductive, PTL

-----------------------------------------------------------------------------
(* What the notifier says.  The theorems about it alone are those of       *)
(* NotifierProofs; its two instances are over the same variables, so each  *)
(* action of the one is the action of the other.                           *)

\* The constants are a notifier's.
LEMMA SameAssumption == NP!ConstantsAssumption
BY NotifierAssumption
   DEF N!ConstantsAssumption, NP!ConstantsAssumption, N!IsFiniteSet, NP!IsFiniteSet

\* The notifier begins as it does alone.
LEMMA SameInit == N!Init => NP!Init
BY DEF N!Init, NP!Init, N!NoQueue, NP!NoQueue, N!NoMemory, NP!NoMemory, N!At, NP!At,
  N!Top, NP!Top, N!InTop, NP!InTop, N!RevRank, NP!RevRank, N!Beats, NP!Beats,
  N!Cardinality, NP!Cardinality

\* What the api does to the notifier's variables.
LEMMA SameApi == N!Api => NP!Api
<1>1. ASSUME NEW u \in User PROVE N!Score(u) => NP!Score(u)
  BY DEF N!Score, NP!Score, N!Entrants, NP!Entrants, N!ZIncrBy, NP!ZIncrBy, N!Top, NP!Top,
    N!InTop, NP!InTop, N!RevRank, NP!RevRank, N!Beats, NP!Beats, N!Cardinality,
    NP!Cardinality
<1>2. ASSUME NEW u \in User PROVE N!PublishEvent(u) => NP!PublishEvent(u)
  BY DEF N!PublishEvent, NP!PublishEvent, N!Publish, NP!Publish, N!Reaches, NP!Reaches,
    N!Misses, NP!Misses
<1>3. ASSUME NEW u \in User PROVE N!LosePublish(u) => NP!LosePublish(u)
  BY DEF N!LosePublish, NP!LosePublish, N!Fault, NP!Fault, N!Misses, NP!Misses
<1>4. N!PublishGarbage => NP!PublishGarbage
  BY DEF N!PublishGarbage, NP!PublishGarbage, N!Publish, NP!Publish, N!Cardinality,
    NP!Cardinality
<1> QED BY <1>1, <1>2, <1>3, <1>4 DEF N!Api, NP!Api

\* What the loop does with a message.
LEMMA SameBody == ASSUME NEW m PROVE N!Body(m) => NP!Body(m)
<1>1. N!DropMalformed(m) \/ N!RankFails(m) \/ N!PublishFails(m) \/ N!AckEvent(m)
        => NP!DropMalformed(m) \/ NP!RankFails(m) \/ NP!PublishFails(m) \/ NP!AckEvent(m)
  BY DEF N!DropMalformed, NP!DropMalformed, N!RankFails, NP!RankFails, N!PublishFails,
    NP!PublishFails, N!AckEvent, NP!AckEvent, N!Nack, NP!Nack, N!Ack, NP!Ack, N!Handling,
    NP!Handling, N!Settled, NP!Settled, N!At, NP!At, N!Fault, NP!Fault, N!apiVars,
    NP!apiVars
<1>2. N!ReadRank(m) => NP!ReadRank(m)
  BY DEF N!ReadRank, NP!ReadRank, N!RevRank, NP!RevRank, N!Beats, NP!Beats, N!Cardinality,
    NP!Cardinality, N!Handling, NP!Handling, N!At, NP!At, N!apiVars, NP!apiVars
<1>3. N!Decide(m) => NP!Decide(m)
  BY DEF N!Decide, NP!Decide, N!Remember, NP!Remember, N!Reason, NP!Reason, N!InTop,
    NP!InTop, N!Ack, NP!Ack, N!Handling, NP!Handling, N!Settled, NP!Settled, N!At, NP!At,
    N!apiVars, NP!apiVars
<1> QED BY <1>1, <1>2, <1>3 DEF N!Body, NP!Body

\* What it publishes.
LEMMA SameNotify == ASSUME NEW m PROVE N!Notify(m) => NP!Notify(m)
BY DEF N!Notify, NP!Notify, N!PublishNotification, NP!PublishNotification, N!PublishAgain,
  NP!PublishAgain, N!Announce, NP!Announce, N!IsEntry, NP!IsEntry, N!Reason, NP!Reason,
  N!InTop, NP!InTop, N!Handling, NP!Handling, N!At, NP!At, N!Fault, NP!Fault, N!apiVars,
  NP!apiVars

\* The process and the broker.
LEMMA SameProcess ==
  /\ N!Start => NP!Start
  /\ N!Crash => NP!Crash
  /\ \A m \in DOMAIN bodies : N!DeliverEvent(m) => NP!DeliverEvent(m)
<1>1. (N!Start => NP!Start) /\ (N!Crash => NP!Crash)
  BY DEF N!Start, NP!Start, N!Crash, NP!Crash, N!NoMemory, NP!NoMemory, N!At, NP!At,
    N!Fault, NP!Fault, N!DeclareAndBindQueue, NP!DeclareAndBindQueue, N!ConsumerGone,
    NP!ConsumerGone, N!Held, NP!Held, N!Range, NP!Range, N!apiVars, NP!apiVars
<1>2. ASSUME NEW m \in DOMAIN bodies PROVE N!DeliverEvent(m) => NP!DeliverEvent(m)
  BY DEF N!DeliverEvent, NP!DeliverEvent, N!CanDeliver, NP!CanDeliver, N!Oldest,
    NP!Oldest, N!Deliver, NP!Deliver, N!apiVars, NP!apiVars
<1> QED BY <1>1, <1>2

\* A step of the composition is one of the notifier or leaves it alone.
LEMMA SameNext == [Next]_vars => [NP!Next]_(NP!vars)
<1>1. N!Local => NP!Local
  BY SameApi, SameBody, SameProcess DEF N!Local, NP!Local
<1>2. N!Local \/ (\E m \in DOMAIN bodies : N!Notify(m)) => NP!Next
  BY <1>1, SameNotify DEF NP!Next
<1>3. UNCHANGED notifierVars => UNCHANGED NP!vars
  BY DEF notifierVars, NP!vars, NP!apiVars
<1> QED BY <1>2, <1>3 DEF Next, vars

\* What holds of the notifier alone holds of it here.
LEMMA NotifierHolds == Spec => []NP!IInv
<1>1. Init => NP!IInv
  BY SameAssumption, SameInit, NP!Initially DEF Init
<1>2. NP!IInv /\ [Next]_vars => NP!IInv'
  BY SameAssumption, SameNext, NP!Inductive
<1> QED BY <1>1, <1>2, PTL DEF Spec

\* What a notification may say, and which ones say that u came into the top.
Notes == [user : User \cup {Garbage}, reason : {"top10", "rank_jump", ""}]
Of(u) == {n \in 1 .. published : told[n] = Entry(u)}

\* There is one for each time the notifier counts.
Said ==
  /\ published \in Nat /\ told \in Seq(Notes) /\ Len(told) = published
  /\ \A u \in User : announced[u] \in Nat /\ Cardinality(Of(u)) = announced[u]

\* At first nothing is said.
LEMMA SaidInit == Init => Said
<1> SUFFICES ASSUME Init PROVE Said
  OBVIOUS
<1>1. published = 0 /\ told = <<>> /\ announced = [u \in User |-> 0]
  BY DEF Init, HubInit, N!Init
<1>2. <<>> \in Seq(Notes) /\ Len(<<>>) = 0
  OBVIOUS
<1>3. \A u \in User : Of(u) = {}
  BY <1>1 DEF Of
<1> QED BY <1>1, <1>2, <1>3, FS_EmptySet DEF Said

\* Nothing is said, nothing is counted.
LEMMA SaidKept ==
  ASSUME Said, UNCHANGED <<published, told, announced>>
  PROVE  Said'
<1>1. \A u \in User : Of(u)' = Of(u)
  BY DEF Of, Entry
<1> QED BY <1>1 DEF Said

\* A notification is handed on and counted in one step.
LEMMA SaidOnce ==
  ASSUME Said, NP!IInv, NEW m \in DOMAIN bodies, N!Notify(m), HandOn(m)
  PROVE  Said'
<1> DEFINE reason == N!Reason(loop.rank, loop.previous)
           note == [user |-> bodies[m], reason |-> reason]
<1>1. published \in Nat /\ told \in Seq(Notes) /\ Len(told) = published
  BY DEF Said
<1>2. published' = published + 1 /\ told' = Append(told, note)
  BY DEF HandOn, PublishNote
<1>3. announced' = IF reason = "top10" THEN [announced EXCEPT ![bodies[m]] = @ + 1] ELSE announced
  BY DEF N!Notify, N!PublishNotification, N!PublishAgain, N!Announce, N!IsEntry
<1>4. note \in Notes
  <2>1. bodies[m] \in User \cup {Garbage}
    <3>1. bodies \in Seq(User \cup {Garbage})
      BY DEF NP!IInv, NP!Types, NP!TypeOK
    <3> QED BY <3>1, ElementOfSeq, LenProperties
  <2>2. reason \in {"top10", "rank_jump", ""}
    BY DEF N!Reason
  <2> QED BY <2>1, <2>2 DEF Notes
<1>5. announced \in [User -> Nat]
  BY DEF NP!IInv, NP!Types
<1> HIDE DEF note
<1>6. /\ told' \in Seq(Notes) /\ Len(told') = published + 1
      /\ \A n \in 1 .. published : told'[n] = told[n]
      /\ told'[published + 1] = note
  BY <1>1, <1>2, <1>4, AppendProperties
<1>7. ASSUME NEW u \in User
      PROVE  announced'[u] \in Nat /\ Cardinality(Of(u)') = announced'[u]
  <2>1. announced[u] \in Nat /\ Cardinality(Of(u)) = announced[u]
    BY DEF Said
  <2>2. IsFiniteSet(Of(u)) /\ published + 1 \notin Of(u)
    <3>1. IsFiniteSet(1 .. published)
      BY <1>1, FS_Interval
    <3>2. Of(u) \in SUBSET (1 .. published)
      BY DEF Of
    <3>3. published + 1 \notin 1 .. published
      BY <1>1
    <3> QED BY <3>1, <3>2, <3>3, FS_Subset
  <2>3. CASE note = Entry(u)
    <3>1. bodies[m] = u /\ reason = "top10"
      BY <2>3 DEF note, Entry
    <3>2. announced'[u] = announced[u] + 1
      BY <1>3, <1>5, <3>1
    <3>3. Of(u)' = Of(u) \cup {published + 1}
      BY <1>1, <1>2, <1>6, <2>3 DEF Of, Entry
    <3>4. Cardinality(Of(u) \cup {published + 1}) = Cardinality(Of(u)) + 1
      BY <2>2, FS_AddElement
    <3> QED BY <2>1, <3>2, <3>3, <3>4
  <2>4. CASE note # Entry(u)
    <3>1. bodies[m] # u \/ reason # "top10"
      BY <2>4 DEF note, Entry
    <3>2. announced'[u] = announced[u]
      BY <1>3, <1>5, <3>1
    <3>3. Of(u)' = Of(u)
      BY <1>1, <1>2, <1>6, <2>4 DEF Of, Entry
    <3> QED BY <2>1, <3>2, <3>3
  <2> QED BY <2>3, <2>4
<1> QED BY <1>1, <1>2, <1>6, <1>7 DEF Said

\* No other step of the notifier counts an announcement.
LEMMA LocalSilent == N!Local => announced' = announced
<1>1. N!Api => announced' = announced
  BY DEF N!Api, N!Score, N!PublishEvent, N!LosePublish, N!PublishGarbage
<1>2. ASSUME NEW m PROVE N!Body(m) => announced' = announced
  BY DEF N!Body, N!DropMalformed, N!ReadRank, N!RankFails, N!Decide, N!PublishFails, N!AckEvent
<1>3. (N!Start => announced' = announced) /\ (N!Crash => announced' = announced)
  BY DEF N!Start, N!Crash
<1>4. ASSUME NEW m PROVE N!DeliverEvent(m) => announced' = announced
  BY DEF N!DeliverEvent
<1> QED BY <1>1, <1>2, <1>3, <1>4 DEF N!Local

\* No step of the hub publishes, but the one that goes with a step of the notifier.
LEMMA HubSilent == HubLocal => published' = published
<1>1. ASSUME NEW c \in Conn
      PROVE  Register(c) \/ HandlerEnds(c) \/ Leave(c) \/ StallOrResume(c) => published' = published
  BY DEF Register, HandlerEnds, Leave, StallOrResume, Client
<1>2. ASSUME NEW r \in Conn
      PROVE  Subscribe(r) \/ ConnectionLost(r) \/ DropOverflow(r) \/ Take(r)
               => published' = published
  BY DEF Subscribe, ConnectionLost, DropOverflow, Take
<1>3. ASSUME NEW r \in Conn, NEW c \in Conn
      PROVE  Write(r, c) \/ WriteFails(r, c) => published' = published
  BY DEF Write, WriteFails
<1> QED BY <1>1, <1>2, <1>3 DEF HubLocal

\* Each notification about an entry is counted, always.
LEMMA SaidKeeps == NP!IInv /\ Said /\ [Next]_vars => Said'
<1> SUFFICES ASSUME NP!IInv, Said, [Next]_vars PROVE Said'
  OBVIOUS
<1>1. CASE N!Local /\ UNCHANGED <<hubVars, told>>
  BY <1>1, LocalSilent, SaidKept DEF hubVars
<1>2. ASSUME NEW m \in DOMAIN bodies, N!Notify(m), HandOn(m) PROVE Said'
  BY <1>2, SaidOnce
<1>3. CASE HubLocal /\ UNCHANGED <<notifierVars, told>>
  BY <1>3, HubSilent, SaidKept DEF notifierVars
<1>4. CASE UNCHANGED vars
  BY <1>4, SaidKept DEF vars, notifierVars, hubVars
<1> QED BY <1>1, <1>2, <1>3, <1>4 DEF Next

\* A client has been sent no notification twice, hence no more than there are.
LEMMA HeardOnce ==
  ASSUME IInv, Said, NEW c \in Conn, NEW u \in User
  PROVE  Cardinality({i \in DOMAIN got[c] : told[got[c][i]] = Entry(u)}) <= announced[u]
<1> DEFINE I == {i \in DOMAIN got[c] : told[got[c][i]] = Entry(u)}
           f == [i \in I |-> got[c][i]]
<1>1. /\ DOMAIN got[c] = 1 .. Len(got[c]) /\ Len(got[c]) \in Nat /\ published \in Nat
      /\ \A i \in DOMAIN got[c] : got[c][i] \in 1 .. published
  BY LenProperties, ElementOfSeq DEF IInv, HubTypeOK, HubTypes
<1>2. \A i, j \in DOMAIN got[c] : i < j => got[c][i] < got[c][j]
  BY DEF IInv, InOrder, Increasing
<1>3. \A i, j \in I : f[i] = f[j] => i = j
  <2> SUFFICES ASSUME NEW i \in I, NEW j \in I, f[i] = f[j], i # j PROVE FALSE
    OBVIOUS
  <2>1. i \in Nat /\ j \in Nat /\ got[c][i] \in Nat /\ got[c][j] \in Nat /\ got[c][i] = got[c][j]
    BY <1>1
  <2>2. i < j \/ j < i
    BY <2>1
  <2> QED BY <1>2, <2>1, <2>2
<1>4. f \in [I -> Of(u)]
  BY <1>1 DEF Of
<1>5. f \in Injection(I, Of(u))
  <2> HIDE DEF I, f
  <2>1. DOMAIN f = I
    BY <1>4
  <2>2. IsInjective(f)
    BY <1>3, <2>1 DEF IsInjective
  <2> QED BY <1>4, <2>2 DEF Injection
<1>6. IsFiniteSet(Of(u))
  <2>1. IsFiniteSet(1 .. published)
    BY <1>1, FS_Interval
  <2>2. Of(u) \in SUBSET (1 .. published)
    BY DEF Of
  <2> QED BY <2>1, <2>2, FS_Subset
<1>7. Cardinality(I) <= Cardinality(Of(u))
  <2> HIDE DEF I, f
  <2> QED BY <1>5, <1>6, FS_Injection
<1> QED BY <1>7 DEF Said

(* However often events are handled again and whoever reconnects, a client *)
(* is told at most as often that a user came into the top as that          *)
(* happened, but for the repetitions of a crash or a repeated publish.     *)
THEOREM NewsAreTrue == Spec => []NoSpuriousNews
<1>1. Spec => []Said
  <2>1. Init => Said
    BY SaidInit
  <2>2. NP!IInv /\ Said /\ [Next]_vars => Said'
    BY SaidKeeps
  <2> QED BY <2>1, <2>2, NotifierHolds, PTL DEF Spec
<1>2. IInv /\ NP!IInv /\ Said => NoSpuriousNews
  <2> SUFFICES ASSUME IInv, NP!IInv, Said, NEW c \in Conn, NEW u \in User
               PROVE  Cardinality({i \in DOMAIN got[c] : told[got[c][i]] = Entry(u)})
                        <= entered[u] + repeats
    BY DEF NoSpuriousNews
  <2>1. Cardinality({i \in DOMAIN got[c] : told[got[c][i]] = Entry(u)}) <= announced[u]
    BY HeardOnce
  <2>2. announced[u] <= entered[u] + repeats
    BY DEF NP!IInv, NP!Counted
  <2>3. announced[u] \in Nat /\ entered[u] \in Nat /\ repeats \in Nat
    BY DEF NP!IInv, NP!Types
  <2>4. Cardinality({i \in DOMAIN got[c] : told[got[c][i]] = Entry(u)}) \in Nat
    <3>1. DOMAIN got[c] = 1 .. Len(got[c]) /\ Len(got[c]) \in Nat
      BY LenProperties DEF IInv, HubTypeOK, HubTypes
    <3>2. IsFiniteSet(DOMAIN got[c])
      BY <3>1, FS_Interval
    <3>3. {i \in DOMAIN got[c] : told[got[c][i]] = Entry(u)} \in SUBSET DOMAIN got[c]
      OBVIOUS
    <3> QED BY <3>2, <3>3, FS_Subset, FS_CardinalityType
  <2> QED BY <2>1, <2>2, <2>3, <2>4
<1> QED BY <1>1, <1>2, NotifierHolds, Inductive, PTL
=============================================================================
