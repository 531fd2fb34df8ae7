--------------------------- MODULE StreamHubProofs ----------------------------
(***************************************************************************)
(* Proofs about StreamHub, for every number of requests and accounts and   *)
(* every buffer size, ceiling and number of broadcasts.                    *)
(***************************************************************************)
EXTENDS StreamHub, FiniteSetTheorems, SequenceTheorems, TLAPS

-------------------------------------------------------------------------------
(* The count.                                                              *)

States == Attached \cup {"new", "leaving", "gone", "refused"}

\* The count is exact while the hub is open.  Once it is closed the count may
\* stay above the number of streams, and never below it: that is what keeps
\* the ceiling a ceiling.
CountInv ==
  /\ at \in [Conn -> States]
  /\ conns \subseteq Streams
  /\ active \in Nat
  /\ closed \in BOOLEAN
  /\ IsFiniteSet(Streams)
  /\ ~closed => conns = Streams
  /\ ~closed => active = Cardinality(Streams)
  /\ Cardinality(Streams) <= active
  /\ active <= MaxConns

LEMMA CountInit == Init => CountInv
<1> SUFFICES ASSUME Init PROVE CountInv
  OBVIOUS
<1>1. Streams = {}
  BY DEF Init, Streams, Attached
<1>2. IsFiniteSet(Streams) /\ Cardinality(Streams) = 0
  BY <1>1, FS_EmptySet
<1>3. at \in [Conn -> States] /\ conns = {} /\ active = 0 /\ closed = FALSE
  BY DEF Init, States
<1>4. conns = Streams /\ closed \in BOOLEAN
  BY <1>1, <1>3
<1>5. active \in Nat /\ active <= MaxConns
  BY <1>3, HubAssumption
<1>6. active = Cardinality(Streams) /\ Cardinality(Streams) <= active
  BY <1>2, <1>3
<1> QED
  BY <1>2, <1>3, <1>4, <1>5, <1>6 DEF CountInv

\* A step that moves a handler between two places of a stream, and nothing
\* that is counted, keeps the invariant.
LEMMA MoveKeepsCount ==
  ASSUME CountInv, NEW c \in Conn, NEW s \in Attached \cup {"leaving"},
         at[c] \in Attached, at' = [at EXCEPT ![c] = s], UNCHANGED <<conns, active, closed>>
  PROVE  CountInv'
<1>1. at' \in [Conn -> States]
  BY DEF CountInv, States
<1>2. Streams' = Streams
  BY DEF CountInv, Streams
<1> QED
  BY <1>1, <1>2 DEF CountInv

\* A step that leaves all of it alone does too.
LEMMA StayKeepsCount ==
  ASSUME CountInv, UNCHANGED <<at, conns, active, closed>>
  PROVE  CountInv'
<1>1. Streams' = Streams
  BY DEF Streams
<1> QED
  BY <1>1 DEF CountInv

LEMMA RegisterKeepsCount ==
  ASSUME CountInv, NEW c \in Conn, Register(c)
  PROVE  CountInv'
<1>1. c \notin Streams
  BY DEF Register, Streams, Attached
<1>2. CASE /\ active >= MaxConns
           /\ at' = [at EXCEPT ![c] = "refused"]
           /\ UNCHANGED <<conns, active>>
  <2>1. at' \in [Conn -> States]
    BY <1>2 DEF CountInv, States
  <2>2. Streams' = Streams
    BY <1>1, <1>2 DEF CountInv, Streams, Attached
  <2> QED
    BY <1>2, <2>1, <2>2 DEF CountInv, Register
<1>3. CASE /\ active < MaxConns
           /\ at' = [at EXCEPT ![c] = "serving"]
           /\ conns' = conns \cup {c}
           /\ active' = active + 1
  <2>1. at' \in [Conn -> States]
    BY <1>3 DEF CountInv, States, Attached
  <2>2. Streams' = Streams \cup {c}
    BY <1>1, <1>3 DEF CountInv, Streams, Attached
  <2>3. IsFiniteSet(Streams') /\ Cardinality(Streams') = Cardinality(Streams) + 1
    BY <1>1, <2>2, FS_AddElement DEF CountInv
  <2>4. Cardinality(Streams) \in Nat
    BY FS_CardinalityType DEF CountInv
  <2>5. conns' \subseteq Streams' /\ (~closed => conns' = Streams')
    BY <1>3, <2>2 DEF CountInv
  <2>6. active' \in Nat /\ active' <= MaxConns
    BY <1>3, HubAssumption DEF CountInv
  <2>7. Cardinality(Streams') <= active' /\ (~closed => active' = Cardinality(Streams'))
    BY <1>3, <2>3, <2>4 DEF CountInv
  <2>8. closed' = closed
    BY DEF Register
  <2> QED
    BY <2>1, <2>3, <2>5, <2>6, <2>7, <2>8 DEF CountInv
<1> QED
  BY <1>2, <1>3 DEF Register

LEMMA UnregisterKeepsCount ==
  ASSUME CountInv, NEW c \in Conn, Unregister(c)
  PROVE  CountInv'
<1>1. c \in Streams
  BY DEF Unregister, Streams
<1>2. at' = [at EXCEPT ![c] = "gone"] /\ conns' = conns \ {c} /\ closed' = closed
  BY DEF Unregister
<1>3. at' \in [Conn -> States]
  BY <1>2 DEF CountInv, States
<1>4. Streams' = Streams \ {c}
  BY <1>2 DEF CountInv, Streams, Attached
<1>5. IsFiniteSet(Streams') /\ Cardinality(Streams') = Cardinality(Streams) - 1
  BY <1>1, <1>4, FS_RemoveElement DEF CountInv
<1>6. Cardinality(Streams') \in Nat /\ Cardinality(Streams) \in Nat
  BY <1>5, FS_CardinalityType DEF CountInv
<1>7. conns' \subseteq Streams' /\ (~closed => conns' = Streams')
  BY <1>2, <1>4 DEF CountInv
<1>8. ~closed => StreamsOf(Of[c]) # {}
  BY <1>1 DEF CountInv, StreamsOf
<1>9. active' = active - 1 \/ (closed /\ active' = active)
  BY <1>8 DEF Unregister
<1>10. active' \in Nat /\ active' <= MaxConns
  BY <1>5, <1>6, <1>9, HubAssumption DEF CountInv
<1>11. Cardinality(Streams') <= active' /\ (~closed => active' = Cardinality(Streams'))
  BY <1>5, <1>6, <1>9 DEF CountInv
<1> QED
  BY <1>2, <1>3, <1>5, <1>7, <1>10, <1>11 DEF CountInv

LEMMA CountNext == CountInv /\ [Next]_vars => CountInv'
<1> SUFFICES ASSUME CountInv, [Next]_vars PROVE CountInv'
  OBVIOUS
<1>1. ASSUME NEW c \in Conn, Handler(c) PROVE CountInv'
  <2>1. CASE Register(c)
    BY <2>1, RegisterKeepsCount
  <2>2. CASE TakeEvent(c)
    BY <2>2, MoveKeepsCount DEF TakeEvent, Attached
  <2>3. CASE Heartbeat(c)
    BY <2>3, MoveKeepsCount DEF Heartbeat, Attached
  <2>4. CASE Demote(c)
    BY <2>4, MoveKeepsCount DEF Demote, Attached
  <2>5. CASE Written(c)
    <3>1. CASE at[c] = "writing" /\ at' = [at EXCEPT ![c] = "serving"]
      BY <2>5, <3>1, MoveKeepsCount DEF Written, Attached
    <3>2. CASE at[c] = "demoting" /\ at' = [at EXCEPT ![c] = "leaving"]
      BY <2>5, <3>2, MoveKeepsCount DEF Written, Attached
    <3> QED
      BY <2>5, <3>1, <3>2 DEF Written
  <2>6. CASE Return(c)
    BY <2>6, MoveKeepsCount DEF Return, Attached
  <2>7. CASE Unregister(c)
    BY <2>7, UnregisterKeepsCount
  <2> QED
    BY <1>1, <2>1, <2>2, <2>3, <2>4, <2>5, <2>6, <2>7 DEF Handler
<1>2. ASSUME NEW c \in Conn, Hangup(c) \/ Stall(c) \/ Resume(c) PROVE CountInv'
  BY <1>2, StayKeepsCount DEF Hangup, Stall, Resume
<1>3. CASE Broadcast
  BY <1>3, StayKeepsCount DEF Broadcast, BroadcastStart, Offer, DropSlow, BroadcastUnlock
<1>4. CASE Close
  <2>1. Streams' = Streams
    BY <1>4 DEF Close, Streams
  <2> QED
    BY <1>4, <2>1 DEF Close, CountInv
<1>5. CASE UNCHANGED vars
  BY <1>5, StayKeepsCount DEF vars
<1> QED
  BY <1>1, <1>2, <1>3, <1>4, <1>5 DEF Next

LEMMA CountInvariant == Spec => []CountInv
<1> QED
  BY CountInit, CountNext, PTL DEF Spec

\* The number the hub admits requests by is the number of its streams, for any
\* number of requests, drops and broadcasts (register, unregister).
THEOREM CountMatchesHolds == Spec => []CountMatches
<1>1. CountInv => CountMatches
  BY DEF CountInv, CountMatches
<1> QED
  BY <1>1, CountInvariant, PTL

-------------------------------------------------------------------------------
(* The buffers.                                                            *)

BufferInv ==
  /\ number \in Nat
  /\ buf \in [Conn -> Seq(Nat)]
  /\ \A c \in Conn : Len(buf[c]) <= Buffer

LEMMA BufferInit == Init => BufferInv
<1> SUFFICES ASSUME Init PROVE BufferInv
  OBVIOUS
<1>1. <<>> \in Seq(Nat) /\ Len(<<>>) = 0
  BY EmptySeq
<1>2. buf = [c \in Conn |-> <<>>] /\ number = 0
  BY DEF Init
<1>3. 0 <= Buffer
  BY HubAssumption
<1> QED
  BY <1>1, <1>2, <1>3 DEF BufferInv

LEMMA BufferNext == BufferInv /\ [Next]_vars => BufferInv'
<1> SUFFICES ASSUME BufferInv, [Next]_vars PROVE BufferInv'
  OBVIOUS
<1>1. ASSUME NEW c \in Conn, TakeEvent(c) PROVE BufferInv'
  <2>1. buf[c] \in Seq(Nat) /\ buf[c] # <<>>
    BY <1>1 DEF TakeEvent, BufferInv
  <2>2. Tail(buf[c]) \in Seq(Nat) /\ Len(Tail(buf[c])) = Len(buf[c]) - 1
    BY <2>1, HeadTailProperties
  <2>3. Len(buf[c]) \in Nat
    BY <2>1, LenProperties
  <2>4. Len(Tail(buf[c])) <= Buffer
    BY <2>2, <2>3, HubAssumption DEF BufferInv
  <2>5. buf' = [buf EXCEPT ![c] = Tail(buf[c])] /\ number' = number
    BY <1>1 DEF TakeEvent
  <2> QED
    BY <2>2, <2>4, <2>5 DEF BufferInv
<1>2. ASSUME NEW c \in Conn, Offer(c) PROVE BufferInv'
  <2>1. CASE buf' = buf
    BY <1>2, <2>1 DEF Offer, BufferInv
  <2>2. CASE Len(buf[c]) < Buffer /\ buf' = [buf EXCEPT ![c] = Append(buf[c], number)]
    <3>1. buf[c] \in Seq(Nat) /\ number \in Nat
      BY DEF BufferInv
    <3>2. Append(buf[c], number) \in Seq(Nat) /\ Len(Append(buf[c], number)) = Len(buf[c]) + 1
      BY <3>1
    <3>3. Len(buf[c]) \in Nat
      BY <3>1, LenProperties
    <3>4. Len(Append(buf[c], number)) <= Buffer
      BY <2>2, <3>2, <3>3, HubAssumption
    <3>5. number' = number
      BY <1>2 DEF Offer
    <3> QED
      BY <2>2, <3>2, <3>4, <3>5 DEF BufferInv
  <2> QED
    BY <1>2, <2>1, <2>2 DEF Offer
<1>3. ASSUME NEW c \in Conn,
             \/ Register(c) \/ Heartbeat(c) \/ Demote(c) \/ Written(c) \/ Return(c) \/ Unregister(c)
             \/ Hangup(c) \/ Stall(c) \/ Resume(c) \/ DropSlow(c)
      PROVE  BufferInv'
  <2>1. UNCHANGED <<buf, number>>
    BY <1>3 DEF Register, Heartbeat, Demote, Written, Return, Unregister, Hangup, Stall, Resume, DropSlow
  <2> QED
    BY <2>1 DEF BufferInv
<1>4. ASSUME NEW a \in Account, BroadcastStart(a) PROVE BufferInv'
  BY <1>4 DEF BroadcastStart, BufferInv
<1>5. CASE BroadcastUnlock
  BY <1>5 DEF BroadcastUnlock, BufferInv
<1>6. CASE Close
  BY <1>6 DEF Close, BufferInv
<1>7. CASE UNCHANGED vars
  BY <1>7 DEF vars, BufferInv
<1> QED
  BY <1>1, <1>2, <1>3, <1>4, <1>5, <1>6, <1>7 DEF Next, Handler, Broadcast

\* Whatever is registered, dropped, closed and broadcast, there are never more
\* streams than MaxConnections, nor more events in a stream's buffer than its
\* size (register, unregister, Broadcast, Close).
THEOREM HubBounded == Spec => []Bounded
<1>1. CountInv /\ BufferInv => Bounded
  <2> SUFFICES ASSUME CountInv, BufferInv PROVE Bounded
    OBVIOUS
  <2>1. Cardinality(Streams) \in Nat
    BY FS_CardinalityType DEF CountInv
  <2>2. Cardinality(Streams) <= MaxConns
    BY <2>1, HubAssumption DEF CountInv
  <2> QED
    BY <2>2 DEF BufferInv, Bounded
<1>2. Spec => []BufferInv
  BY BufferInit, BufferNext, PTL DEF Spec
<1> QED
  BY <1>1, <1>2, CountInvariant, PTL

-------------------------------------------------------------------------------
(* What a stream misses.                                                   *)

\* Taking the first event of a buffer and remembering it loses nothing.
LEMMA TakeConcat ==
  ASSUME NEW s \in Seq(Nat), NEW b \in Seq(Nat), b # <<>>
  PROVE  Append(s, Head(b)) \o Tail(b) = s \o b
<1> DEFINE l == Append(s, Head(b)) \o Tail(b)
           r == s \o b
<1>1. Head(b) \in Nat /\ Head(b) = b[1] /\ Tail(b) \in Seq(Nat) /\ Len(Tail(b)) = Len(b) - 1
  BY HeadTailProperties
<1>2. \A i \in 1 .. Len(Tail(b)) : Tail(b)[i] = b[i + 1]
  BY HeadTailProperties
<1>3. Append(s, Head(b)) \in Seq(Nat) /\ Len(Append(s, Head(b))) = Len(s) + 1
  BY <1>1
<1>4. \A i \in 1 .. Len(s) + 1 : Append(s, Head(b))[i] = IF i <= Len(s) THEN s[i] ELSE b[1]
  BY <1>1
<1>5. l \in Seq(Nat) /\ Len(l) = Len(s) + Len(b)
  BY <1>1, <1>3, ConcatProperties, LenProperties
<1>6. r \in Seq(Nat) /\ Len(r) = Len(s) + Len(b)
  BY ConcatProperties
<1>7. ASSUME NEW i \in 1 .. Len(l) PROVE l[i] = r[i]
  <2>1. Len(s) \in Nat /\ Len(b) \in Nat
    BY LenProperties
  <2>2. r[i] = IF i <= Len(s) THEN s[i] ELSE b[i - Len(s)]
    BY <1>5, <1>7, ConcatProperties
  <2>3. i \in 1 .. Len(Append(s, Head(b))) + Len(Tail(b))
    BY <1>1, <1>3, <1>5, <2>1
  <2>4. l[i] = IF i <= Len(s) + 1 THEN Append(s, Head(b))[i] ELSE Tail(b)[i - (Len(s) + 1)]
    BY <1>1, <1>3, <2>3, ConcatProperties
  <2>5. CASE i <= Len(s) + 1
    BY <1>4, <2>1, <2>2, <2>4, <2>5
  <2>6. CASE i > Len(s) + 1
    <3>1. i - (Len(s) + 1) \in 1 .. Len(Tail(b))
      BY <1>1, <1>5, <2>1, <2>6
    <3>2. Tail(b)[i - (Len(s) + 1)] = b[i - Len(s)]
      BY <1>2, <2>1, <3>1
    <3> QED
      BY <2>1, <2>2, <2>4, <2>6, <3>2
  <2> QED
    BY <1>5, <2>1, <2>5, <2>6
<1> HIDE DEF l, r
<1>8. l = r
  BY <1>5, <1>6, <1>7, SeqEqual
<1> QED
  BY <1>8 DEF l, r

\* An event that was due and has been put into the buffer is still accounted
\* for.
LEMMA OfferConcat ==
  ASSUME NEW s \in Seq(Nat), NEW b \in Seq(Nat), NEW n \in Nat
  PROVE  s \o Append(b, n) \o <<>> = s \o b \o <<n>>
<1>1. <<n>> \in Seq(Nat) /\ Append(b, n) \in Seq(Nat)
  OBVIOUS
<1>2. Append(b, n) = b \o <<n>>
  BY <1>1
<1>3. s \o Append(b, n) \in Seq(Nat)
  BY <1>1, ConcatProperties
<1>4. s \o Append(b, n) \o <<>> = s \o Append(b, n)
  BY <1>3, ConcatEmptySeq
<1>5. s \o (b \o <<n>>) = s \o b \o <<n>>
  BY <1>1, ConcatAssociative
<1> QED
  BY <1>2, <1>4, <1>5, Zenon

\* A new broadcast is owed behind everything that was owed before.
LEMMA StartConcat ==
  ASSUME NEW s \in Seq(Nat), NEW b \in Seq(Nat), NEW n \in Nat
  PROVE  Append(s \o b \o <<>>, n) = s \o b \o <<n>>
<1>1. s \o b \in Seq(Nat)
  BY ConcatProperties
<1>2. s \o b \o <<>> = s \o b
  BY <1>1, ConcatEmptySeq
<1> DEFINE t == s \o b
<1>3. Append(t, n) = t \o <<n>>
  <2> HIDE DEF t
  <2>1. t \in Seq(Nat)
    BY <1>1 DEF t
  <2> QED
    BY <2>1
<1> QED
  BY <1>2, <1>3, Zenon

\* The channels and histories have their types, and a broadcast that is not
\* offering owes nobody an offer.
Shape ==
  /\ number \in Nat
  /\ buf \in [Conn -> Seq(Nat)]
  /\ seen \in [Conn -> Seq(Nat)]
  /\ owed \in [Conn -> Seq(Nat)]
  /\ cast \in Cast
  /\ cast.at # "offer" => cast.todo = {}
  /\ cast.at = "idle" => cast.slow = {}

\* A request that has not registered has neither been sent nor owed anything.
Fresh ==
  \A c \in Conn : at[c] = "new" =>
    c \notin conns /\ c \notin cast.todo /\ buf[c] = <<>> /\ seen[c] = <<>> /\ owed[c] = <<>>

GapInv == Shape /\ Fresh /\ NoSilentGap

LEMMA GapInit == Init => GapInv
<1> SUFFICES ASSUME Init PROVE GapInv
  OBVIOUS
<1>1. <<>> \in Seq(Nat)
  BY EmptySeq
<1>2. cast \in Cast /\ cast.todo = {} /\ cast.slow = {}
  BY DEF Init, NoCast, Cast
<1>3. Shape
  BY <1>1, <1>2 DEF Init, Shape
<1>4. Fresh
  BY <1>2 DEF Init, Fresh
<1>5. NoSilentGap
  BY DEF Init, NoSilentGap
<1> QED
  BY <1>3, <1>4, <1>5 DEF GapInv

\* A step of a handler between two places of a stream, or none at all, that
\* touches neither channels nor the broadcast keeps the invariant; so does
\* forgetting a connection.
LEMMA QuietKeepsGap ==
  ASSUME GapInv, UNCHANGED <<buf, seen, owed, number, cast>>,
         \A c \in Conn : at'[c] = "new" => at[c] = "new",
         conns' \subseteq conns, done \subseteq done'
  PROVE  GapInv'
<1>1. Shape'
  BY DEF GapInv, Shape
<1>2. Fresh'
  BY DEF GapInv, Fresh
<1>3. conns' \ Condemned' \subseteq conns \ Condemned
  BY DEF Condemned
<1>4. NoSilentGap'
  BY <1>3 DEF GapInv, NoSilentGap
<1> QED
  BY <1>1, <1>2, <1>4 DEF GapInv

LEMMA RegisterKeepsGap ==
  ASSUME CountInv, GapInv, NEW c \in Conn, Register(c)
  PROVE  GapInv'
<1>1. UNCHANGED <<buf, seen, owed, number, cast, done>> /\ at[c] = "new" /\ cast.todo = {}
  BY DEF Register, LockFree, GapInv, Shape
<1>2. \A d \in Conn : at'[d] = "new" => at[d] = "new" /\ d # c
  BY DEF Register, CountInv
<1>3. conns' \subseteq conns \cup {c}
  BY DEF Register
<1>4. Shape'
  BY <1>1 DEF GapInv, Shape
<1>5. Fresh'
  BY <1>1, <1>2, <1>3 DEF GapInv, Fresh
<1>6. Condemned' = Condemned
  BY <1>1 DEF Condemned
<1>7. ASSUME NEW d \in conns' \ Condemned'
      PROVE  owed[d] = seen[d] \o buf[d] \o (IF d \in cast.todo THEN <<number>> ELSE <<>>)
  <2>1. CASE d \in conns
    BY <1>6, <1>7, <2>1 DEF GapInv, NoSilentGap
  <2>2. CASE d = c
    <3>1. owed[d] = <<>> /\ seen[d] = <<>> /\ buf[d] = <<>> /\ d \notin cast.todo
      BY <1>1, <2>2 DEF GapInv, Fresh
    <3>2. <<>> \in Seq(Nat) /\ <<>> \o <<>> = <<>>
      BY EmptySeq, ConcatEmptySeq
    <3> QED
      BY <3>1, <3>2
  <2> QED
    BY <1>3, <1>7, <2>1, <2>2
<1>8. NoSilentGap'
  BY <1>1, <1>7 DEF NoSilentGap
<1> QED
  BY <1>4, <1>5, <1>8 DEF GapInv

LEMMA TakeEventKeepsGap ==
  ASSUME CountInv, GapInv, NEW c \in Conn, TakeEvent(c)
  PROVE  GapInv'
<1>1. /\ UNCHANGED <<owed, number, cast, done, conns>>
      /\ at[c] = "serving" /\ at' = [at EXCEPT ![c] = "writing"]
      /\ seen' = [seen EXCEPT ![c] = Append(seen[c], Head(buf[c]))]
      /\ buf' = [buf EXCEPT ![c] = Tail(buf[c])]
  BY DEF TakeEvent
<1>2. buf[c] \in Seq(Nat) /\ seen[c] \in Seq(Nat) /\ buf[c] # <<>>
  BY DEF TakeEvent, GapInv, Shape
<1>3. Tail(buf[c]) \in Seq(Nat) /\ Head(buf[c]) \in Nat
  BY <1>2, HeadTailProperties
<1>4. Append(seen[c], Head(buf[c])) \in Seq(Nat)
  BY <1>2, <1>3
<1>5. Shape'
  BY <1>1, <1>3, <1>4 DEF GapInv, Shape
<1>6. Fresh'
  BY <1>1 DEF CountInv, GapInv, Fresh
<1>7. \A d \in Conn : seen'[d] \o buf'[d] = seen[d] \o buf[d]
  <2>1. Append(seen[c], Head(buf[c])) \o Tail(buf[c]) = seen[c] \o buf[c]
    BY <1>2, TakeConcat
  <2> QED
    BY <1>1, <2>1 DEF GapInv, Shape
<1>8. NoSilentGap'
  BY <1>1, <1>7 DEF CountInv, Streams, GapInv, NoSilentGap, Condemned
<1> QED
  BY <1>5, <1>6, <1>8 DEF GapInv

LEMMA BroadcastStartKeepsGap ==
  ASSUME GapInv, conns \subseteq Conn, NEW a \in Account, BroadcastStart(a)
  PROVE  GapInv'
<1> DEFINE n == number + 1
<1>1. /\ UNCHANGED <<at, conns, buf, done, seen>>
      /\ cast.todo = {} /\ cast.slow = {}
      /\ number' = n
      /\ cast' = [at |-> "offer", todo |-> StreamsOf(a), slow |-> {}]
      /\ owed' = [c \in Conn |-> IF c \in StreamsOf(a) THEN Append(owed[c], n) ELSE owed[c]]
  BY DEF BroadcastStart, GapInv, Shape
<1>2. n \in Nat
  BY DEF GapInv, Shape
<1>3. \A c \in Conn : Append(owed[c], n) \in Seq(Nat)
  BY <1>2 DEF GapInv, Shape
<1>4. owed' \in [Conn -> Seq(Nat)]
  BY <1>1, <1>3 DEF GapInv, Shape
<1>5. cast' \in Cast
  BY <1>1 DEF Cast, StreamsOf
<1>6. Shape'
  BY <1>1, <1>2, <1>4, <1>5 DEF GapInv, Shape
<1>7. Fresh'
  BY <1>1 DEF GapInv, Fresh, StreamsOf
<1>8. Condemned' = Condemned /\ cast'.todo = StreamsOf(a)
  BY <1>1 DEF Condemned
<1>9. ASSUME NEW c \in conns \ Condemned, c \in Conn
      PROVE  owed'[c] = seen[c] \o buf[c] \o (IF c \in StreamsOf(a) THEN <<n>> ELSE <<>>)
  <2>1. owed[c] = seen[c] \o buf[c] \o <<>>
    BY <1>1, <1>9 DEF GapInv, NoSilentGap
  <2>2. CASE c \in StreamsOf(a)
    <3>1. owed'[c] = Append(owed[c], n)
      BY <1>1, <1>9, <2>2
    <3>2. seen[c] \in Seq(Nat) /\ buf[c] \in Seq(Nat)
      BY <1>9 DEF GapInv, Shape
    <3>3. Append(seen[c] \o buf[c] \o <<>>, n) = seen[c] \o buf[c] \o <<n>>
      BY <1>2, <3>2, StartConcat
    <3> QED
      BY <2>1, <2>2, <3>1, <3>3
  <2>3. CASE c \notin StreamsOf(a)
    BY <1>1, <1>9, <2>1, <2>3
  <2> QED
    BY <2>2, <2>3
<1>10. NoSilentGap'
  BY <1>1, <1>8, <1>9 DEF NoSilentGap
<1> QED
  BY <1>6, <1>7, <1>10 DEF GapInv

\* An offer either puts the event into the buffer or condemns the connection.
LEMMA OfferKeepsGap ==
  ASSUME GapInv, conns \subseteq Conn, NEW c \in Conn, Offer(c)
  PROVE  GapInv'
<1>1. /\ UNCHANGED <<at, conns, done, number, seen, owed>>
      /\ cast.at = "offer" /\ c \in cast.todo /\ at[c] # "new"
  BY DEF Offer, GapInv, Fresh
<1>2. buf[c] \in Seq(Nat) /\ seen[c] \in Seq(Nat) /\ number \in Nat
  BY DEF GapInv, Shape
<1>3. CASE /\ buf' = [buf EXCEPT ![c] = Append(buf[c], number)]
           /\ cast' = [cast EXCEPT !.todo = cast.todo \ {c}]
  <2>1. Append(buf[c], number) \in Seq(Nat)
    BY <1>2
  <2>2. cast' \in Cast /\ cast'.todo = cast.todo \ {c} /\ cast'.slow = cast.slow /\ cast'.at = "offer"
    BY <1>1, <1>3 DEF GapInv, Shape, Cast
  <2>3. Shape'
    BY <1>1, <1>3, <2>1, <2>2 DEF GapInv, Shape
  <2>4. Fresh'
    BY <1>1, <1>3, <2>2 DEF GapInv, Fresh, Shape
  <2>5. Condemned' = Condemned
    BY <1>1, <2>2 DEF Condemned
  <2>6. ASSUME NEW d \in conns \ Condemned, d \in Conn
        PROVE  owed[d] = seen[d] \o buf'[d] \o (IF d \in cast'.todo THEN <<number>> ELSE <<>>)
    <3>1. owed[d] = seen[d] \o buf[d] \o (IF d \in cast.todo THEN <<number>> ELSE <<>>)
      BY <2>6 DEF GapInv, NoSilentGap
    <3>2. CASE d # c
      BY <1>3, <2>2, <2>6, <3>1, <3>2 DEF GapInv, Shape
    <3>3. CASE d = c
      <4>1. owed[c] = seen[c] \o buf[c] \o <<number>>
        BY <1>1, <3>1, <3>3
      <4>2. buf'[c] = Append(buf[c], number) /\ c \notin cast'.todo
        BY <1>3, <2>2 DEF GapInv, Shape
      <4>3. seen[c] \o Append(buf[c], number) \o <<>> = seen[c] \o buf[c] \o <<number>>
        BY <1>2, OfferConcat
      <4> QED
        BY <3>3, <4>1, <4>2, <4>3
    <3> QED
      BY <3>2, <3>3
  <2>7. NoSilentGap'
    BY <1>1, <2>5, <2>6 DEF NoSilentGap
  <2> QED
    BY <2>3, <2>4, <2>7 DEF GapInv
<1>4. CASE /\ cast' = [cast EXCEPT !.todo = cast.todo \ {c}, !.slow = cast.slow \cup {c}]
           /\ UNCHANGED buf
  <2>1. /\ cast' \in Cast /\ cast'.at = "offer"
        /\ cast'.todo = cast.todo \ {c} /\ cast'.slow = cast.slow \cup {c}
    BY <1>1, <1>4 DEF GapInv, Shape, Cast
  <2>2. Shape'
    BY <1>1, <1>4, <2>1 DEF GapInv, Shape
  <2>3. Fresh'
    BY <1>1, <1>4, <2>1 DEF GapInv, Fresh
  <2>4. Condemned' = Condemned \cup {c}
    BY <1>1, <2>1 DEF Condemned
  <2>5. NoSilentGap'
    BY <1>1, <1>4, <2>1, <2>4 DEF GapInv, NoSilentGap
  <2> QED
    BY <2>2, <2>3, <2>5 DEF GapInv
<1> QED
  BY <1>3, <1>4 DEF Offer

\* Unlocking and dropping change neither what is owed nor who is condemned.
LEMMA SettleKeepsGap ==
  ASSUME GapInv, cast' \in Cast, cast'.at # "offer", cast'.todo = {}, cast.todo = {},
         cast'.at = "idle" => cast'.slow = {},
         done' \cup cast'.slow = done \cup cast.slow,
         UNCHANGED <<at, conns, buf, number, seen, owed>>
  PROVE  GapInv'
<1>1. Shape'
  BY DEF GapInv, Shape
<1>2. Fresh'
  BY DEF GapInv, Fresh
<1>3. NoSilentGap'
  BY DEF GapInv, NoSilentGap, Condemned
<1> QED
  BY <1>1, <1>2, <1>3 DEF GapInv

LEMMA GapNext == CountInv /\ GapInv /\ [Next]_vars => GapInv'
<1> SUFFICES ASSUME CountInv, GapInv, [Next]_vars PROVE GapInv'
  OBVIOUS
<1>1. conns \subseteq Conn
  BY DEF CountInv, Streams
<1>2. ASSUME NEW c \in Conn, Handler(c) PROVE GapInv'
  <2>1. CASE Register(c)
    BY <2>1, RegisterKeepsGap
  <2>2. CASE TakeEvent(c)
    BY <2>2, TakeEventKeepsGap
  <2>3. CASE Heartbeat(c)
    <3>1. \A d \in Conn : at'[d] = "new" => at[d] = "new"
      BY <2>3 DEF Heartbeat, CountInv
    <3> QED
      BY <2>3, <3>1, QuietKeepsGap DEF Heartbeat
  <2>4. CASE Demote(c)
    <3>1. \A d \in Conn : at'[d] = "new" => at[d] = "new"
      BY <2>4 DEF Demote, CountInv
    <3> QED
      BY <2>4, <3>1, QuietKeepsGap DEF Demote
  <2>5. CASE Written(c)
    <3>1. \A d \in Conn : at'[d] = "new" => at[d] = "new"
      BY <2>5 DEF Written, CountInv
    <3> QED
      BY <2>5, <3>1, QuietKeepsGap DEF Written
  <2>6. CASE Return(c)
    <3>1. \A d \in Conn : at'[d] = "new" => at[d] = "new"
      BY <2>6 DEF Return, CountInv
    <3> QED
      BY <2>6, <3>1, QuietKeepsGap DEF Return
  <2>7. CASE Unregister(c)
    <3>1. \A d \in Conn : at'[d] = "new" => at[d] = "new"
      BY <2>7 DEF Unregister, CountInv
    <3>2. conns' \subseteq conns /\ UNCHANGED <<buf, seen, owed, number, cast, done>>
      BY <2>7 DEF Unregister
    <3> QED
      BY <3>1, <3>2, QuietKeepsGap
  <2> QED
    BY <1>2, <2>1, <2>2, <2>3, <2>4, <2>5, <2>6, <2>7 DEF Handler
<1>3. ASSUME NEW c \in Conn, Hangup(c) \/ Stall(c) \/ Resume(c) PROVE GapInv'
  BY <1>3, QuietKeepsGap DEF Hangup, Stall, Resume
<1>4. ASSUME NEW a \in Account, BroadcastStart(a) PROVE GapInv'
  BY <1>1, <1>4, BroadcastStartKeepsGap
<1>5. ASSUME NEW c \in Conn, Offer(c) PROVE GapInv'
  BY <1>1, <1>5, OfferKeepsGap
<1>6. ASSUME NEW c \in Conn, DropSlow(c) PROVE GapInv'
  <2>1. /\ UNCHANGED <<at, conns, buf, number, seen, owed>>
        /\ cast.at = "drop" /\ cast.todo = {} /\ c \in cast.slow /\ cast \in Cast
        /\ done' = done \cup {c}
    BY <1>6 DEF DropSlow, GapInv, Shape
  <2>2. CASE cast.slow = {c} /\ cast' = NoCast
    <3>1. cast' \in Cast /\ cast'.at = "idle" /\ cast'.todo = {} /\ cast'.slow = {}
      BY <2>2 DEF NoCast, Cast
    <3> QED
      BY <2>1, <2>2, <3>1, SettleKeepsGap
  <2>3. CASE cast' = [cast EXCEPT !.slow = cast.slow \ {c}]
    <3>1. /\ cast' \in Cast /\ cast'.at = "drop" /\ cast'.todo = {}
          /\ cast'.slow = cast.slow \ {c}
      BY <2>1, <2>3 DEF Cast
    <3> QED
      BY <2>1, <3>1, SettleKeepsGap
  <2> QED
    BY <1>6, <2>2, <2>3 DEF DropSlow
<1>7. CASE BroadcastUnlock
  <2>1. /\ UNCHANGED <<at, conns, buf, done, number, seen, owed>>
        /\ cast.todo = {} /\ cast \in Cast
    BY <1>7 DEF BroadcastUnlock, GapInv, Shape
  <2>2. CASE cast.slow = {} /\ cast' = NoCast
    <3>1. cast' \in Cast /\ cast'.at = "idle" /\ cast'.todo = {} /\ cast'.slow = {}
      BY <2>2 DEF NoCast, Cast
    <3> QED
      BY <2>1, <2>2, <3>1, SettleKeepsGap
  <2>3. CASE cast' = [cast EXCEPT !.at = "drop"]
    <3>1. cast' \in Cast /\ cast'.at = "drop" /\ cast'.todo = {} /\ cast'.slow = cast.slow
      BY <2>1, <2>3 DEF Cast
    <3> QED
      BY <2>1, <3>1, SettleKeepsGap
  <2> QED
    BY <1>7, <2>2, <2>3 DEF BroadcastUnlock
<1>8. CASE Close
  BY <1>8, QuietKeepsGap DEF Close
<1>9. CASE UNCHANGED vars
  BY <1>9, QuietKeepsGap DEF vars
<1> QED
  BY <1>2, <1>3, <1>4, <1>5, <1>6, <1>7, <1>8, <1>9 DEF Next, Broadcast

\* A stream that has not been condemned as slow has been sent, or has waiting
\* for it, every broadcast to its account since it registered, in order and
\* once each, for any number of streams and broadcasts and any buffer size
\* (Broadcast, ServeHTTP).
THEOREM NothingMissed == Spec => []NoSilentGap
<1>1. Init => GapInv
  BY GapInit
<1>2. CountInv /\ CountInv' /\ GapInv /\ [Next]_vars => GapInv'
  BY GapNext
<1>3. GapInv => NoSilentGap
  BY DEF GapInv
<1> QED
  BY <1>1, <1>2, <1>3, CountInvariant, PTL DEF Spec

-------------------------------------------------------------------------------
(* Type correctness.                                                       *)

\* An event is offered only after its number has been given out.
HubTyped == TypeOK /\ (cast.at # "idle" => number # 0)

LEMMA TypedInit == Init => HubTyped
<1> SUFFICES ASSUME Init PROVE HubTyped
  OBVIOUS
<1>1. [c \in Conn |-> <<>>] \in [Conn -> Seq(1 .. MaxPings)]
  BY EmptySeq
<1>2. cast \in Cast /\ cast.at = "idle"
  BY DEF Init, NoCast, Cast
<1>3. at \in [Conn -> Attached \cup {"new", "leaving", "gone", "refused"}]
  BY DEF Init
<1>4. number \in 0 .. MaxPings
  BY HubAssumption DEF Init
<1> QED
  BY <1>1, <1>2, <1>3, <1>4 DEF Init, TypeOK, HubTyped

\* The channels of a stream keep their type.
LEMMA AppendTyped ==
  ASSUME NEW f \in [Conn -> Seq(1 .. MaxPings)], NEW c \in Conn, NEW n \in 1 .. MaxPings
  PROVE  [f EXCEPT ![c] = Append(@, n)] \in [Conn -> Seq(1 .. MaxPings)]
<1>1. Append(f[c], n) \in Seq(1 .. MaxPings)
  BY AppendProperties
<1> QED
  BY <1>1

\* A broadcast that moves on is one.
LEMMA CastTyped ==
  ASSUME NEW k \in Cast, NEW c
  PROVE  /\ [k EXCEPT !.todo = @ \ {c}] \in Cast
         /\ [k EXCEPT !.todo = @ \ {c}].at = k.at
         /\ c \in Conn => /\ [k EXCEPT !.todo = @ \ {c}, !.slow = @ \cup {c}] \in Cast
                         /\ [k EXCEPT !.todo = @ \ {c}, !.slow = @ \cup {c}].at = k.at
         /\ [k EXCEPT !.slow = @ \ {c}] \in Cast
         /\ [k EXCEPT !.at = "drop"] \in Cast
         /\ NoCast \in Cast
BY DEF Cast, NoCast

LEMMA HandlerTyped ==
  ASSUME HubTyped, CountInv', NEW c \in Conn, Handler(c) \/ Hangup(c) \/ Stall(c) \/ Resume(c)
  PROVE  HubTyped'
<1>1. UNCHANGED <<closed, cast, number, owed>>
  BY DEF Handler, Register, TakeEvent, Heartbeat, Demote, Written, Return, Unregister,
     Hangup, Stall, Resume
<1>2. /\ at' \in [Conn -> Attached \cup {"new", "leaving", "gone", "refused"}]
      /\ active' \in Nat
      /\ conns' \subseteq Conn
  BY DEF CountInv, States, Streams
<1>3. hungup' \subseteq Conn /\ stalled' \subseteq Conn /\ done' \subseteq Conn
  BY DEF HubTyped, TypeOK, Handler, Register, TakeEvent, Heartbeat, Demote, Written, Return,
     Unregister, Hangup, Stall, Resume, client
<1>4. buf' \in [Conn -> Seq(1 .. MaxPings)] /\ seen' \in [Conn -> Seq(1 .. MaxPings)]
  <2>1. CASE TakeEvent(c)
    <3>1. buf[c] \in Seq(1 .. MaxPings) /\ buf[c] # <<>>
      BY <2>1 DEF TakeEvent, HubTyped, TypeOK
    <3>2. Head(buf[c]) \in 1 .. MaxPings /\ Tail(buf[c]) \in Seq(1 .. MaxPings)
      BY <3>1, HeadTailProperties
    <3>3. buf' = [buf EXCEPT ![c] = Tail(@)] /\ seen' = [seen EXCEPT ![c] = Append(@, Head(buf[c]))]
      BY <2>1 DEF TakeEvent
    <3>4. buf' \in [Conn -> Seq(1 .. MaxPings)]
      BY <3>2, <3>3 DEF HubTyped, TypeOK
    <3>5. seen' \in [Conn -> Seq(1 .. MaxPings)]
      BY <3>2, <3>3, AppendTyped DEF HubTyped, TypeOK
    <3> QED
      BY <3>4, <3>5
  <2>2. CASE UNCHANGED <<buf, seen>>
    BY <2>2 DEF HubTyped, TypeOK
  <2> QED
    BY <2>1, <2>2 DEF Handler, Register, Heartbeat, Demote, Written, Return, Unregister,
       Hangup, Stall, Resume
<1> QED
  BY <1>1, <1>2, <1>3, <1>4 DEF HubTyped, TypeOK

LEMMA BroadcastTyped ==
  ASSUME HubTyped, Broadcast
  PROVE  HubTyped'
<1>1. ASSUME NEW a \in Account, BroadcastStart(a)
      PROVE  HubTyped'
  <2>1. /\ number' = number + 1 /\ number < MaxPings
        /\ cast' = [at |-> "offer", todo |-> StreamsOf(a), slow |-> {}]
        /\ owed' = [c \in Conn |-> IF c \in StreamsOf(a) THEN Append(owed[c], number + 1)
                                                         ELSE owed[c]]
        /\ UNCHANGED <<at, conns, active, buf, done, closed, hungup, stalled, seen>>
    BY <1>1 DEF BroadcastStart, client
  <2>2. number' \in 1 .. MaxPings
    BY <2>1, HubAssumption DEF HubTyped, TypeOK
  <2>3. StreamsOf(a) \subseteq Conn
    BY DEF StreamsOf, HubTyped, TypeOK
  <2>4. cast' \in Cast
    BY <2>1, <2>3 DEF Cast
  <2>5. owed' \in [Conn -> Seq(1 .. MaxPings)]
    <3>1. \A c \in Conn : Append(owed[c], number + 1) \in Seq(1 .. MaxPings)
      BY <2>1, <2>2, AppendProperties DEF HubTyped, TypeOK
    <3> QED
      BY <2>1, <3>1 DEF HubTyped, TypeOK
  <2>6. number' \in 0 .. MaxPings /\ number' # 0
    BY <2>2
  <2> QED
    BY <2>1, <2>4, <2>5, <2>6 DEF HubTyped, TypeOK
<1>2. ASSUME NEW c \in Conn, Offer(c)
      PROVE  HubTyped'
  <2>1. /\ cast.at = "offer"
        /\ \/ cast' = [cast EXCEPT !.todo = @ \ {c}]
           \/ cast' = [cast EXCEPT !.todo = @ \ {c}, !.slow = @ \cup {c}]
        /\ buf' = buf \/ buf' = [buf EXCEPT ![c] = Append(@, number)]
        /\ UNCHANGED <<at, conns, active, done, closed, hungup, stalled, number, seen, owed>>
    BY <1>2 DEF Offer, client
  <2>2. cast' \in Cast /\ cast'.at = "offer"
    <3>1. cast \in Cast
      BY DEF HubTyped, TypeOK
    <3>2. CASE cast' = [cast EXCEPT !.todo = @ \ {c}]
      BY <2>1, <3>1, <3>2, CastTyped
    <3>3. CASE cast' = [cast EXCEPT !.todo = @ \ {c}, !.slow = @ \cup {c}]
      BY <2>1, <3>1, <3>3, CastTyped
    <3> QED
      BY <2>1, <3>2, <3>3
  <2>3. number \in 1 .. MaxPings
    BY <2>1 DEF HubTyped, TypeOK
  <2>4. buf' \in [Conn -> Seq(1 .. MaxPings)]
    <3>1. buf \in [Conn -> Seq(1 .. MaxPings)]
      BY DEF HubTyped, TypeOK
    <3>2. [buf EXCEPT ![c] = Append(@, number)] \in [Conn -> Seq(1 .. MaxPings)]
      BY <2>3, <3>1, AppendTyped
    <3> QED
      BY <2>1, <3>1, <3>2
  <2>5. number # 0
    BY <2>3
  <2> QED
    BY <2>1, <2>2, <2>4, <2>5 DEF HubTyped, TypeOK
<1>3. ASSUME NEW c \in Conn, DropSlow(c)
      PROVE  HubTyped'
  <2>1. /\ done' = done \cup {c}
        /\ cast.at = "drop"
        /\ cast' = NoCast \/ cast' = [cast EXCEPT !.slow = @ \ {c}]
        /\ UNCHANGED <<at, conns, active, buf, closed, hungup, stalled, number, seen, owed>>
    BY <1>3 DEF DropSlow, client
  <2>2. cast' \in Cast
    BY <2>1, CastTyped DEF HubTyped, TypeOK
  <2> QED
    BY <2>1, <2>2 DEF HubTyped, TypeOK
<1>4. CASE BroadcastUnlock
  <2>1. /\ cast.at = "offer"
        /\ cast' = NoCast \/ cast' = [cast EXCEPT !.at = "drop"]
        /\ UNCHANGED <<at, conns, active, buf, done, closed, hungup, stalled, number, seen, owed>>
    BY <1>4 DEF BroadcastUnlock, client
  <2>2. cast' \in Cast
    BY <2>1, CastTyped DEF HubTyped, TypeOK
  <2> QED
    BY <2>1, <2>2 DEF HubTyped, TypeOK
<1> QED
  BY <1>1, <1>2, <1>3, <1>4 DEF Broadcast

\* Every reachable state of the hub is well typed.  That the count is a natural
\* number is no matter of form: it would go below zero if a handler gave back a
\* slot that it did not hold, and CountInv says that none does (unregister).
THEOREM HubTypeCorrect == Spec => []TypeOK
<1>1. HubTyped /\ CountInv' /\ [Next]_vars => HubTyped'
  <2> SUFFICES ASSUME HubTyped, CountInv', [Next]_vars PROVE HubTyped'
    OBVIOUS
  <2>1. CASE Close
    BY <2>1 DEF Close, HubTyped, TypeOK, client
  <2>2. CASE UNCHANGED vars
    BY <2>2 DEF vars, HubTyped, TypeOK, client
  <2> QED
    BY <2>1, <2>2, HandlerTyped, BroadcastTyped DEF Next
<1>2. HubTyped => TypeOK
  BY DEF HubTyped
<1> QED
  BY <1>1, <1>2, TypedInit, CountInvariant, PTL DEF Spec
===============================================================================
