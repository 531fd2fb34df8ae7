------------------------------ MODULE StreamHub ------------------------------
(***************************************************************************)
(* The hub of the server-sent-event streams: the handlers of GET           *)
(* /v1/stream (Hub.ServeHTTP), the broadcasts of the drain loop            *)
(* (Hub.Broadcast) and Hub.Close.  Pipeline models who calls Broadcast.    *)
(*                                                                         *)
(* A broadcast holds the read lock while it offers its event to one        *)
(* connection after the other; handlers take events from their channels    *)
(* meanwhile, and registration, unregistration and Close wait.  The        *)
(* connections whose channel was full are closed after the lock is gone.   *)
(* An event is the number of its broadcast.                                *)
(***************************************************************************)
EXTENDS Naturals, Sequences, FiniteSets

CONSTANTS Conn,       \* requests for GET /v1/stream
          Account,
          Of,         \* the account of each request
          Buffer,     \* BufferPerConn
          MaxConns,   \* MaxConnections
          MaxPings    \* bound: broadcasts of a behaviour

ASSUME HubAssumption ==
  /\ Of \in [Conn -> Account]
  /\ Buffer \in Nat \ {0}
  /\ MaxConns \in Nat \ {0}
  /\ MaxPings \in Nat

VARIABLES
  at,       \* where the handler of each request stands
  conns,    \* the registered connections: the union of the sets of Hub.conns
  active,   \* activeConns
  buf,      \* each connection's channel
  done,     \* connections whose done channel is closed
  closed,   \* Hub.closed
  hungup,   \* requests whose context is done: the client has gone (external)
  stalled,  \* clients that do not read what is written to them (external)
  cast,     \* the broadcast under way
  number,   \* the number of the last broadcast
  seen,     \* the events each handler has taken to write (history)
  owed      \* the broadcasts to each connection since it registered (history)

client == <<hungup, stalled>>
vars == <<at, conns, active, buf, done, closed, client, cast, number, seen, owed>>

\* A handler inside the loop of ServeHTTP: waiting in its select, writing a
\* frame, or writing the demotion after which it returns.
Attached == {"serving", "writing", "demoting"}

\* todo is what the loop has not reached, slow what it found full.
Cast == [at : {"idle", "offer", "drop"}, todo : SUBSET Conn, slow : SUBSET Conn]
NoCast == [at |-> "idle", todo |-> {}, slow |-> {}]

\* One type invariant for the module.
TypeOK ==
  /\ at \in [Conn -> Attached \cup {"new", "leaving", "gone", "refused"}]
  /\ conns \in SUBSET Conn
  /\ active \in Nat
  /\ buf \in [Conn -> Seq(1 .. MaxPings)]
  /\ done \in SUBSET Conn
  /\ closed \in BOOLEAN
  /\ hungup \in SUBSET Conn
  /\ stalled \in SUBSET Conn
  /\ cast \in Cast
  /\ number \in 0 .. MaxPings
  /\ seen \in [Conn -> Seq(1 .. MaxPings)]
  /\ owed \in [Conn -> Seq(1 .. MaxPings)]

Init ==
  /\ at = [c \in Conn |-> "new"]
  /\ conns = {}
  /\ active = 0
  /\ buf = [c \in Conn |-> <<>>]
  /\ done = {}
  /\ closed = FALSE
  /\ hungup = {}
  /\ stalled = {}
  /\ cast = NoCast
  /\ number = 0
  /\ seen = [c \in Conn |-> <<>>]
  /\ owed = [c \in Conn |-> <<>>]

StreamsOf(a) == {c \in conns : Of[c] = a}

\* No reader holds the hub's lock, so that a writer may have it.
LockFree == cast.at # "offer"

-------------------------------------------------------------------------------
(* Registration.                                                           *)

\* Mutant: unregister is deferred before register has said yes.
RegisterDeferred(c) ==
  /\ at[c] = "new"
  /\ LockFree
  /\ \/ /\ active >= MaxConns
        /\ at' = [at EXCEPT ![c] = "leaving"]
        /\ UNCHANGED <<conns, active>>
     \/ /\ active < MaxConns
        /\ at' = [at EXCEPT ![c] = "serving"]
        /\ conns' = conns \cup {c}
        /\ active' = active + 1
  /\ UNCHANGED <<buf, done, closed, client, cast, number, seen, owed>>

\* register: at the ceiling the request is refused with 503.  A hub that has
\* been closed still registers.
Register(c) ==
  /\ at[c] = "new"
  /\ LockFree
  /\ \/ /\ active >= MaxConns
        /\ at' = [at EXCEPT ![c] = "refused"]
        /\ UNCHANGED <<conns, active>>
     \/ /\ active < MaxConns
        /\ at' = [at EXCEPT ![c] = "serving"]
        /\ conns' = conns \cup {c}
        /\ active' = active + 1
  /\ UNCHANGED <<buf, done, closed, client, cast, number, seen, owed>>

\* Mutant: the count goes down only for a connection nobody has dropped.
UnregisterKeepsSlow(c) ==
  /\ at[c] = "leaving"
  /\ LockFree
  /\ at' = [at EXCEPT ![c] = "gone"]
  /\ conns' = conns \ {c}
  /\ active' = IF c \in conns \ done THEN active - 1 ELSE active
  /\ UNCHANGED <<buf, done, closed, client, cast, number, seen, owed>>

\* unregister: the count goes down when the account has a set in the map,
\* whether or not the connection is in it.
Unregister(c) ==
  /\ at[c] = "leaving"
  /\ LockFree
  /\ at' = [at EXCEPT ![c] = "gone"]
  /\ conns' = conns \ {c}
  /\ active' = IF StreamsOf(Of[c]) # {} THEN active - 1 ELSE active
  /\ UNCHANGED <<buf, done, closed, client, cast, number, seen, owed>>

-------------------------------------------------------------------------------
(* The loop of ServeHTTP.  Its select picks any ready case at random.      *)

TakeEvent(c) ==
  /\ at[c] = "serving"
  /\ buf[c] # <<>>
  /\ at' = [at EXCEPT ![c] = "writing"]
  /\ seen' = [seen EXCEPT ![c] = Append(@, Head(buf[c]))]
  /\ buf' = [buf EXCEPT ![c] = Tail(@)]
  /\ UNCHANGED <<conns, active, done, closed, client, cast, number, owed>>

\* The heartbeat ticker, or the idle timer: a frame, or the last frame.
Heartbeat(c) ==
  /\ at[c] = "serving"
  /\ at' = [at EXCEPT ![c] = "writing"]
  /\ UNCHANGED <<conns, active, buf, done, closed, client, cast, number, seen, owed>>

Demote(c) ==
  /\ at[c] = "serving"
  /\ at' = [at EXCEPT ![c] = "demoting"]
  /\ UNCHANGED <<conns, active, buf, done, closed, client, cast, number, seen, owed>>

\* Fprintf and Flush return when the client reads, or is gone.  The server
\* sets no write deadline.
Written(c) ==
  /\ c \notin stalled \/ c \in hungup
  /\ \/ at[c] = "writing" /\ at' = [at EXCEPT ![c] = "serving"]
     \/ at[c] = "demoting" /\ at' = [at EXCEPT ![c] = "leaving"]
  /\ UNCHANGED <<conns, active, buf, done, closed, client, cast, number, seen, owed>>

\* Mutant: the loop does not watch the connection's done channel.
ReturnUnwatched(c) ==
  /\ at[c] = "serving"
  /\ c \in hungup \/ closed
  /\ at' = [at EXCEPT ![c] = "leaving"]
  /\ UNCHANGED <<conns, active, buf, done, closed, client, cast, number, seen, owed>>

\* Mutant: the loop does not watch the hub's closed channel.
ReturnOpen(c) ==
  /\ at[c] = "serving"
  /\ c \in hungup \/ c \in done
  /\ at' = [at EXCEPT ![c] = "leaving"]
  /\ UNCHANGED <<conns, active, buf, done, closed, client, cast, number, seen, owed>>

\* The request's context, the connection or the hub is done.
Return(c) ==
  /\ at[c] = "serving"
  /\ c \in hungup \/ c \in done \/ closed
  /\ at' = [at EXCEPT ![c] = "leaving"]
  /\ UNCHANGED <<conns, active, buf, done, closed, client, cast, number, seen, owed>>

-------------------------------------------------------------------------------
(* Broadcast, called by one goroutine at a time.                           *)

BroadcastStart(a) ==
  /\ cast.at = "idle"
  /\ number < MaxPings
  /\ StreamsOf(a) # {}
  /\ number' = number + 1
  /\ cast' = [at |-> "offer", todo |-> StreamsOf(a), slow |-> {}]
  /\ owed' = [c \in Conn |-> IF c \in StreamsOf(a) THEN Append(owed[c], number + 1) ELSE owed[c]]
  /\ UNCHANGED <<at, conns, active, buf, done, closed, client, seen>>

\* Mutant: a full channel loses the event and nothing else happens.
OfferLossy(c) ==
  /\ cast.at = "offer"
  /\ c \in cast.todo
  /\ buf' = IF Len(buf[c]) < Buffer THEN [buf EXCEPT ![c] = Append(@, number)] ELSE buf
  /\ cast' = [cast EXCEPT !.todo = @ \ {c}]
  /\ UNCHANGED <<at, conns, active, done, closed, client, number, seen, owed>>

\* Mutant: the channel is taken to have one more place than it has.
OfferOverfull(c) ==
  /\ cast.at = "offer"
  /\ c \in cast.todo
  /\ \/ /\ Len(buf[c]) <= Buffer
        /\ buf' = [buf EXCEPT ![c] = Append(@, number)]
        /\ cast' = [cast EXCEPT !.todo = @ \ {c}]
     \/ /\ Len(buf[c]) > Buffer
        /\ cast' = [cast EXCEPT !.todo = @ \ {c}, !.slow = @ \cup {c}]
        /\ UNCHANGED buf
  /\ UNCHANGED <<at, conns, active, done, closed, client, number, seen, owed>>

\* A non-blocking send; a full channel makes the connection a slow one.
Offer(c) ==
  /\ cast.at = "offer"
  /\ c \in cast.todo
  /\ \/ /\ Len(buf[c]) < Buffer
        /\ buf' = [buf EXCEPT ![c] = Append(@, number)]
        /\ cast' = [cast EXCEPT !.todo = @ \ {c}]
     \/ /\ Len(buf[c]) >= Buffer
        /\ cast' = [cast EXCEPT !.todo = @ \ {c}, !.slow = @ \cup {c}]
        /\ UNCHANGED buf
  /\ UNCHANGED <<at, conns, active, done, closed, client, number, seen, owed>>

\* RUnlock, when every connection has had its offer.
BroadcastUnlock ==
  /\ cast.at = "offer"
  /\ cast.todo = {}
  /\ cast' = IF cast.slow = {} THEN NoCast ELSE [cast EXCEPT !.at = "drop"]
  /\ UNCHANGED <<at, conns, active, buf, done, closed, client, number, seen, owed>>

DropSlow(c) ==
  /\ cast.at = "drop"
  /\ c \in cast.slow
  /\ done' = done \cup {c}
  /\ cast' = IF cast.slow = {c} THEN NoCast ELSE [cast EXCEPT !.slow = @ \ {c}]
  /\ UNCHANGED <<at, conns, active, buf, closed, client, number, seen, owed>>

-------------------------------------------------------------------------------
\* Hub.Close: closes every connection and forgets them all.
Close ==
  /\ ~closed
  /\ LockFree
  /\ closed' = TRUE
  /\ done' = done \cup conns
  /\ conns' = {}
  /\ UNCHANGED <<at, active, buf, client, cast, number, seen, owed>>

\* What clients do: they go away, stop reading, and read again.
Hangup(c) ==
  /\ at[c] \in Attached
  /\ hungup' = hungup \cup {c}
  /\ UNCHANGED <<at, conns, active, buf, done, closed, stalled, cast, number, seen, owed>>

Stall(c) ==
  /\ at[c] \in Attached
  /\ stalled' = stalled \cup {c}
  /\ UNCHANGED <<at, conns, active, buf, done, closed, hungup, cast, number, seen, owed>>

Resume(c) ==
  /\ stalled' = stalled \ {c}
  /\ UNCHANGED <<at, conns, active, buf, done, closed, hungup, cast, number, seen, owed>>

Handler(c) ==
  Register(c) \/ TakeEvent(c) \/ Heartbeat(c) \/ Demote(c) \/ Written(c) \/ Return(c) \/ Unregister(c)

Broadcast ==
  \/ \E a \in Account : BroadcastStart(a)
  \/ \E c \in Conn : Offer(c) \/ DropSlow(c)
  \/ BroadcastUnlock

Next ==
  \/ \E c \in Conn : Handler(c) \/ Hangup(c) \/ Stall(c) \/ Resume(c)
  \/ Broadcast
  \/ Close

\* A broadcast that has begun runs to its end, a write to a client that reads
\* returns, and a handler leaves: select picks at random, so a case that stays
\* ready is picked in the end, and Go's RWMutex lets a waiting writer in.
Fairness ==
  /\ WF_vars(BroadcastUnlock)
  /\ \A c \in Conn :
       /\ WF_vars(Offer(c)) /\ WF_vars(DropSlow(c))
       /\ WF_vars(Written(c)) /\ SF_vars(Return(c)) /\ SF_vars(Unregister(c))

Spec == Init /\ [][Next]_vars
FairSpec == Spec /\ Fairness

-------------------------------------------------------------------------------
(* Properties.                                                             *)

\* The number that admission and the gauge go by is the number of registered
\* streams, as long as the hub is open: no order of registrations, drops and
\* returns loses or gains a slot (register, unregister).
CountMatches == ~closed => active = Cardinality(conns)

\* There are never more streams than MaxConnections, those a closed hub has
\* forgotten and those that are on their way out included, and no stream's
\* buffer outgrows its size (register, unregister, Broadcast).
Streams == {c \in Conn : at[c] \in Attached \cup {"leaving"}}
Bounded == Cardinality(Streams) <= MaxConns /\ \A c \in Conn : Len(buf[c]) <= Buffer

\* A stream that has not been condemned as slow has missed nothing: what its
\* client was sent and what waits for it are, in order and once each, the
\* broadcasts to its account since it registered (Broadcast).
Condemned == done \cup cast.slow
NoSilentGap ==
  \A c \in conns \ Condemned :
    owed[c] = seen[c] \o buf[c] \o (IF c \in cast.todo THEN <<number>> ELSE <<>>)

\* A dropped connection whose client reads what it is sent leaves the hub.
SlowLeaves ==
  \A c \in Conn : (c \in done) ~> (at[c] \in {"gone", "refused"} \/ c \in stalled)

\* After Close every stream ends, also one that registers afterwards.
CloseEndsStreams ==
  \A c \in Conn : (closed /\ at[c] \in Attached) ~> (at[c] = "gone" \/ c \in stalled)
===============================================================================
