--------------------------- MODULE TcpTunnelForward ---------------------------
(***************************************************************************)
(* The client side of the TCP tunnel (src/tcp_tunnel_forward.go): one pool *)
(* of connections per forwarder (TcpTunnelConnPool in src/tcp_tunnel.go),  *)
(* the goroutine that refills it, the end of a connection, the choice of   *)
(* a connection for a packet, and the index that keeps the packets of one  *)
(* connection ID on one pool.                                              *)
(*                                                                         *)
(* A connection object is one of Conns; it is used again once nothing      *)
(* refers to it.  Every step of a goroutine between two accesses to        *)
(* shared state is an action.  The send queue is TcpTunnelConn's, the      *)
(* heartbeat counters are TcpTunnelHeartbeat's.                            *)
(***************************************************************************)
EXTENDS Integers, Sequences, FiniteSets, FiniteSetsExt, SequencesExt

CONSTANTS
  Pools,         \* one per configured forwarder
  Conns,         \* connection objects
  ConnIDs,       \* connection IDs carried by data messages
  None,          \* no connection, pool or ID
  Configs,       \* set of [Pools -> Nat]: connections per pool; 0: not configured
  SwitchBacklog  \* tcpTunnelSwitchBacklog

ASSUME PoolsAssumption ==
  /\ None \notin Pools \cup Conns \cup ConnIDs
  /\ Configs \subseteq [Pools -> Nat]
  /\ SwitchBacklog \in Nat

VARIABLES
  connCount, \* the configuration: connections wanted in each pool
  pool,      \* [Pools -> Seq(Conns)]: the slices of TcpTunnelConnPool.conns
  refill,    \* [Pools -> where ensurePoolConnections is; "off": connecting = 0]
  fresh,     \* [Pools -> connection set up and not yet added]
  home,      \* [Conns -> pool of the connection, None: object not in use]
  open,      \* connections whose closed channel is open
  auth,      \* authenticated connections
  pc,        \* [Conns -> where readLoop is]
  left,      \* [Conns -> IDs that the Range of its forgetPool has not visited]
  doomed,    \* [Conns -> ID whose entry its forgetPool is about to delete]
  tracked,   \* [Conns -> ID readLoop tracked at the current generation]
  reading,   \* [Conns -> ID of the data message that readLoop handles]
  sameGen,   \* [Conns -> the generation readLoop read for it is still current]
  index,     \* [ConnIDs -> pool]: connIndex
  sender,    \* ID of the packet in getPoolByID
  found,     \* the pool it loaded
  senderAt,  \* where getPoolByID is
  stopped    \* the stop channel is closed

conn == <<home, open, auth>>
reader == <<pc, left, doomed, tracked, reading, sameGen>>
filler == <<refill, fresh>>
life == <<connCount, stopped>>
sending == <<sender, found, senderAt>>
vars == <<pool, filler, conn, reader, index, sending, life>>

Init ==
  /\ connCount \in Configs
  /\ pool = [p \in Pools |-> <<>>]
  /\ refill = [p \in Pools |-> "off"] /\ fresh = [p \in Pools |-> None]
  /\ home = [c \in Conns |-> None] /\ open = {} /\ auth = {}
  /\ pc = [c \in Conns |-> "off"]
  /\ left = [c \in Conns |-> {}] /\ doomed = [c \in Conns |-> None]
  /\ tracked = [c \in Conns |-> None] /\ reading = [c \in Conns |-> None]
  /\ sameGen = [c \in Conns |-> FALSE]
  /\ index = [x \in ConnIDs |-> None]
  /\ sender = None /\ found = None /\ senderAt = "off"
  /\ stopped = FALSE

Go(c, at) == pc' = [pc EXCEPT ![c] = at]

-----------------------------------------------------------------------------
(* ensurePoolConnections: one goroutine per pool, guarded by connecting.   *)

\* Mutant: one connection too many.
FullBeyond(p, conns) == Len(conns) > connCount[p]

Full(p, conns) == Len(conns) >= connCount[p]

\* Start, and the connection checker's tick.  Its removal of connections
\* whose socket is nil removes none: conn is never reset.
CheckTick(p) ==
  /\ ~stopped /\ refill[p] = "off"
  /\ refill' = [refill EXCEPT ![p] = IF Full(p, pool[p]) THEN "off" ELSE "dial"]
  /\ UNCHANGED <<pool, fresh, conn, reader, index, sending, life>>

DialFails(p) ==
  /\ refill[p] = "dial"
  /\ refill' = [refill EXCEPT ![p] = "off"]
  /\ UNCHANGED <<pool, fresh, conn, reader, index, sending, life>>

\* Nothing refers to the object any more.
Unused(c) ==
  /\ c \notin open
  /\ pc[c] = "off"
  /\ \A p \in Pools : c \notin ToSet(pool[p]) /\ fresh[p] # c

\* The dial succeeds: NewTcpTunnelConn starts the loops before the
\* connection is in its pool.
DialSucceeds(p, c) ==
  /\ refill[p] = "dial" /\ Unused(c)
  /\ refill' = [refill EXCEPT ![p] = "challenge"]
  /\ fresh' = [fresh EXCEPT ![p] = c]
  /\ home' = [home EXCEPT ![c] = p]
  /\ open' = open \cup {c} /\ auth' = auth \ {c}
  /\ Go(c, "run")
  /\ tracked' = [tracked EXCEPT ![c] = None]
  /\ UNCHANGED <<pool, left, doomed, reading, sameGen, index, sending, life>>

\* Mutant: the connecting flag stays set when the challenge is refused.
SendChallengeBusy(p) ==
  /\ refill[p] = "challenge" /\ fresh[p] \in open
  /\ refill' = [refill EXCEPT ![p] = "add"]
  /\ UNCHANGED <<pool, fresh, conn, reader, index, sending, life>>

\* Write refuses the challenge when the connection is closed already.
SendChallenge(p) ==
  /\ refill[p] = "challenge"
  /\ IF fresh[p] \in open
     THEN /\ refill' = [refill EXCEPT ![p] = "add"] /\ UNCHANGED fresh
     ELSE /\ refill' = [refill EXCEPT ![p] = "off"]
          /\ fresh' = [fresh EXCEPT ![p] = None]
  /\ UNCHANGED <<pool, conn, reader, index, sending, life>>

\* Mutant: the loop goes on after Stop.
AddAfterStop(p) ==
  /\ refill[p] = "add"
  /\ pool' = [pool EXCEPT ![p] = Append(@, fresh[p])]
  /\ refill' = [refill EXCEPT ![p] = IF Full(p, pool'[p]) THEN "off" ELSE "dial"]
  /\ fresh' = [fresh EXCEPT ![p] = None]
  /\ UNCHANGED <<conn, reader, index, sending, life>>

AddConnection(p) ==
  /\ refill[p] = "add"
  /\ pool' = [pool EXCEPT ![p] = Append(@, fresh[p])]
  /\ refill' = [refill EXCEPT ![p] = IF stopped \/ Full(p, pool'[p]) THEN "off" ELSE "dial"]
  /\ fresh' = [fresh EXCEPT ![p] = None]
  /\ UNCHANGED <<conn, reader, index, sending, life>>

-----------------------------------------------------------------------------
(* readLoop.                                                               *)

Challenged(c) == \A p \in Pools : ~(fresh[p] = c /\ refill[p] = "challenge")

\* A valid AuthResponse: HandleAuthenticatedConnection.
Authenticate(c) ==
  /\ pc[c] = "run" /\ c \in open \ auth /\ Challenged(c)
  /\ auth' = auth \cup {c}
  /\ UNCHANGED <<pool, filler, home, open, reader, index, sending, life>>

\* A data message: the ID is remembered unless it was the last one tracked
\* and the generation has not changed since.
ReadData(c, x) ==
  /\ pc[c] = "run" /\ c \in open \cap auth
  /\ tracked[c] # x
  /\ reading' = [reading EXCEPT ![c] = x]
  /\ sameGen' = [sameGen EXCEPT ![c] = TRUE]
  /\ Go(c, "remember")
  /\ UNCHANGED <<pool, filler, conn, left, doomed, tracked, index, sending, life>>

RememberConnID(c) ==
  /\ pc[c] = "remember"
  /\ index' = [index EXCEPT ![reading[c]] = home[c]]
  /\ tracked' = [tracked EXCEPT ![c] = IF sameGen[c] THEN reading[c] ELSE None]
  /\ reading' = [reading EXCEPT ![c] = None]
  /\ sameGen' = [sameGen EXCEPT ![c] = FALSE]
  /\ Go(c, "run")
  /\ UNCHANGED <<pool, filler, conn, left, doomed, sending, life>>

-----------------------------------------------------------------------------
(* The end of a connection.  Disconnect removes it, counts what is left    *)
(* (one step), forgets the pool's IDs if that was the last one, bumps the  *)
(* generation and closes.                                                  *)

\* A closed connection is never usable again.
Close(c) ==
  /\ open' = open \ {c} /\ auth' = auth \ {c}
  /\ home' = IF pc'[c] = "off" THEN [home EXCEPT ![c] = None] ELSE home

Without(c) == RemoveFirst(pool[home[c]], c)

\* A new generation: what the read loops tracked no longer counts.
NewGeneration ==
  /\ tracked' = [c \in Conns |-> None]
  /\ sameGen' = [c \in Conns |-> FALSE]

\* A read error, a deadline, a malformed or refused message, a Disconnect
\* message, the closed channel or the stop channel: readLoop returns.
ReadEnds(c) ==
  /\ pc[c] = "run"
  /\ pool' = [pool EXCEPT ![home[c]] = Without(c)]
  /\ tracked' = [tracked EXCEPT ![c] = None]
  /\ IF Without(c) = <<>>
     THEN /\ Go(c, "forget") /\ left' = [left EXCEPT ![c] = ConnIDs]
          /\ UNCHANGED conn
     ELSE Go(c, "off") /\ Close(c) /\ UNCHANGED left
  /\ UNCHANGED <<filler, doomed, reading, sameGen, index, sending, life>>

\* A write fails, or too many heartbeats in a row went unanswered: another
\* goroutine calls Disconnect, here in one step, while readLoop still runs.
GiveUp(c) ==
  /\ c \in open
  /\ pool' = [pool EXCEPT ![home[c]] = Without(c)]
  /\ IF Without(c) = <<>>
     THEN /\ index' = [x \in ConnIDs |-> IF index[x] = home[c] THEN None ELSE index[x]]
          /\ NewGeneration
     ELSE UNCHANGED <<index, tracked, sameGen>>
  /\ open' = open \ {c} /\ auth' = auth \ {c}
  /\ UNCHANGED <<filler, home, pc, left, doomed, reading, sending, life>>

\* forgetPool: Range visits one ID after the other ...
ForgetPool(c) ==
  /\ pc[c] = "forget" /\ doomed[c] = None
  /\ \E x \in left[c] :
       /\ left' = [left EXCEPT ![c] = @ \ {x}]
       /\ doomed' = [doomed EXCEPT ![c] = IF index[x] = home[c] THEN x ELSE None]
  /\ UNCHANGED <<pool, filler, conn, pc, tracked, reading, sameGen, index, sending, life>>

\* Mutant: the generation stays the same.
DeleteUncounted(c) ==
  /\ doomed[c] # None
  /\ index' = [index EXCEPT ![doomed[c]] = None]
  /\ doomed' = [doomed EXCEPT ![c] = None]
  /\ IF left[c] = {} THEN Go(c, "off") /\ Close(c) ELSE Go(c, "forget") /\ UNCHANGED conn
  /\ UNCHANGED <<pool, filler, left, tracked, reading, sameGen, sending, life>>

\* ... deletes the entry if it named the pool, whatever it names by then ...
DeleteEntry(c) ==
  /\ doomed[c] # None
  /\ index' = [index EXCEPT ![doomed[c]] = None]
  /\ doomed' = [doomed EXCEPT ![c] = None]
  /\ UNCHANGED <<pool, filler, conn, pc, left, tracked, reading, sameGen, sending, life>>

\* ... and bumps the generation in the end.
BumpGeneration(c) ==
  /\ pc[c] = "forget" /\ left[c] = {} /\ doomed[c] = None
  /\ NewGeneration /\ Go(c, "off") /\ Close(c)
  /\ UNCHANGED <<pool, filler, left, doomed, reading, index, sending, life>>

-----------------------------------------------------------------------------
(* HandlePacket.                                                           *)

Usable(c) == c \in open \cap auth

\* With priority_conn (and a priority_size) the first of several connections
\* is kept for small packets.
Reserved(p, priorityConn) == priorityConn /\ Len(pool[p]) >= 2
Ordinary(p, priorityConn) ==
  {c \in ToSet(IF Reserved(p, priorityConn) THEN Tail(pool[p]) ELSE pool[p]) : Usable(c)}

\* Mutant: the reserved connection is never a fallback.
PickWithoutFallback(p, current, backlog, small, priorityConn) ==
  LET cs == Ordinary(p, priorityConn)
  IN IF cs = {} THEN None ELSE CHOOSE c \in cs : \A d \in cs : backlog[c] <= backlog[d]

\* The connection for a packet, given the pool's current one and the backlogs.
PickConn(p, current, backlog, small, priorityConn) ==
  LET cs == Ordinary(p, priorityConn)
      reserved == Reserved(p, priorityConn) /\ Usable(Head(pool[p]))
      least == {c \in cs : \A d \in cs : backlog[c] <= backlog[d]}
      best == pool[p][Min({i \in DOMAIN pool[p] : pool[p][i] \in least})]
  IN IF reserved /\ (small \/ cs = {}) THEN Head(pool[p])
     ELSE IF cs = {} THEN None
     ELSE IF current \in cs /\ backlog[current] <= backlog[best] + SwitchBacklog THEN current
     ELSE best

\* Backlogs of a pool's connections: as good as each other, just within and
\* just beyond SwitchBacklog.
Backlogs(p) == [ToSet(pool[p]) -> {0, SwitchBacklog, SwitchBacklog + 1}]

\* The pool of a packet with the ID x: getPoolByID finds an entry.  (A packet
\* without an ID gets a generated one, which is in no index.  Without an entry
\* pickPoolForPacket goes on.  PickConn and Write then change only current, a
\* hint, and the connection's queue; broadcast mode does no more than this for
\* each pool.)
HandlePacket(x) ==
  /\ senderAt = "off" /\ index[x] # None
  /\ sender' = x /\ found' = index[x] /\ senderAt' = "count"
  /\ UNCHANGED <<pool, filler, conn, reader, index, life>>

\* The entry of an empty pool is to be deleted, whatever it is by then.
SenderCounts ==
  /\ senderAt = "count"
  /\ found' = None
  /\ IF pool[found] = <<>> THEN senderAt' = "delete" /\ UNCHANGED sender
     ELSE senderAt' = "off" /\ sender' = None
  /\ UNCHANGED <<pool, filler, conn, reader, index, life>>

SenderDeletes ==
  /\ senderAt = "delete"
  /\ index' = [index EXCEPT ![sender] = None]
  /\ sender' = None /\ senderAt' = "bump"
  /\ UNCHANGED <<pool, filler, conn, reader, found, life>>

SenderBumps ==
  /\ senderAt = "bump" /\ senderAt' = "off"
  /\ NewGeneration
  /\ UNCHANGED <<pool, filler, conn, pc, left, doomed, reading, index, sender, found, life>>

\* The connections that GetNextConn goes round.
GetNextConn(p) == {c \in ToSet(pool[p]) : Usable(c)}

\* pickPoolForPacket takes a pool in which GetNextConn finds a connection.
PickPool(x, p) ==
  /\ senderAt = "off" /\ index[x] = None /\ GetNextConn(p) # {}
  /\ index' = [index EXCEPT ![x] = p]
  /\ UNCHANGED <<pool, filler, conn, reader, sending, life>>

-----------------------------------------------------------------------------

\* Stop closes the connections it finds in the pools; the others end with
\* their read loops.
Stop ==
  /\ ~stopped /\ stopped' = TRUE
  /\ LET closing == UNION {ToSet(pool[p]) : p \in Pools}
     IN open' = open \ closing /\ auth' = auth \ closing
  /\ UNCHANGED <<connCount, pool, filler, home, reader, index, sending>>

PoolNext(p) ==
  \/ CheckTick(p) \/ DialFails(p)
  \/ \E c \in Conns : DialSucceeds(p, c)
  \/ SendChallenge(p) \/ AddConnection(p)

ConnNext(c) ==
  \/ Authenticate(c) \/ (\E x \in ConnIDs : ReadData(c, x)) \/ RememberConnID(c)
  \/ ReadEnds(c) \/ GiveUp(c) \/ ForgetPool(c) \/ DeleteEntry(c) \/ BumpGeneration(c)

SenderNext ==
  \/ \E x \in ConnIDs : HandlePacket(x) \/ \E p \in Pools : PickPool(x, p)
  \/ SenderCounts \/ SenderDeletes \/ SenderBumps

Next ==
  \/ \E p \in Pools : PoolNext(p)
  \/ \E c \in Conns : ConnNext(c)
  \/ SenderNext \/ Stop

Spec == Init /\ [][Next]_vars

\* Goroutines run, the ticker ticks, a dial that is tried again and again
\* succeeds with a connection that lasts until its challenge is queued, and
\* a read loop sees the stop or closed channel at its next
\* deadline at the latest.
Fairness ==
  /\ \A p \in Pools :
       /\ WF_vars(CheckTick(p))
       /\ SF_vars(\E c \in Conns : DialSucceeds(p, c))
       /\ SF_vars(fresh[p] \in open /\ SendChallenge(p))
       /\ WF_vars(SendChallenge(p)) /\ WF_vars(AddConnection(p))
  /\ \A c \in Conns :
       /\ WF_vars(RememberConnID(c))
       /\ WF_vars((stopped \/ c \notin open) /\ ReadEnds(c))
       /\ WF_vars(ForgetPool(c)) /\ WF_vars(DeleteEntry(c)) /\ WF_vars(BumpGeneration(c))

FairSpec == Spec /\ Fairness

-----------------------------------------------------------------------------

\* However connections fail, are refilled and are removed twice, a pool
\* never holds more than its configured number, each once and in no other
\* pool (ensurePoolConnections, AddConnection, RemoveConnection).
PoolWithinCount ==
  \A p \in Pools :
    /\ Len(pool[p]) <= connCount[p] /\ IsInjective(pool[p])
    /\ \A q \in Pools \ {p} : ToSet(pool[p]) \cap ToSet(pool[q]) = {}

\* Some goroutine deleted an entry and has yet to bump the generation.
BumpPending == senderAt = "bump" \/ \E c \in Conns : pc[c] = "forget"

\* A read loop that skips RememberConnID because the ID and the generation
\* are the ones it tracked last skips it rightly: the ID is in the index,
\* whatever was forgotten meanwhile, so replies still find a pool.
SkippedIsIndexed ==
  \A c \in Conns : tracked[c] # None => index[tracked[c]] # None \/ BumpPending

\* Whatever the backlogs, PickConn finds a usable connection if the pool has
\* one, gives a large packet the reserved one only if no other is usable,
\* and otherwise one that is at most SwitchBacklog worse than the best.
PickIsRight ==
  \A p \in {q \in Pools : pool[q] # <<>>} : \A b \in Backlogs(p) :
    \A current \in Conns \cup {None}, small, priorityConn \in BOOLEAN :
      LET c == PickConn(p, current, b, small, priorityConn)
          cs == Ordinary(p, priorityConn)
          isReserved == Reserved(p, priorityConn) /\ c = Head(pool[p])
      IN /\ GetNextConn(p) # {} => Usable(c) /\ c \in ToSet(pool[p])
         /\ isReserved => small \/ cs = {}
         /\ c # None /\ ~isReserved => \A d \in cs : b[c] <= b[d] + SwitchBacklog

\* The only pool that is configured is empty.
Drained ==
  \E p \in Pools : pool[p] = <<>> /\ \A q \in Pools : connCount[q] > 0 <=> q = p

\* An empty pool is filled again, whichever dials fail and whenever the
\* goroutine that refills it gives up.  (Stated for a single pool: several
\* would compete for the finitely many objects in Conns.)
PoolRefills == Drained ~> ~Drained \/ stopped

\* After Stop every connection is closed for good, also those that were
\* being set up while Stop closed the pools.
StopClosesAll == stopped ~> [](open = {})
=============================================================================
