---------------------------- MODULE TcpTunnelListen ----------------------------
(***************************************************************************)
(* The server side of the TCP tunnel (src/tcp_tunnel_listen.go): accepted  *)
(* connections, the map from forward ID and pool ID to the pool of         *)
(* authenticated connections, and the index from connection IDs to pools   *)
(* by which replies find the client that sent the packets.                 *)
(*                                                                         *)
(* The map is loaded, cloned, changed and stored without compare-and-swap, *)
(* while the pools in it are shared objects that change at once.  Nothing  *)
(* keeps two goroutines from doing so at the same time: the load, the      *)
(* change to the pool, the count of what is left in it and the store are   *)
(* separate steps of a connection's readLoop or writeLoop.                 *)
(***************************************************************************)
EXTENDS Integers, FiniteSets

CONSTANTS
  Forwards,  \* forward IDs: the clients
  PoolIDs,   \* pool IDs of one client
  Conns,     \* connection objects, used again once nothing refers to them
  Pools,     \* pool objects, likewise
  ConnIDs,   \* connection IDs carried by data messages
  Client,    \* [ConnIDs -> Forwards]: the client that uses an ID
  None,
  Failing    \* connections on which a write may fail

VARIABLES
  connections, \* [Keys -> Pools \cup {None}]: the stored map
  members,     \* [Pools -> SUBSET Conns]: the pools' slices
  key,         \* [Conns -> key its challenge named, None before it]
  open,        \* connections whose closed channel is open
  auth,        \* connections whose authState is set
  pc,          \* [Loops -> where the loop is]
  next,        \* [Loops -> the copy of the map that the loop is about to store]
  held,        \* [Loops -> pool that the loop joins, leaves or forgets]
  left,        \* [Loops -> IDs that the Range of its forgetPool has not visited]
  doomed,      \* [Loops -> ID whose entry its forgetPool is about to delete]
  tracked,     \* [Conns -> ID readLoop tracked at the current generation]
  reading,     \* [Conns -> ID of the data message that readLoop handles]
  sameGen,     \* [Conns -> the generation readLoop read for it is current]
  index,       \* [ConnIDs -> Pools \cup {None}]: connIndex
  sender,      \* ID of the packet in getPoolByID
  found,       \* the pool it loaded
  senderAt,    \* where getPoolByID is
  stopped      \* stopCh and the listener are closed

conn == <<key, open, auth>>
store == <<connections, members>>
update == <<next, held, left, doomed>>
tracking == <<tracked, reading, sameGen>>
sending == <<sender, found, senderAt>>
vars == <<store, conn, pc, update, tracking, index, sending, stopped>>

Keys == Forwards \X PoolIDs

\* The goroutines of a connection.
Loops == Conns \X {"read", "write"}
Reader(c) == <<c, "read">>
Writer(c) == <<c, "write">>

ASSUME ListenAssumption ==
  /\ None \notin Keys \cup Pools \cup ConnIDs
  /\ Client \in [ConnIDs -> Forwards]

NoMap == [k \in Keys |-> None]

Init ==
  /\ connections = NoMap
  /\ members = [p \in Pools |-> {}]
  /\ key = [c \in Conns |-> None] /\ open = {} /\ auth = {}
  /\ pc = [g \in Loops |-> "off"]
  /\ next = [g \in Loops |-> NoMap] /\ held = [g \in Loops |-> None]
  /\ left = [g \in Loops |-> {}] /\ doomed = [g \in Loops |-> None]
  /\ tracked = [c \in Conns |-> None] /\ reading = [c \in Conns |-> None]
  /\ sameGen = [c \in Conns |-> FALSE]
  /\ index = [x \in ConnIDs |-> None]
  /\ sender = None /\ found = None /\ senderAt = "off"
  /\ stopped = FALSE

Go(g, at) == pc' = [pc EXCEPT ![g] = at]

\* Nothing refers to the pool object.
UnusedPool(p) ==
  /\ members[p] = {} /\ found # p
  /\ \A k \in Keys : connections[k] # p /\ \A g \in Loops : next[g][k] # p
  /\ \A x \in ConnIDs : index[x] # p
  /\ \A g \in Loops : held[g] # p

-----------------------------------------------------------------------------
(* Accepting and authenticating.                                           *)

\* NewTcpTunnelConn starts the loops of an accepted connection.
Accept(c) ==
  /\ ~stopped /\ c \notin open
  /\ pc[Reader(c)] = "off" /\ pc[Writer(c)] = "off"
  /\ \A p \in Pools : c \notin members[p]
  /\ open' = open \cup {c} /\ auth' = auth \ {c}
  /\ key' = [key EXCEPT ![c] = None]
  /\ tracked' = [tracked EXCEPT ![c] = None]
  /\ pc' = [pc EXCEPT ![Reader(c)] = "run", ![Writer(c)] = "run"]
  /\ UNCHANGED <<store, update, reading, sameGen, index, sending, stopped>>

\* Mutant: the pool is looked up by its pool ID alone.
PoolByPoolID(k, p) ==
  LET same == {j \in Keys : j[2] = k[2] /\ connections[j] # None}
  IN IF same # {} THEN p = connections[CHOOSE j \in same : TRUE] ELSE UnusedPool(p)

\* The pool of the key, or a new one.
PoolFor(k, p) == IF connections[k] # None THEN p = connections[k] ELSE UnusedPool(p)

\* readLoop verified an AuthChallenge; HandleAuthenticatedConnection writes the
\* response, loads the map and puts the pool into its copy.
Challenge(c, k, p) ==
  /\ pc[Reader(c)] = "run" /\ c \in open \ auth /\ key[c] = None
  /\ PoolFor(k, p)
  /\ key' = [key EXCEPT ![c] = k]
  /\ next' = [next EXCEPT ![Reader(c)] = [connections EXCEPT ![k] = p]]
  /\ held' = [held EXCEPT ![Reader(c)] = p]
  /\ Go(Reader(c), "add")
  /\ UNCHANGED <<store, open, auth, left, doomed, tracking, index, sending, stopped>>

\* The response is refused as the connection is closed: readLoop will end.
ChallengeRefused(c, k) ==
  /\ pc[Reader(c)] = "run" /\ c \notin open \cup auth /\ key[c] = None
  /\ key' = [key EXCEPT ![c] = k]
  /\ UNCHANGED <<store, open, auth, pc, update, tracking, index, sending, stopped>>

AddConnection(c) ==
  /\ pc[Reader(c)] = "add"
  /\ members' = [members EXCEPT ![held[Reader(c)]] = @ \cup {c}]
  /\ held' = [held EXCEPT ![Reader(c)] = None]
  /\ Go(Reader(c), "join")
  /\ UNCHANGED <<connections, conn, next, left, doomed, tracking, index, sending, stopped>>

\* The copy is stored and the connection may carry data.
StoreJoined(c) ==
  /\ pc[Reader(c)] = "join"
  /\ connections' = next[Reader(c)]
  /\ next' = [next EXCEPT ![Reader(c)] = NoMap]
  /\ auth' = auth \cup {c} /\ Go(Reader(c), "run")
  /\ UNCHANGED <<members, key, open, held, left, doomed, tracking, index, sending, stopped>>

-----------------------------------------------------------------------------
(* Data: RememberConnID.                                                   *)

ReadData(c, x) ==
  /\ pc[Reader(c)] = "run" /\ c \in open \cap auth
  /\ Client[x] = key[c][1] /\ tracked[c] # x
  /\ reading' = [reading EXCEPT ![c] = x]
  /\ sameGen' = [sameGen EXCEPT ![c] = TRUE]
  /\ Go(Reader(c), "remember")
  /\ UNCHANGED <<store, conn, update, tracked, index, sending, stopped>>

\* Loads the map and stores into the index.  Nothing is stored if the key has
\* no pool; readLoop tracks the ID anyway.
RememberConnID(c) ==
  /\ pc[Reader(c)] = "remember"
  /\ index' = IF connections[key[c]] = None THEN index
              ELSE [index EXCEPT ![reading[c]] = connections[key[c]]]
  /\ tracked' = [tracked EXCEPT ![c] = IF sameGen[c] THEN reading[c] ELSE None]
  /\ reading' = [reading EXCEPT ![c] = None]
  /\ sameGen' = [sameGen EXCEPT ![c] = FALSE]
  /\ Go(Reader(c), "run")
  /\ UNCHANGED <<store, conn, update, sending, stopped>>

-----------------------------------------------------------------------------
(* Disconnect, by readLoop when it ends (an error, a deadline, a Disconnect *)
(* message, the closed or the stop channel) and by writeLoop when a write   *)
(* fails.                                                                   *)

\* A new generation: what the read loops tracked no longer counts.
NewGeneration ==
  /\ tracked' = [c \in Conns |-> None]
  /\ sameGen' = [c \in Conns |-> FALSE]

\* Disconnect closes the connection and the loop is over.
Close(g) == open' = open \ {g[1]} /\ Go(g, "off") /\ UNCHANGED <<key, auth>>

\* The map is loaded; there is something to do if it has the key.
Disconnect(g) ==
  /\ pc[g] = "run"
  /\ g[2] = "write" => g[1] \in Failing
  /\ LET k == key[g[1]]
         p == IF k = None THEN None ELSE connections[k]
     IN IF p = None THEN Close(g) /\ UNCHANGED <<next, held>>
        ELSE /\ next' = [next EXCEPT ![g] = connections]
             /\ held' = [held EXCEPT ![g] = p]
             /\ Go(g, "remove") /\ UNCHANGED conn
  /\ UNCHANGED <<store, left, doomed, tracking, index, sending, stopped>>

RemoveConnection(g) ==
  /\ pc[g] = "remove"
  /\ members' = [members EXCEPT ![held[g]] = @ \ {g[1]}]
  /\ Go(g, "count")
  /\ UNCHANGED <<connections, conn, update, tracking, index, sending, stopped>>

\* A pool without connections is taken out of the copy.
CountLeft(g) ==
  /\ pc[g] = "count"
  /\ IF members[held[g]] = {}
     THEN next' = [next EXCEPT ![g][key[g[1]]] = None] /\ UNCHANGED held
     ELSE held' = [held EXCEPT ![g] = None] /\ UNCHANGED next
  /\ Go(g, "leave")
  /\ UNCHANGED <<store, conn, left, doomed, tracking, index, sending, stopped>>

\* The copy is stored; forgetPool follows if the pool was empty.
StoreLeft(g) ==
  /\ pc[g] = "leave"
  /\ connections' = next[g] /\ next' = [next EXCEPT ![g] = NoMap]
  /\ IF held[g] = None THEN Close(g) /\ UNCHANGED left
     ELSE Go(g, "forget") /\ left' = [left EXCEPT ![g] = ConnIDs] /\ UNCHANGED conn
  /\ UNCHANGED <<members, held, doomed, tracking, index, sending, stopped>>

\* forgetPool: Range visits one ID after the other ...
ForgetPool(g) ==
  /\ pc[g] = "forget" /\ doomed[g] = None
  /\ \E x \in left[g] :
       /\ left' = [left EXCEPT ![g] = @ \ {x}]
       /\ doomed' = [doomed EXCEPT ![g] = IF index[x] = held[g] THEN x ELSE None]
  /\ UNCHANGED <<store, conn, pc, next, held, tracking, index, sending, stopped>>

\* ... and deletes the entry if it named the pool ...
DeleteEntry(g) ==
  /\ doomed[g] # None
  /\ index' = [index EXCEPT ![doomed[g]] = None]
  /\ doomed' = [doomed EXCEPT ![g] = None]
  /\ UNCHANGED <<store, conn, pc, next, held, left, tracking, sending, stopped>>

\* ... and bumps the generation; Disconnect closes the connection.
BumpGeneration(g) ==
  /\ pc[g] = "forget" /\ left[g] = {} /\ doomed[g] = None
  /\ held' = [held EXCEPT ![g] = None]
  /\ Close(g) /\ NewGeneration
  /\ UNCHANGED <<store, next, left, doomed, reading, index, sending, stopped>>

\* writeLoop sees the closed or the stop channel.
WriteEnds(c) ==
  /\ pc[Writer(c)] = "run" /\ (c \notin open \/ stopped)
  /\ Go(Writer(c), "off")
  /\ UNCHANGED <<store, conn, update, tracking, index, sending, stopped>>

-----------------------------------------------------------------------------
(* Replies: getPoolByID.  (PickConn then takes a usable connection of the   *)
(* pool, or the reply is dropped; broadcast mode does so for every pool of  *)
(* the map.)                                                                *)

\* An entry is found.
HandlePacket(x) ==
  /\ senderAt = "off" /\ index[x] # None
  /\ sender' = x /\ found' = index[x] /\ senderAt' = "count"
  /\ UNCHANGED <<store, conn, pc, update, tracking, index, stopped>>

\* The entry of an empty pool is to be deleted, whatever it is by then.
SenderCounts ==
  /\ senderAt = "count"
  /\ found' = None
  /\ IF members[found] = {} THEN senderAt' = "delete" /\ UNCHANGED sender
     ELSE senderAt' = "off" /\ sender' = None
  /\ UNCHANGED <<store, conn, pc, update, tracking, index, stopped>>

SenderDeletes ==
  /\ senderAt = "delete"
  /\ index' = [index EXCEPT ![sender] = None]
  /\ sender' = None /\ senderAt' = "bump"
  /\ UNCHANGED <<store, conn, pc, update, tracking, found, stopped>>

SenderBumps ==
  /\ senderAt = "bump" /\ senderAt' = "off"
  /\ NewGeneration
  /\ UNCHANGED <<store, conn, pc, update, reading, index, sender, found, stopped>>

\* Stop closes stopCh and the listener; the read loops end by themselves.
Stop ==
  /\ ~stopped /\ stopped' = TRUE
  /\ UNCHANGED <<store, conn, pc, update, tracking, index, sending>>

ConnNext(c) ==
  \/ Accept(c)
  \/ \E k \in Keys : ChallengeRefused(c, k) \/ \E p \in Pools : Challenge(c, k, p)
  \/ AddConnection(c) \/ StoreJoined(c)
  \/ \E x \in ConnIDs : ReadData(c, x)
  \/ RememberConnID(c) \/ WriteEnds(c)

DisconnectNext(g) ==
  \/ Disconnect(g) \/ RemoveConnection(g) \/ CountLeft(g) \/ StoreLeft(g)
  \/ ForgetPool(g) \/ DeleteEntry(g) \/ BumpGeneration(g)

SenderNext ==
  (\E x \in ConnIDs : HandlePacket(x)) \/ SenderCounts \/ SenderDeletes \/ SenderBumps

Next ==
  \/ \E c \in Conns : ConnNext(c)
  \/ \E g \in Loops : DisconnectNext(g)
  \/ SenderNext \/ Stop

Spec == Init /\ [][Next]_vars

-----------------------------------------------------------------------------

\* Replies to an ID are sent only over connections of the client that uses the
\* ID, however pools come and go, however updates of the map overlap and
\* whichever of them is lost (HandleAuthenticatedConnection, Disconnect,
\* RememberConnID, getPoolByID).
RepliesStayWithClient ==
  \A x \in ConnIDs : index[x] # None =>
    \A c \in members[index[x]] : key[c] # None /\ key[c][1] = Client[x]

\* Some goroutine deleted an entry, or is about to, and has yet to bump the
\* generation.
BumpPending == senderAt = "bump" \/ \E g \in Loops : pc[g] = "forget"

\* Connections that carry data.
Usable == {c \in open \cap auth : pc[Reader(c)] \in {"run", "remember"}}

\* "Remember again after the ID was forgotten with another pool, so replies
\* move to this connection when a line fails" (tcp_tunnel.go, readLoop): the
\* ID of data read at the current generation is in the index.
RepliesMoveToLiveLine ==
  \A c \in Usable : tracked[c] # None => index[tracked[c]] # None \/ BumpPending
=============================================================================
