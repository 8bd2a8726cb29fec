--------------------------- MODULE ComponentsProofs ---------------------------
(***************************************************************************)
(* The parts of Components one after the other, for every size: the listen *)
(* side of the TCP tunnel, heartbeats, the rate controller, the load       *)
(* balancer and the shaper.                                                *)
(***************************************************************************)
EXTENDS Components, SumLemmas

-----------------------------------------------------------------------------
(* The replies of the listen side stay with their client, for any clients, *)
(* pools, connections and IDs, whatever updates of the map overlap and     *)
(* whichever of them is lost.  The argument: the map, the copies of it     *)
(* that loops are about to store, the members of a pool and the pools that *)
(* loops hold may contradict each other about which pool a key has, but    *)
(* they never claim one pool object for two keys.                          *)

Maps == [Keys -> Pools \cup {None}]

\* What each variable is.
ListenTyped ==
  /\ connections \in Maps
  /\ members \in [Pools -> SUBSET Conns]
  /\ key \in [Conns -> Keys \cup {None}]
  /\ pc \in [Loops -> {"off", "run", "add", "join", "remember", "remove", "count",
                       "leave", "forget"}]
  /\ next \in [Loops -> Maps]
  /\ held \in [Loops -> Pools \cup {None}]
  /\ left \in [Loops -> SUBSET ConnIDs]
  /\ doomed \in [Loops -> ConnIDs \cup {None}]
  /\ reading \in [Conns -> ConnIDs \cup {None}]
  /\ index \in [ConnIDs -> Pools \cup {None}]

\* Where a loop is tells what is known of its connection.
LoopKnows ==
  /\ \A g \in Loops :
       /\ held[g] # None => key[g[1]] # None
       /\ pc[g] \in {"off", "run", "join", "remember"} => held[g] = None
  /\ \A c \in Conns :
       /\ pc[Reader(c)] \in {"add", "join", "remember"} => key[c] # None
       /\ c \in auth => key[c] # None
       /\ pc[Reader(c)] = "remember" =>
            reading[c] \in ConnIDs /\ Client[reading[c]] = key[c][1]
  /\ \A p \in Pools : \A c \in members[p] : key[c] # None

\* Something says that p is the pool of the key k.
Claims(k, p) ==
  \/ connections[k] = p
  \/ \E g \in Loops : next[g][k] = p
  \/ \E c \in members[p] : key[c] = k
  \/ \E g \in Loops : held[g] = p /\ key[g[1]] = k

\* No pool is claimed for two keys.
ClaimsAgree ==
  \A p \in Pools : \A j, k \in Keys : Claims(j, p) /\ Claims(k, p) => j = k

\* An ID's pool in the index is claimed, if at all, for a key of its client.
IndexIsOfClient ==
  \A x \in ConnIDs : \A p \in Pools : \A k \in Keys :
    index[x] = p /\ Claims(k, p) => k[1] = Client[x]

ListenInv == ListenTyped /\ LoopKnows /\ ClaimsAgree /\ IndexIsOfClient

-----------------------------------------------------------------------------
\* A step that makes no new claim and stores nothing in the index.
LEMMA ClaimsShrink ==
  ASSUME ListenInv, ListenTyped', LoopKnows',
         \A k \in Keys, p \in Pools : Claims(k, p)' => Claims(k, p),
         \A x \in ConnIDs : index'[x] \in {index[x], None}
  PROVE  ListenInv'
<1> USE DEF ListenInv
<1>1. ClaimsAgree'
  BY DEF ClaimsAgree
<1>2. IndexIsOfClient'
  <2> SUFFICES ASSUME NEW x \in ConnIDs, NEW p \in Pools, NEW k \in Keys,
                      index'[x] = p, Claims(k, p)'
               PROVE  k[1] = Client[x]
    BY DEF IndexIsOfClient
  <2>1. index[x] = p /\ Claims(k, p)
    BY ListenAssumption
  <2> QED
    BY <2>1 DEF IndexIsOfClient
<1> QED
  BY <1>1, <1>2

\* An accepted connection is in no pool, and its loops hold none.
LEMMA StepAccept ==
  ASSUME ListenInv, NEW c \in Conns, Accept(c)
  PROVE  ListenInv'
<1> USE DEF ListenInv
<1>1. /\ Reader(c) \in Loops /\ Writer(c) \in Loops
      /\ \A g \in Loops : g[1] = c => g = Reader(c) \/ g = Writer(c)
      /\ \A d \in Conns : Reader(d) \in Loops
      /\ \A g \in Loops : g[1] \in Conns
  BY DEF Loops, Reader, Writer
<1>2. /\ pc[Reader(c)] = "off" /\ pc[Writer(c)] = "off" /\ \A p \in Pools : c \notin members[p]
      /\ key' = [key EXCEPT ![c] = None] /\ auth' = auth \ {c}
      /\ pc' = [pc EXCEPT ![Reader(c)] = "run", ![Writer(c)] = "run"]
      /\ UNCHANGED <<connections, members, next, held, left, doomed, reading, index>>
  BY DEF Accept, store, update
<1>3. \A g \in Loops : g[1] = c => held[g] = None
  BY <1>1, <1>2 DEF LoopKnows
<1>4. ListenTyped'
  BY <1>1, <1>2 DEF ListenTyped
<1>5. LoopKnows'
  <2>1. \A g \in Loops : held'[g] # None => key'[g[1]] # None
    BY <1>1, <1>2, <1>3 DEF LoopKnows, ListenTyped
  <2>2. \A g \in Loops : pc'[g] \in {"off", "run", "join", "remember"} => held'[g] = None
    BY <1>1, <1>2, <1>3 DEF LoopKnows, ListenTyped
  <2>3. \A d \in Conns : d # c => pc'[Reader(d)] = pc[Reader(d)] /\ key'[d] = key[d]
    BY <1>1, <1>2 DEF ListenTyped, Reader, Writer
  <2>4. pc'[Reader(c)] = "run"
    BY <1>1, <1>2 DEF ListenTyped, Reader, Writer
  <2>5. \A d \in Conns :
          /\ pc'[Reader(d)] \in {"add", "join", "remember"} => key'[d] # None
          /\ d \in auth' => key'[d] # None
          /\ pc'[Reader(d)] = "remember" =>
               reading'[d] \in ConnIDs /\ Client[reading'[d]] = key'[d][1]
    BY <1>2, <2>3, <2>4 DEF LoopKnows
  <2>6. \A p \in Pools : \A d \in members'[p] : key'[d] # None
    BY <1>2 DEF LoopKnows, ListenTyped
  <2> QED
    BY <2>1, <2>2, <2>5, <2>6 DEF LoopKnows
<1>6. \A k \in Keys, p \in Pools : Claims(k, p)' => Claims(k, p)
  <2> SUFFICES ASSUME NEW k \in Keys, NEW p \in Pools, Claims(k, p)'
               PROVE  Claims(k, p)
    OBVIOUS
  <2>1. CASE \E d \in members'[p] : key'[d] = k
    BY <1>2, <2>1 DEF Claims, ListenTyped
  <2>2. CASE \E g \in Loops : held'[g] = p /\ key'[g[1]] = k
    <3>1. PICK g \in Loops : held'[g] = p /\ key'[g[1]] = k
      BY <2>2
    <3>2. g[1] # c
      BY <1>2, <1>3, <3>1, ListenAssumption
    <3> QED
      BY <1>1, <1>2, <3>1, <3>2 DEF Claims, ListenTyped
  <2> QED
    BY <1>2, <2>1, <2>2 DEF Claims
<1> QED
  BY <1>2, <1>4, <1>5, <1>6, ClaimsShrink

\* The connection takes the pool of its key, or one that nothing refers to.
LEMMA StepChallenge ==
  ASSUME ListenInv, NEW c \in Conns, NEW k \in Keys, NEW p \in Pools, Challenge(c, k, p)
  PROVE  ListenInv'
<1> USE DEF ListenInv
<1> DEFINE r == Reader(c)
<1>1. /\ r \in Loops /\ r[1] = c
      /\ \A d \in Conns : Reader(d) \in Loops /\ (Reader(d) = r => d = c)
      /\ \A g \in Loops : g[1] \in Conns
  BY DEF Loops, Reader
<1>2. /\ pc[r] = "run" /\ c \notin auth /\ key[c] = None /\ PoolFor(k, p)
      /\ key' = [key EXCEPT ![c] = k]
      /\ next' = [next EXCEPT ![r] = [connections EXCEPT ![k] = p]]
      /\ held' = [held EXCEPT ![r] = p]
      /\ pc' = [pc EXCEPT ![r] = "add"]
      /\ UNCHANGED <<connections, members, auth, left, doomed, reading, index>>
  BY DEF Challenge, Go, store, tracking
<1> HIDE DEF r
<1>3. /\ key'[c] = k /\ held'[r] = p /\ pc'[r] = "add"
      /\ next'[r] = [connections EXCEPT ![k] = p]
      /\ \A d \in Conns : d # c => key'[d] = key[d]
      /\ \A g \in Loops : g # r => held'[g] = held[g] /\ pc'[g] = pc[g] /\ next'[g] = next[g]
  BY <1>1, <1>2 DEF ListenTyped
<1>4. /\ \A g \in Loops : g[1] = c => held[g] = None
      /\ \A q \in Pools : c \notin members[q]
  BY <1>2 DEF LoopKnows
<1>5. None \notin Keys /\ None \notin Pools
  BY ListenAssumption
<1>6. ListenTyped'
  BY <1>1, <1>2 DEF ListenTyped, Maps
<1>7. LoopKnows'
  <2>1. \A g \in Loops : held'[g] # None => key'[g[1]] # None
    BY <1>1, <1>3, <1>4, <1>5 DEF LoopKnows
  <2>2. \A g \in Loops : pc'[g] \in {"off", "run", "join", "remember"} => held'[g] = None
    BY <1>1, <1>3 DEF LoopKnows
  <2>3. \A d \in Conns :
          /\ pc'[Reader(d)] \in {"add", "join", "remember"} => key'[d] # None
          /\ d \in auth' => key'[d] # None
          /\ pc'[Reader(d)] = "remember" =>
               reading'[d] \in ConnIDs /\ Client[reading'[d]] = key'[d][1]
    <3> SUFFICES ASSUME NEW d \in Conns
                 PROVE  /\ pc'[Reader(d)] \in {"add", "join", "remember"} => key'[d] # None
                        /\ d \in auth' => key'[d] # None
                        /\ pc'[Reader(d)] = "remember" =>
                             reading'[d] \in ConnIDs /\ Client[reading'[d]] = key'[d][1]
      OBVIOUS
    <3>1. CASE d = c
      BY <1>2, <1>3, <1>5, <3>1 DEF r
    <3>2. CASE d # c
      BY <1>1, <1>2, <1>3, <3>2 DEF LoopKnows
    <3> QED
      BY <3>1, <3>2
  <2>4. \A q \in Pools : \A d \in members'[q] : key'[d] # None
    BY <1>2, <1>3, <1>4 DEF LoopKnows, ListenTyped
  <2> QED
    BY <2>1, <2>2, <2>3, <2>4 DEF LoopKnows
<1>8. \A j \in Keys, q \in Pools : Claims(j, q)' => Claims(j, q) \/ (j = k /\ q = p)
  <2> SUFFICES ASSUME NEW j \in Keys, NEW q \in Pools, Claims(j, q)', ~(j = k /\ q = p)
               PROVE  Claims(j, q)
    OBVIOUS
  <2>1. CASE \E g \in Loops : next'[g][j] = q
    <3>1. PICK g \in Loops : next'[g][j] = q
      BY <2>1
    <3>2. CASE g = r
      <4>1. connections[j] = q
        BY <1>3, <3>1, <3>2 DEF ListenTyped, Maps
      <4> QED
        BY <4>1 DEF Claims
    <3>3. CASE g # r
      BY <1>3, <3>1, <3>3 DEF Claims
    <3> QED
      BY <3>2, <3>3
  <2>2. CASE \E d \in members'[q] : key'[d] = j
    BY <1>2, <1>3, <1>4, <2>2 DEF Claims, ListenTyped
  <2>3. CASE \E g \in Loops : held'[g] = q /\ key'[g[1]] = j
    <3>1. PICK g \in Loops : held'[g] = q /\ key'[g[1]] = j
      BY <2>3
    <3>2. g # r
      BY <1>1, <1>3, <3>1
    <3>3. g[1] # c
      BY <1>3, <1>4, <1>5, <3>1, <3>2
    <3> QED
      BY <1>1, <1>3, <3>1, <3>2, <3>3 DEF Claims
  <2> QED
    BY <1>2, <2>1, <2>2, <2>3 DEF Claims
<1>9. /\ \A j \in Keys : Claims(j, p) => j = k
      /\ \A x \in ConnIDs : index[x] = p => k[1] = Client[x]
  <2>1. CASE connections[k] # None
    <3>1. Claims(k, p)
      BY <1>2, <2>1 DEF PoolFor, Claims
    <3> QED
      BY <1>5, <3>1 DEF ClaimsAgree, IndexIsOfClient
  <2>2. CASE connections[k] = None
    <3>1. UnusedPool(p)
      BY <1>2, <2>2 DEF PoolFor
    <3>2. \A j \in Keys : ~Claims(j, p)
      BY <3>1 DEF UnusedPool, Claims
    <3> QED
      BY <3>1, <3>2 DEF UnusedPool
  <2> QED
    BY <2>1, <2>2
<1>10. ClaimsAgree'
  <2> SUFFICES ASSUME NEW q \in Pools, NEW i \in Keys, NEW j \in Keys,
                      Claims(i, q)', Claims(j, q)'
               PROVE  i = j
    BY DEF ClaimsAgree
  <2>1. Claims(i, q) \/ (i = k /\ q = p)
    BY <1>8
  <2>2. Claims(j, q) \/ (j = k /\ q = p)
    BY <1>8
  <2> QED
    BY <1>9, <2>1, <2>2 DEF ClaimsAgree
<1>11. IndexIsOfClient'
  <2> SUFFICES ASSUME NEW x \in ConnIDs, NEW q \in Pools, NEW j \in Keys,
                      index'[x] = q, Claims(j, q)'
               PROVE  j[1] = Client[x]
    BY DEF IndexIsOfClient
  <2>1. index[x] = q
    BY <1>2
  <2>2. Claims(j, q) \/ (j = k /\ q = p)
    BY <1>8
  <2> QED
    BY <1>9, <2>1, <2>2 DEF IndexIsOfClient
<1> QED
  BY <1>6, <1>7, <1>10, <1>11

\* Nothing had been claimed in the name of a connection whose response is refused.
LEMMA StepChallengeRefused ==
  ASSUME ListenInv, NEW c \in Conns, NEW k \in Keys, ChallengeRefused(c, k)
  PROVE  ListenInv'
<1> USE DEF ListenInv
<1>1. /\ pc[Reader(c)] = "run" /\ c \notin auth /\ key[c] = None
      /\ key' = [key EXCEPT ![c] = k]
      /\ UNCHANGED <<connections, members, auth, pc, next, held, left, doomed, reading, index>>
  BY DEF ChallengeRefused, store, update, tracking
<1>2. /\ \A g \in Loops : g[1] \in Conns /\ (g[1] = c => held[g] = None)
      /\ \A q \in Pools : c \notin members[q]
  BY <1>1 DEF LoopKnows, Loops
<1>3. None \notin Keys /\ None \notin Pools
  BY ListenAssumption
<1>4. ListenTyped'
  BY <1>1 DEF ListenTyped
<1>5. LoopKnows'
  BY <1>1, <1>2, <1>3 DEF LoopKnows, ListenTyped
<1>6. \A j \in Keys, q \in Pools : Claims(j, q)' => Claims(j, q)
  <2> SUFFICES ASSUME NEW j \in Keys, NEW q \in Pools, Claims(j, q)'
               PROVE  Claims(j, q)
    OBVIOUS
  <2>1. CASE \E d \in members'[q] : key'[d] = j
    BY <1>1, <1>2, <2>1 DEF Claims, ListenTyped
  <2>2. CASE \E g \in Loops : held'[g] = q /\ key'[g[1]] = j
    BY <1>1, <1>2, <1>3, <2>2 DEF Claims, ListenTyped
  <2> QED
    BY <1>1, <2>1, <2>2 DEF Claims
<1> QED
  BY <1>1, <1>4, <1>5, <1>6, ClaimsShrink

\* The pool was held for the key of the connection that it takes in.
LEMMA StepAddConnection ==
  ASSUME ListenInv, NEW c \in Conns, AddConnection(c)
  PROVE  ListenInv'
<1> USE DEF ListenInv
<1> DEFINE r == Reader(c)
<1>1. /\ r \in Loops /\ r[1] = c /\ \A d \in Conns : Reader(d) \in Loops
      /\ \A d \in Conns : Reader(d) = r => d = c
  BY DEF Loops, Reader
<1>2. /\ pc[r] = "add" /\ key[c] # None
      /\ members' = [members EXCEPT ![held[r]] = @ \cup {c}]
      /\ held' = [held EXCEPT ![r] = None] /\ pc' = [pc EXCEPT ![r] = "join"]
      /\ UNCHANGED <<connections, key, auth, next, left, doomed, reading, index>>
  BY DEF AddConnection, Go, conn, tracking, LoopKnows
<1> HIDE DEF r
<1>3. ListenTyped'
  BY <1>1, <1>2 DEF ListenTyped
<1>4. LoopKnows'
  <2>1. \A g \in Loops : held'[g] # None => held'[g] = held[g]
    BY <1>2 DEF ListenTyped
  <2>2. \A p \in Pools : \A d \in members'[p] : key'[d] # None
    BY <1>2 DEF LoopKnows, ListenTyped
  <2>3. \A g \in Loops : pc'[g] \in {"off", "run", "join", "remember"} => held'[g] = None
    BY <1>1, <1>2 DEF LoopKnows, ListenTyped
  <2>4. \A d \in Conns :
          /\ pc'[Reader(d)] \in {"add", "join", "remember"} => key'[d] # None
          /\ pc'[Reader(d)] = "remember" =>
               reading'[d] \in ConnIDs /\ Client[reading'[d]] = key'[d][1]
    BY <1>1, <1>2 DEF LoopKnows, ListenTyped
  <2> QED
    BY <1>2, <2>1, <2>2, <2>3, <2>4 DEF LoopKnows
<1>5. \A j \in Keys, q \in Pools : Claims(j, q)' => Claims(j, q)
  <2> SUFFICES ASSUME NEW j \in Keys, NEW q \in Pools, Claims(j, q)'
               PROVE  Claims(j, q)
    OBVIOUS
  <2>1. CASE \E d \in members'[q] : key'[d] = j
    <3>1. PICK d \in members'[q] : key'[d] = j
      BY <2>1
    <3>2. CASE d \in members[q]
      BY <1>2, <3>1, <3>2 DEF Claims
    <3>3. CASE d \notin members[q]
      <4>1. q = held[r] /\ d = c
        BY <1>2, <3>1, <3>3 DEF ListenTyped
      <4> QED
        BY <1>1, <1>2, <3>1, <4>1 DEF Claims
    <3> QED
      BY <3>2, <3>3
  <2>2. CASE \E g \in Loops : held'[g] = q /\ key'[g[1]] = j
    BY <1>2, <2>2, ListenAssumption DEF Claims, ListenTyped
  <2> QED
    BY <1>2, <2>1, <2>2 DEF Claims
<1> QED
  BY <1>2, <1>3, <1>4, <1>5, ClaimsShrink

\* What a loop stores, it had claimed before.
LEMMA StepStore ==
  ASSUME ListenInv, NEW g \in Loops,
         connections' = next[g], next' = [next EXCEPT ![g] = NoMap],
         ListenTyped', LoopKnows', UNCHANGED <<members, key, held, index>>
  PROVE  ListenInv'
<1> USE DEF ListenInv
<1>1. \A j \in Keys, q \in Pools : Claims(j, q)' => Claims(j, q)
  <2> SUFFICES ASSUME NEW j \in Keys, NEW q \in Pools, Claims(j, q)'
               PROVE  Claims(j, q)
    OBVIOUS
  <2>1. CASE connections'[j] = q
    BY <2>1 DEF Claims
  <2>2. CASE \E h \in Loops : next'[h][j] = q
    BY <2>2, ListenAssumption DEF Claims, ListenTyped, NoMap
  <2> QED
    BY <2>1, <2>2 DEF Claims
<1> QED
  BY <1>1, ClaimsShrink

LEMMA StepStoreJoined ==
  ASSUME ListenInv, NEW c \in Conns, StoreJoined(c)
  PROVE  ListenInv'
<1> USE DEF ListenInv
<1>1. /\ Reader(c) \in Loops /\ \A d \in Conns : Reader(d) \in Loops
      /\ \A d \in Conns : Reader(d) = Reader(c) => d = c
  BY DEF Loops, Reader
<1>2. /\ pc[Reader(c)] = "join" /\ connections' = next[Reader(c)]
      /\ next' = [next EXCEPT ![Reader(c)] = NoMap] /\ auth' = auth \cup {c}
      /\ pc' = [pc EXCEPT ![Reader(c)] = "run"]
      /\ UNCHANGED <<members, key, held, left, doomed, reading, index>>
  BY DEF StoreJoined, Go, tracking
<1>3. ListenTyped'
  BY <1>1, <1>2 DEF ListenTyped, NoMap, Maps
<1>4. LoopKnows'
  BY <1>1, <1>2 DEF LoopKnows, ListenTyped
<1> QED
  BY <1>1, <1>2, <1>3, <1>4, StepStore

LEMMA StepStoreLeft ==
  ASSUME ListenInv, NEW g \in Loops, StoreLeft(g)
  PROVE  ListenInv'
<1> USE DEF ListenInv
<1>1. /\ pc[g] = "leave" /\ connections' = next[g] /\ next' = [next EXCEPT ![g] = NoMap]
      /\ \/ held[g] = None /\ pc' = [pc EXCEPT ![g] = "off"]
         \/ pc' = [pc EXCEPT ![g] = "forget"]
      /\ left' \in {left, [left EXCEPT ![g] = ConnIDs]}
      /\ UNCHANGED <<members, key, auth, held, doomed, reading, index>>
  BY DEF StoreLeft, Close, Go, conn, tracking
<1>2. ListenTyped'
  BY <1>1 DEF ListenTyped, NoMap, Maps
<1>3. LoopKnows'
  <2>1. \A d \in Conns : Reader(d) \in Loops
    BY DEF Loops, Reader
  <2> QED
    BY <1>1, <2>1 DEF LoopKnows, ListenTyped
<1> QED
  BY <1>1, <1>2, <1>3, StepStore

\* Only an ID of the client of the connection's key is read.
LEMMA StepReadData ==
  ASSUME ListenInv, NEW c \in Conns, NEW x \in ConnIDs, ReadData(c, x)
  PROVE  ListenInv'
<1> USE DEF ListenInv
<1>1. /\ Reader(c) \in Loops /\ \A d \in Conns : Reader(d) \in Loops
      /\ \A d \in Conns : Reader(d) = Reader(c) => d = c
  BY DEF Loops, Reader
<1>2. /\ pc[Reader(c)] = "run" /\ c \in auth /\ Client[x] = key[c][1]
      /\ reading' = [reading EXCEPT ![c] = x]
      /\ pc' = [pc EXCEPT ![Reader(c)] = "remember"]
      /\ UNCHANGED <<connections, members, key, auth, next, held, left, doomed, index>>
  BY DEF ReadData, Go, store, conn, update
<1>3. ListenTyped'
  BY <1>1, <1>2 DEF ListenTyped
<1>4. LoopKnows'
  BY <1>1, <1>2 DEF LoopKnows, ListenTyped
<1>5. \A j \in Keys, q \in Pools : Claims(j, q)' => Claims(j, q)
  BY <1>2 DEF Claims
<1> QED
  BY <1>2, <1>3, <1>4, <1>5, ClaimsShrink

\* What it stores in the index, the map claims for its key.
LEMMA StepRememberConnID ==
  ASSUME ListenInv, NEW c \in Conns, RememberConnID(c)
  PROVE  ListenInv'
<1> USE DEF ListenInv
<1>1. /\ Reader(c) \in Loops /\ \A d \in Conns : Reader(d) \in Loops
      /\ \A d \in Conns : Reader(d) = Reader(c) => d = c
  BY DEF Loops, Reader
<1>2. /\ pc[Reader(c)] = "remember" /\ pc' = [pc EXCEPT ![Reader(c)] = "run"]
      /\ index' = IF connections[key[c]] = None THEN index
                  ELSE [index EXCEPT ![reading[c]] = connections[key[c]]]
      /\ reading' = [reading EXCEPT ![c] = None]
      /\ UNCHANGED <<connections, members, key, auth, next, held, left, doomed>>
  BY DEF RememberConnID, Go, store, conn, update
<1>3. /\ key[c] \in Keys /\ reading[c] \in ConnIDs /\ Client[reading[c]] = key[c][1]
      /\ connections[key[c]] \in Pools \cup {None}
  BY <1>2 DEF LoopKnows, ListenTyped, Maps
<1>4. ListenTyped'
  BY <1>1, <1>2, <1>3 DEF ListenTyped
<1>5. LoopKnows'
  BY <1>1, <1>2 DEF LoopKnows, ListenTyped
<1>6. \A j \in Keys, q \in Pools : Claims(j, q)' <=> Claims(j, q)
  BY <1>2 DEF Claims
<1>7. ClaimsAgree'
  BY <1>6 DEF ClaimsAgree
<1>8. IndexIsOfClient'
  <2> SUFFICES ASSUME NEW x \in ConnIDs, NEW p \in Pools, NEW k \in Keys,
                      index'[x] = p, Claims(k, p)'
               PROVE  k[1] = Client[x]
    BY DEF IndexIsOfClient
  <2>1. Claims(k, p)
    BY <1>6
  <2>2. CASE index[x] = p
    BY <2>1, <2>2 DEF IndexIsOfClient
  <2>3. CASE index[x] # p
    <3>1. x = reading[c] /\ p = connections[key[c]]
      BY <1>2, <2>3 DEF ListenTyped
    <3>2. Claims(key[c], p)
      BY <3>1 DEF Claims
    <3>3. k = key[c]
      BY <1>3, <2>1, <3>2 DEF ClaimsAgree
    <3> QED
      BY <1>3, <3>1, <3>3
  <2> QED
    BY <2>2, <2>3
<1> QED
  BY <1>4, <1>5, <1>7, <1>8

\* Disconnect copies the map and holds the pool that it has for the key.
LEMMA StepDisconnect ==
  ASSUME ListenInv, NEW g \in Loops, Disconnect(g)
  PROVE  ListenInv'
<1> USE DEF ListenInv
<1> DEFINE k == key[g[1]]
           p == IF k = None THEN None ELSE connections[k]
<1>1. /\ g[1] \in Conns /\ \A d \in Conns : Reader(d) \in Loops
  BY DEF Loops, Reader
<1>2. UNCHANGED <<connections, members, key, auth, left, doomed, reading, index>> /\ pc[g] = "run"
  BY DEF Disconnect, Close, conn, store, tracking
<1>3. CASE p = None
  <2>1. pc' = [pc EXCEPT ![g] = "off"] /\ UNCHANGED <<next, held>>
    BY <1>3 DEF Disconnect, Close, Go
  <2>2. ListenTyped'
    BY <1>2, <2>1 DEF ListenTyped
  <2>3. LoopKnows'
    BY <1>1, <1>2, <2>1 DEF LoopKnows, ListenTyped
  <2>4. \A j \in Keys, q \in Pools : Claims(j, q)' => Claims(j, q)
    BY <1>2, <2>1 DEF Claims
  <2> QED
    BY <1>2, <2>2, <2>3, <2>4, ClaimsShrink
<1>4. CASE p # None
  <2>1. /\ next' = [next EXCEPT ![g] = connections] /\ held' = [held EXCEPT ![g] = p]
        /\ pc' = [pc EXCEPT ![g] = "remove"] /\ k # None /\ p = connections[k]
    BY <1>4 DEF Disconnect, Go
  <2>2. k \in Keys /\ p \in Pools
    BY <1>1, <1>4, <2>1 DEF ListenTyped, Maps
  <2>3. ListenTyped'
    BY <1>2, <2>1, <2>2 DEF ListenTyped
  <2>4. LoopKnows'
    BY <1>1, <1>2, <2>1 DEF LoopKnows, ListenTyped
  <2>5. \A j \in Keys, q \in Pools : Claims(j, q)' => Claims(j, q)
    <3> SUFFICES ASSUME NEW j \in Keys, NEW q \in Pools, Claims(j, q)'
                 PROVE  Claims(j, q)
      OBVIOUS
    <3>1. CASE \E h \in Loops : next'[h][j] = q
      BY <2>1, <3>1 DEF Claims, ListenTyped
    <3>2. CASE \E h \in Loops : held'[h] = q /\ key'[h[1]] = j
      <4>1. PICK h \in Loops : held'[h] = q /\ key'[h[1]] = j
        BY <3>2
      <4>2. CASE h = g
        BY <1>2, <2>1, <4>1, <4>2 DEF Claims, ListenTyped
      <4>3. CASE h # g
        BY <1>2, <2>1, <4>1, <4>3 DEF Claims, ListenTyped
      <4> QED
        BY <4>2, <4>3
    <3> QED
      BY <1>2, <3>1, <3>2 DEF Claims
  <2> QED
    BY <1>2, <2>3, <2>4, <2>5, ClaimsShrink
<1> QED
  BY <1>3, <1>4

\* Taking things away makes no claims.
LEMMA StepTakeAway ==
  ASSUME ListenInv, NEW g \in Loops,
         RemoveConnection(g) \/ CountLeft(g) \/ ForgetPool(g) \/ DeleteEntry(g)
           \/ BumpGeneration(g)
  PROVE  ListenInv'
<1> USE DEF ListenInv
<1>1. g[1] \in Conns /\ \A d \in Conns : Reader(d) \in Loops
  BY DEF Loops, Reader
<1>2. /\ UNCHANGED <<connections, key, auth, reading>>
      /\ \A p \in Pools : members'[p] \subseteq members[p]
      /\ \A h \in Loops : held'[h] \in {held[h], None}
      /\ \A h \in Loops, k \in Keys : next'[h][k] \in {next[h][k], None}
      /\ \A x \in ConnIDs : index'[x] \in {index[x], None}
      /\ \A h \in Loops : pc'[h] \in {"off", "run", "join", "remember"}
           => (h = g /\ held'[h] = None) \/ pc'[h] = pc[h]
      /\ \A h \in Loops : pc'[h] \in {"add", "join", "remember"} => pc'[h] = pc[h]
      /\ ListenTyped'
  <2>1. CASE RemoveConnection(g)
    BY <2>1 DEF RemoveConnection, Go, conn, update, tracking, ListenTyped
  <2>2. CASE CountLeft(g)
    <3>1. /\ next' \in {next, [next EXCEPT ![g][key[g[1]]] = None]}
          /\ held' \in {held, [held EXCEPT ![g] = None]}
          /\ pc' = [pc EXCEPT ![g] = "leave"]
          /\ UNCHANGED <<connections, members, key, auth, left, doomed, reading, index>>
      BY <2>2 DEF CountLeft, Go, conn, store, tracking
    <3>2. \A h \in Loops, k \in Keys : next'[h][k] \in {next[h][k], None}
      BY <3>1 DEF ListenTyped, Maps
    <3>3. next' \in [Loops -> Maps]
      <4>1. next[g] \in Maps /\ [next[g] EXCEPT ![key[g[1]]] = None] \in Maps
        BY DEF ListenTyped, Maps
      <4>2. next' = next \/ next' = [next EXCEPT ![g] = [next[g] EXCEPT ![key[g[1]]] = None]]
        BY <3>1
      <4> QED
        BY <4>1, <4>2 DEF ListenTyped
    <3> QED
      BY <3>1, <3>2, <3>3 DEF ListenTyped
  <2>3. CASE ForgetPool(g)
    <3>1. PICK x \in left[g] : doomed' = [doomed EXCEPT ![g] = IF index[x] = held[g] THEN x ELSE None]
      BY <2>3 DEF ForgetPool
    <3>2. UNCHANGED <<connections, members, key, auth, pc, next, held, reading, index>>
      BY <2>3 DEF ForgetPool, conn, store, tracking
    <3>3. x \in ConnIDs
      BY DEF ListenTyped
    <3>4. doomed' \in [Loops -> ConnIDs \cup {None}] /\ left' \in [Loops -> SUBSET ConnIDs]
      BY <2>3, <3>1, <3>3 DEF ListenTyped, ForgetPool
    <3> QED
      BY <3>2, <3>4 DEF ListenTyped
  <2>4. CASE DeleteEntry(g)
    BY <2>4 DEF DeleteEntry, conn, store, tracking, ListenTyped
  <2>5. CASE BumpGeneration(g)
    BY <2>5 DEF BumpGeneration, Close, Go, store, ListenTyped
  <2> QED
    BY <2>1, <2>2, <2>3, <2>4, <2>5
<1>3. LoopKnows'
  BY <1>1, <1>2 DEF LoopKnows, ListenTyped
<1>4. \A j \in Keys, q \in Pools : Claims(j, q)' => Claims(j, q)
  <2> SUFFICES ASSUME NEW j \in Keys, NEW q \in Pools, Claims(j, q)'
               PROVE  Claims(j, q)
    OBVIOUS
  <2>1. q # None
    BY ListenAssumption
  <2>2. CASE \E h \in Loops : next'[h][j] = q
    BY <1>2, <2>1, <2>2 DEF Claims
  <2>3. CASE \E d \in members'[q] : key'[d] = j
    BY <1>2, <2>3 DEF Claims
  <2>4. CASE \E h \in Loops : held'[h] = q /\ key'[h[1]] = j
    BY <1>2, <2>1, <2>4 DEF Claims
  <2> QED
    BY <1>2, <2>2, <2>3, <2>4 DEF Claims
<1> QED
  BY <1>2, <1>3, <1>4, ClaimsShrink

\* What moves no pool.
LEMMA StepOther ==
  ASSUME ListenInv,
         (\E c \in Conns : WriteEnds(c)) \/ SenderNext \/ Stop \/ UNCHANGED vars
  PROVE  ListenInv'
<1> USE DEF ListenInv
<1>1. \A d \in Conns : Reader(d) \in Loops /\ \A c \in Conns : Reader(d) # Writer(c)
  BY DEF Loops, Reader, Writer
<1>2. /\ UNCHANGED <<connections, members, key, auth, next, held, left, doomed, reading>>
      /\ \/ UNCHANGED pc
         \/ \E c \in Conns : pc[Writer(c)] = "run" /\ pc' = [pc EXCEPT ![Writer(c)] = "off"]
      /\ \A x \in ConnIDs : index'[x] \in {index[x], None}
      /\ index' \in [ConnIDs -> Pools \cup {None}]
  BY DEF WriteEnds, SenderNext, HandlePacket, SenderCounts, SenderDeletes, SenderBumps, Stop,
         vars, Go, store, conn, update, tracking, ListenTyped
<1>3. ListenTyped'
  BY <1>2 DEF ListenTyped
<1>4. LoopKnows'
  BY <1>1, <1>2 DEF LoopKnows, ListenTyped
<1>5. \A j \in Keys, q \in Pools : Claims(j, q)' => Claims(j, q)
  BY <1>2 DEF Claims
<1> QED
  BY <1>2, <1>3, <1>4, <1>5, ClaimsShrink

LEMMA ListenInit ==
  ASSUME Init
  PROVE  ListenInv
<1>1. ListenTyped /\ LoopKnows
  BY DEF Init, NoMap, ListenTyped, LoopKnows, Maps, Loops, Reader
<1>2. \A k \in Keys, p \in Pools : ~Claims(k, p)
  BY ListenAssumption DEF Init, NoMap, Claims
<1>3. \A x \in ConnIDs : index[x] = None
  BY DEF Init
<1> QED
  BY <1>1, <1>2, <1>3 DEF ListenInv, ClaimsAgree, IndexIsOfClient

LEMMA ListenStep ==
  ASSUME ListenInv, [Next]_vars
  PROVE  ListenInv'
<1>1. CASE \E c \in Conns : ConnNext(c)
  BY <1>1, StepAccept, StepChallenge, StepChallengeRefused, StepAddConnection,
     StepStoreJoined, StepReadData, StepRememberConnID, StepOther DEF ConnNext
<1>2. CASE \E g \in Loops : DisconnectNext(g)
  BY <1>2, StepDisconnect, StepTakeAway, StepStoreLeft DEF DisconnectNext
<1> QED
  BY <1>1, <1>2, StepOther DEF Next

LEMMA ListenInvariant == Spec => []ListenInv
BY ListenInit, ListenStep, PTL DEF Spec

\* Replies to an ID leave only over connections of the client that uses it, for any
\* clients, pools and connections, although nothing keeps two goroutines from updating
\* the map of pools at the same time (tcp_tunnel_listen.go).
THEOREM RepliesKeepToClient == Spec => []RepliesStayWithClient
<1>1. ListenInv => RepliesStayWithClient
  <2> SUFFICES ASSUME ListenInv, NEW x \in ConnIDs, index[x] # None,
                      NEW c \in members[index[x]]
               PROVE  key[c] # None /\ key[c][1] = Client[x]
    BY DEF RepliesStayWithClient
  <2>1. index[x] \in Pools /\ c \in Conns
    BY DEF ListenInv, ListenTyped
  <2>2. key[c] # None /\ key[c] \in Keys
    BY <2>1 DEF ListenInv, ListenTyped, LoopKnows
  <2>3. Claims(key[c], index[x])
    BY DEF Claims
  <2> QED
    BY <2>1, <2>2, <2>3 DEF ListenInv, IndexIsOfClient
<1> QED
  BY <1>1, ListenInvariant, PTL

-----------------------------------------------------------------------------
(* Heartbeats of a tunnel connection.                                      *)

\* The losses never outnumber the ticks without an echo by more than the one that
\* sendHeartbeat may still add to a count that readLoop has just reset.
HeartInv ==
  /\ h_hb \in [Heart!Ends -> [awaiting : BOOLEAN, loss : Nat]]
  /\ h_silent \in Nat
  /\ h_hb["forward"].loss <= h_silent + 1
  /\ h_tick \in {"add", "load"} => h_hb["forward"].loss <= h_silent

LEMMA HeartStep ==
  ASSUME Heart!HeartbeatAssumption, HeartInv, [Heart!Next]_(Heart!vars)
  PROVE  HeartInv'
<1> USE DEF Heart!Ends
<1> DEFINE f == h_hb["forward"]
<1>1. CASE Heart!SendHeartbeat
  <2>1. /\ h_hb' = [h_hb EXCEPT !["forward"].awaiting = FALSE]
        /\ h_silent' = h_silent + 1
    BY <1>1 DEF Heart!SendHeartbeat
  <2>2. /\ f \in [awaiting : BOOLEAN, loss : Nat] /\ h_silent \in Nat
        /\ f.loss <= h_silent + 1
    BY DEF HeartInv
  <2>3. [f EXCEPT !.awaiting = FALSE] \in [awaiting : BOOLEAN, loss : Nat]
    BY <2>2
  <2>4. /\ h_hb' \in [Heart!Ends -> [awaiting : BOOLEAN, loss : Nat]]
        /\ h_hb'["forward"].loss = f.loss
    BY <2>1, <2>2, <2>3 DEF HeartInv
  <2>5. QED
    BY <2>1, <2>2, <2>4 DEF HeartInv
<1>2. CASE Heart!CountLoss
  <2> DEFINE loss == f.loss + (IF h_tick = "add" THEN 1 ELSE 0)
  <2>1. /\ h_hb' = [h_hb EXCEPT !["forward"].loss = loss]
        /\ h_tick' \in {"disconnect", "send"} /\ h_silent' = h_silent
        /\ h_tick \in {"add", "load"}
    BY <1>2 DEF Heart!CountLoss
  <2>2. loss \in Nat /\ loss <= h_silent + 1
    BY <2>1 DEF HeartInv
  <2> HIDE DEF loss
  <2>3. QED
    BY <2>1, <2>2 DEF HeartInv
<1>3. CASE Heart!Disconnect \/ Heart!QueueHeartbeat \/ Heart!SendAck
  <2>1. /\ h_hb' = h_hb /\ h_silent' = h_silent
        /\ h_tick' = h_tick \/ h_tick' \notin {"add", "load"}
    BY <1>3 DEF Heart!Disconnect, Heart!QueueHeartbeat, Heart!SendAck
  <2>2. QED
    BY <2>1 DEF HeartInv
<1>4. CASE Heart!NoteSent
  BY <1>4 DEF HeartInv, Heart!NoteSent, Heart!NoteHeartbeatSent
<1>5. CASE Heart!ListenReads
  <2> DEFINE h == h_hb["listen"]
             lost == [awaiting |-> FALSE, loss |-> h.loss + (IF h.awaiting THEN 1 ELSE 0)]
  <2>1. lost \in [awaiting : BOOLEAN, loss : Nat]
    BY DEF HeartInv
  <2>2. \/ h_hb' = [h_hb EXCEPT !["listen"] = Heart!NoteHeartbeatSent(lost)]
        \/ h_hb' = [h_hb EXCEPT !["listen"] = [awaiting |-> FALSE, loss |-> 0]]
    BY <1>5 DEF Heart!ListenReads
  <2>3. UNCHANGED <<h_silent, h_tick>>
    BY <1>5 DEF Heart!ListenReads
  <2> HIDE DEF lost
  <2>4. Heart!NoteHeartbeatSent(lost) \in [awaiting : BOOLEAN, loss : Nat]
    BY <2>1 DEF Heart!NoteHeartbeatSent
  <2>5. PICK g \in [awaiting : BOOLEAN, loss : Nat] : h_hb' = [h_hb EXCEPT !["listen"] = g]
    BY <2>2, <2>4
  <2>6. QED
    BY <2>3, <2>5 DEF HeartInv
<1>6. CASE Heart!ForwardReads
  BY <1>6 DEF HeartInv, Heart!ForwardReads
<1>7. CASE Heart!MarkHeartbeatResponse
  <2>1. /\ h_hb' = [h_hb EXCEPT !["forward"].loss = 0]
        /\ h_silent' = 0
    BY <1>7 DEF Heart!MarkHeartbeatResponse
  <2>2. QED
    BY <2>1 DEF HeartInv
<1>8. CASE UNCHANGED Heart!vars
  BY <1>8 DEF HeartInv, Heart!vars
<1>9. QED
  BY <1>1, <1>2, <1>3, <1>4, <1>5, <1>6, <1>7, <1>8 DEF Heart!Next

\* sendHeartbeat decides to disconnect only when it has counted the losses.
LEMMA GiveUpIsCounted ==
  ASSUME Heart!HeartbeatAssumption, HeartInv, [Heart!Next]_(Heart!vars)
  PROVE  h_tick # "disconnect" /\ h_tick' = "disconnect" => h_silent >= MaxLoss - 1
<1> SUFFICES ASSUME h_tick # "disconnect", h_tick' = "disconnect"
             PROVE  h_silent >= MaxLoss - 1
  OBVIOUS
<1> DEFINE loss == h_hb["forward"].loss + (IF h_tick = "add" THEN 1 ELSE 0)
<1>1. Heart!CountLoss
  BY DEF Heart!Next, Heart!vars, Heart!SendHeartbeat, Heart!Disconnect,
     Heart!QueueHeartbeat, Heart!NoteSent, Heart!ListenReads, Heart!ForwardReads,
     Heart!MarkHeartbeatResponse, Heart!SendAck
<1>2. h_tick \in {"add", "load"} /\ loss >= MaxLoss
  BY <1>1 DEF Heart!CountLoss
<1>3. loss \in Nat /\ loss <= h_silent + 1 /\ h_silent \in Nat
  BY <1>2 DEF HeartInv, Heart!Ends
<1> HIDE DEF loss
<1>4. QED
  BY <1>2, <1>3 DEF Heart!HeartbeatAssumption

\* A tunnel connection is given up only if the last MaxLoss - 1 ticks saw no echo, for
\* any limit and however the two steps of MarkPendingHeartbeatLost, the two of
\* MarkHeartbeatResponse and the note of a heartbeat interleave (sendHeartbeat).
THEOREM GiveUpNeedsSilence ==
  Heart!Spec => GivenUpAfterSilence
<1>1. Heart!HeartbeatAssumption
  BY ComponentsAssumption
<1>2. Heart!Init => HeartInv
  BY DEF Heart!Init, HeartInv, Heart!Ends
<1>3. HeartInv /\ [Heart!Next]_(Heart!vars) => HeartInv'
  BY <1>1, HeartStep
<1> DEFINE Silent == h_tick # "disconnect" /\ h_tick' = "disconnect" => h_silent >= MaxLoss - 1
<1>4. HeartInv /\ [Heart!Next]_(Heart!vars) => [Silent]_(Heart!vars)
  BY <1>1, GiveUpIsCounted
<1>5. Heart!Spec => [][Silent]_(Heart!vars)
  <2> HIDE DEF Silent
  <2>1. QED
    BY <1>2, <1>3, <1>4, PTL DEF Heart!Spec
<1>6. QED
  BY <1>5 DEF GivenUpAfterSilence, Heart!GivenUpAfterSilence

-----------------------------------------------------------------------------
(* The rate controller.                                                    *)

\* How many of the last four samples were delayed.
Ones(n) == Rate!Bit(n, 0) + Rate!Bit(n, 1) + Rate!Bit(n, 2) + Rate!Bit(n, 3)

\* The flags that a decrease may use are of samples since the last one.
RateInv ==
  /\ a_rate \in Nat
  /\ a_delayed \in 0 .. 15 /\ a_evidence \in 0 .. 2
  /\ a_sinceDecrease \in Nat
  /\ Ones(a_delayed) <= a_evidence \/ a_evidence = 2

\* A sample shifts the flags.
LEMMA OnesAfterSample ==
  ASSUME NEW n \in 0 .. 15, NEW late \in {0, 1}
  PROVE  /\ (2 * n + late) % 16 \in 0 .. 15
         /\ Ones((2 * n + late) % 16) <= Ones(n) + late
         /\ Ones(n) \in 0 .. 4
<1>1. \A k \in Nat : Ones(k) = (k % 2) + ((k \div 2) % 2) + ((k \div 4) % 2) + ((k \div 8) % 2)
  BY DEF Ones, Rate!Bit
<1> DEFINE m == (2 * n + late) % 16
<1>2. /\ m \in 0 .. 15 /\ m % 2 = late /\ (m \div 2) % 2 = n % 2
      /\ (m \div 4) % 2 = (n \div 2) % 2 /\ (m \div 8) % 2 = (n \div 4) % 2
  <2>1. CASE n < 8
    <3>1. m = 2 * n + late
      BY <2>1
    <3> HIDE DEF m
    <3>2. QED
      BY <2>1, <3>1
  <2>2. CASE n >= 8
    <3>1. m = 2 * (n - 8) + late
      BY <2>2
    <3> HIDE DEF m
    <3>2. QED
      BY <2>2, <3>1
  <2>3. QED
    BY <2>1, <2>2
<1>3. /\ n % 2 \in {0, 1} /\ (n \div 2) % 2 \in {0, 1}
      /\ (n \div 4) % 2 \in {0, 1} /\ (n \div 8) % 2 \in {0, 1}
  OBVIOUS
<1>4. /\ Ones(m) = late + (n % 2) + ((n \div 2) % 2) + ((n \div 4) % 2)
      /\ Ones(n) = (n % 2) + ((n \div 2) % 2) + ((n \div 4) % 2) + ((n \div 8) % 2)
  <2>1. m \in Nat /\ n \in Nat
    BY <1>2
  <2> HIDE DEF m
  <2>2. QED
    BY <1>1, <1>2, <2>1
<1> HIDE DEF m
<1>5. Ones(m) <= Ones(n) + late /\ Ones(n) \in 0 .. 4
  BY <1>3, <1>4
<1>6. QED
  BY <1>2, <1>5 DEF m

\* The lesser and the greater of two numbers.
LEMMA LesserGreater ==
  ASSUME NEW a \in Int, NEW b \in Int
  PROVE  /\ Rate!Min({a, b}) = IF a <= b THEN a ELSE b
         /\ Rate!Max({a, b}) = IF a <= b THEN b ELSE a
BY DEF Rate!Min, Rate!Max

LEMMA RateInit ==
  ASSUME Rate!RateAssumption, Rate!Init
  PROVE  RateInv
<1>1. Ones(0) = 0
  BY DEF Ones, Rate!Bit
<1>2. QED
  BY <1>1 DEF Rate!Init, Rate!RateAssumption, RateInv

\* addSample: a delayed sample is one more that the next decrease may use.
LEMMA SampleKeeps ==
  ASSUME RateInv, NEW d, NEW rtt, Rate!AddSample(d, rtt)
  PROVE  RateInv'
<1>1. PICK late \in {0, 1} : /\ a_delayed' = (2 * a_delayed + late) % 16
                             /\ a_evidence' = Rate!Min({a_evidence + late, 2})
  BY DEF Rate!AddSample
<1>2. UNCHANGED <<a_rate, a_sinceDecrease>>
  BY DEF Rate!AddSample
<1>3. /\ a_delayed' \in 0 .. 15 /\ Ones(a_delayed') <= Ones(a_delayed) + late
      /\ Ones(a_delayed) \in 0 .. 4 /\ Ones(a_delayed') \in 0 .. 4
  BY <1>1, OnesAfterSample DEF RateInv
<1>4. a_evidence' = IF a_evidence + late <= 2 THEN a_evidence + late ELSE 2
  BY <1>1, LesserGreater DEF RateInv
<1>5. a_evidence' \in 0 .. 2 /\ (Ones(a_delayed') <= a_evidence' \/ a_evidence' = 2)
  BY <1>3, <1>4 DEF RateInv
<1>6. QED
  BY <1>2, <1>3, <1>5 DEF RateInv

\* tick: the rate is a number again, and a decrease uses up its flags.
LEMMA TickKeeps ==
  ASSUME Rate!RateAssumption, RateInv,
         NEW achieved \in 0 .. (MaxRate + 1), Rate!TickAt(achieved)
  PROVE  RateInv'
<1>1. CASE Rate!Decrease(achieved)
  <2> DEFINE least == Rate!Min({a_rate, achieved})
             back == (least * 9) \div 10
  <2>1. least \in Nat
    BY LesserGreater DEF RateInv
  <2>2. back \in Nat
    <3> HIDE DEF least
    <3>1. QED
      BY <2>1
  <2> HIDE DEF back
  <2>3. Rate!Max({MinRate, back}) \in Nat
    <3>1. MinRate \in Int /\ MinRate \in Nat /\ back \in Int
      BY <2>2 DEF Rate!RateAssumption
    <3>2. Rate!Max({MinRate, back}) = IF MinRate <= back THEN back ELSE MinRate
      BY <3>1, LesserGreater
    <3>3. QED
      BY <2>2, <3>1, <3>2
  <2>4. a_rate' \in Nat /\ a_delayed' = 0 /\ a_evidence' = 0 /\ a_sinceDecrease' = 0
    BY <1>1, <2>3 DEF Rate!Decrease, back
  <2>5. Ones(0) = 0
    BY DEF Ones, Rate!Bit
  <2>6. QED
    BY <2>4, <2>5 DEF RateInv
<1>2. CASE \/ Rate!Increase(achieved) \/ Rate!Drift(achieved)
           \/ Rate!Hold(achieved) \/ Rate!Forget
  <2>1. UNCHANGED <<a_delayed, a_evidence, a_sinceDecrease>>
    BY <1>2 DEF Rate!Increase, Rate!Drift, Rate!Hold, Rate!Forget
  <2>2. a_rate' \in Nat
    BY <1>2 DEF Rate!Increase, Rate!Drift, Rate!Hold, Rate!Forget, RateInv, Rate!RateAssumption
  <2>3. QED
    BY <2>1, <2>2 DEF RateInv
<1>3. QED
  BY <1>1, <1>2 DEF Rate!TickAt

LEMMA RateStep ==
  ASSUME Rate!RateAssumption, RateInv, [Rate!Next]_(Rate!vars)
  PROVE  RateInv'
<1>1. ASSUME NEW d \in Delays, NEW rtt \in 0 .. (MaxRtt + 1), Rate!AddSample(d, rtt)
      PROVE  RateInv'
  BY <1>1, SampleKeeps
<1>2. ASSUME NEW achieved \in 0 .. (MaxRate + 1), Rate!TickAt(achieved)
      PROVE  RateInv'
  BY <1>2, TickKeeps
<1>3. CASE Rate!Pass
  <2>1. UNCHANGED <<a_rate, a_delayed, a_evidence>>
    BY <1>3 DEF Rate!Pass
  <2>2. a_sinceDecrease' = Rate!Min({a_sinceDecrease + 1, IncreaseRefractory})
    BY <1>3 DEF Rate!Pass
  <2>3. a_sinceDecrease' \in Nat
    BY <2>2, LesserGreater DEF RateInv, Rate!RateAssumption
  <2>4. QED
    BY <2>1, <2>3 DEF RateInv
<1>4. CASE UNCHANGED Rate!vars
  BY <1>4 DEF Rate!vars, RateInv
<1>5. QED
  BY <1>1, <1>2, <1>3, <1>4 DEF Rate!Next

\* A rate that falls below the base rate falls by a decrease, which two delayed
\* samples since the last one have caused.
LEMMA FallIsAnswered ==
  ASSUME Rate!RateAssumption, RateInv, [Rate!Next]_(Rate!vars)
  PROVE  a_rate' < a_rate /\ a_rate' < BaseRate
           => a_evidence = 2 /\ a_sinceDecrease >= DecreaseRefractory
<1> SUFFICES ASSUME a_rate' < a_rate, a_rate' < BaseRate
             PROVE  a_evidence = 2 /\ a_sinceDecrease >= DecreaseRefractory
  OBVIOUS
<1>1. ~(a_rate < a_rate)
  BY DEF RateInv
<1>2. a_rate' # a_rate
  BY <1>1
<1>3. PICK achieved \in 0 .. (MaxRate + 1) : Rate!TickAt(achieved)
  BY <1>2 DEF Rate!Next, Rate!vars, Rate!AddSample, Rate!Pass
<1>4. ~Rate!Increase(achieved) /\ ~Rate!Drift(achieved) /\ ~Rate!Hold(achieved) /\ ~Rate!Forget
  BY <1>2 DEF Rate!Increase, Rate!Drift, Rate!Hold, Rate!Forget, RateInv, Rate!RateAssumption
<1>5. Rate!Decrease(achieved)
  BY <1>3, <1>4 DEF Rate!TickAt
<1>6. Ones(a_delayed) >= 2 /\ a_sinceDecrease >= DecreaseRefractory
  BY <1>5 DEF Rate!Decrease, Rate!Bloated, Ones
<1>7. Ones(a_delayed) \in 0 .. 4
  BY OnesAfterSample DEF RateInv
<1>8. QED
  BY <1>6, <1>7 DEF RateInv

\* Whatever the delays, rates and refractory times, the rate falls below the base rate
\* only after the refractory time and on two delayed samples added since the last
\* decrease; a queue that stays full is cut again on later samples (tick, addSample,
\* bloated).
THEOREM CutsNeedNewSamples ==
  Rate!Spec => CutsOnNewSamples
<1>1. Rate!RateAssumption
  BY ComponentsAssumption
<1>2. Rate!Init => RateInv
  BY <1>1, RateInit
<1>3. RateInv /\ [Rate!Next]_(Rate!vars) => RateInv'
  BY <1>1, RateStep
<1> DEFINE Answered == a_rate' < a_rate /\ a_rate' < BaseRate
                         => a_evidence = 2 /\ a_sinceDecrease >= DecreaseRefractory
<1>4. RateInv /\ [Rate!Next]_(Rate!vars) => [Answered]_(Rate!vars)
  BY <1>1, FallIsAnswered
<1>5. Rate!Spec => [][Answered]_(Rate!vars)
  <2> HIDE DEF Answered
  <2>1. QED
    BY <1>2, <1>3, <1>4, PTL DEF Rate!Spec
<1>6. QED
  BY <1>5 DEF CutsOnNewSamples, Rate!CutsOnNewSamples

-----------------------------------------------------------------------------
(* The load balancer's window.                                             *)

\* Where the ring holds the interval before the last k - 1, seen from currentIndex.
Place(k) == IF k <= b_index + 1 THEN b_index + 1 - k ELSE b_index + 1 - k + WindowSize

\* What each variable is.
BalancerTyped ==
  /\ b_current \in Nat /\ b_taken \in Nat
  /\ b_index \in 0 .. (WindowSize - 1)
  /\ b_samples \in [0 .. (WindowSize - 1) -> Nat]
  /\ b_intervals \in [1 .. (WindowSize + 1) -> Nat]
  /\ b_sampling \in {"idle", "swapped", "added", "emptied", "stored", "refresh"}

\* The ring holds the intervals in their order; between the swap and the store the
\* place of the newest still holds the one that leaves the window.
RingIsHistory ==
  /\ \A k \in 2 .. WindowSize : b_samples[Place(k)] = b_intervals[k]
  /\ b_sampling \in {"idle", "stored", "refresh"} => b_samples[b_index] = b_intervals[1]
  /\ b_sampling \in {"swapped", "added", "emptied"} =>
       b_taken = b_intervals[1] /\ b_samples[b_index] = b_intervals[WindowSize + 1]

BalancerInv == BalancerTyped /\ RingIsHistory /\ WindowIsExact

\* The sum that LoadBalancer takes is the one of SumLemmas.
LEMMA BalancerSum ==
  ASSUME NEW f, NEW S
  PROVE  Balancer!SumFunctionOnSet(f, S) = SumFunctionOnSet(f, S)
BY DEF Balancer!SumFunctionOnSet, SumFunctionOnSet, Balancer!FoldFunctionOnSet,
       FoldFunctionOnSet, Balancer!MapThenFoldSet, MapThenFoldSet

\* The oldest interval is the last term of the sum.
LEMMA OldestIsLast ==
  ASSUME Balancer!WindowAssumption, BalancerTyped
  PROVE  /\ Balancer!Received(WindowSize) \in Nat
         /\ Balancer!Received(WindowSize + 1)
              = b_intervals[WindowSize + 1] + Balancer!Received(WindowSize)
<1> DEFINE I == 1 .. WindowSize
           D == 1 .. (WindowSize + 1)
           k == WindowSize + 1
<1>1. b_intervals \in [D -> Nat] /\ WindowSize \in Nat
  BY DEF BalancerTyped, Balancer!WindowAssumption
<1>2. I \in SUBSET D /\ k \in D /\ k \notin I /\ I \cup {k} = D
  BY <1>1
<1>3. IsFiniteSet(I)
  BY <1>1, FS_Interval
<1>4. /\ Balancer!Received(WindowSize) = SumFunctionOnSet(b_intervals, I)
      /\ Balancer!Received(WindowSize + 1) = SumFunctionOnSet(b_intervals, D)
  BY BalancerSum DEF Balancer!Received
<1> HIDE DEF I, D
<1>5. SumFunctionOnSet(b_intervals, I) \in Nat
  BY <1>1, <1>2, <1>3, SumType
<1>6. SumFunctionOnSet(b_intervals, I \cup {k}) = b_intervals[k] + SumFunctionOnSet(b_intervals, I)
  <2> HIDE DEF k
  <2>1. QED
    BY <1>1, <1>2, <1>3, SumAdd
<1>7. SumFunctionOnSet(b_intervals, D) = SumFunctionOnSet(b_intervals, I \cup {k})
  BY <1>2, Zenon
<1>8. QED
  BY <1>4, <1>5, <1>6, <1>7

\* A new interval moves the others back by one place.
LEMMA NewestIsFirst ==
  ASSUME Balancer!WindowAssumption, BalancerTyped, BalancerTyped',
         \A i \in 2 .. (WindowSize + 1) : b_intervals'[i] = b_intervals[i - 1]
  PROVE  Balancer!Received(WindowSize + 1)'
           = b_intervals'[1] + Balancer!Received(WindowSize)
<1> DEFINE I == 1 .. WindowSize
           J == 2 .. (WindowSize + 1)
           D == 1 .. (WindowSize + 1)
           h == [i \in J |-> i - 1]
<1>1. b_intervals \in [D -> Nat] /\ b_intervals' \in [D -> Nat] /\ WindowSize \in Nat
  BY DEF BalancerTyped, Balancer!WindowAssumption
<1>2. IsFiniteSet(D) /\ IsFiniteSet(J)
  BY <1>1, FS_Interval
<1>3. 1 \in D /\ D \ {1} = J /\ J \subseteq D /\ I \subseteq D
  BY <1>1
<1>4. Renumbers(h, b_intervals', D, J, b_intervals, D, I)
  <2>1. /\ \A i \in J : i - 1 \in I /\ i \in Int /\ h[i] = i - 1
        /\ \A j \in I : j + 1 \in J /\ (j + 1) - 1 = j
        /\ \A x, y \in J : x - 1 = y - 1 => x = y
    BY <1>1
  <2>2. h \in [J -> I]
    BY <2>1
  <2>3. \A j \in I : h[j + 1] = j /\ j + 1 \in J
    BY <2>1
  <2>4. \A i \in J : b_intervals'[i] = b_intervals[h[i]]
    BY <2>1
  <2> HIDE DEF h, I, J, D
  <2>5. QED
    BY <1>1, <1>2, <1>3, <2>1, <2>2, <2>3, <2>4 DEF Renumbers
<1>5. /\ Balancer!Received(WindowSize) = SumFunctionOnSet(b_intervals, I)
      /\ Balancer!Received(WindowSize + 1)' = SumFunctionOnSet(b_intervals', D)
  BY BalancerSum DEF Balancer!Received
<1> HIDE DEF h, I, J, D
<1>6. SumFunctionOnSet(b_intervals', J) = SumFunctionOnSet(b_intervals, I)
  BY <1>4, SumReindex
<1>7. SumFunctionOnSet(b_intervals', D)
        = b_intervals'[1] + SumFunctionOnSet(b_intervals', D \ {1})
  <2>1. D \in SUBSET D
    OBVIOUS
  <2>2. QED
    BY <1>1, <1>2, <1>3, <2>1, SumRemove
<1>8. SumFunctionOnSet(b_intervals', D \ {1}) = SumFunctionOnSet(b_intervals', J)
  BY <1>3, Zenon
<1>9. QED
  BY <1>5, <1>6, <1>7, <1>8

LEMMA BalancerInit ==
  ASSUME Balancer!WindowAssumption, Balancer!Init
  PROVE  BalancerInv
<1> DEFINE I == 1 .. WindowSize
<1>1. BalancerTyped /\ \A k \in 1 .. (WindowSize + 1) : b_intervals[k] = 0
  BY DEF Balancer!Init, Balancer!WindowAssumption, BalancerTyped
<1>2. RingIsHistory
  <2>1. \A k \in 2 .. WindowSize : Place(k) \in 0 .. (WindowSize - 1)
    BY DEF Place, BalancerTyped, Balancer!WindowAssumption, Balancer!Init
  <2>2. QED
    BY <1>1, <2>1 DEF Balancer!Init, Balancer!WindowAssumption, RingIsHistory
<1>3. Balancer!Received(WindowSize) = 0
  <2> DEFINE Wrong == {n \in 1 .. WindowSize : SumFunctionOnSet(b_intervals, 1 .. n) # 0}
  <2>1. b_intervals \in [1 .. (WindowSize + 1) -> Nat] /\ WindowSize \in Nat \ {0}
    BY <1>1 DEF BalancerTyped, Balancer!WindowAssumption
  <2>2. SUFFICES ASSUME Wrong # {} PROVE FALSE
    <3>1. SumFunctionOnSet(b_intervals, 1 .. WindowSize) = 0
      BY <2>1, <2>2
    <3>2. QED
      BY <3>1, BalancerSum DEF Balancer!Received
  <2>3. Wrong \in SUBSET Nat
    BY <2>1
  <2> DEFINE n == Min(Wrong)
  <2>4. n \in Wrong /\ \A m \in Wrong : n <= m
    <3> HIDE DEF Wrong
    <3>1. QED
      BY <2>2, <2>3, LeastNatural
  <2> HIDE DEF n
  <2> DEFINE R == 1 .. (n - 1)
  <2>5. /\ n \in 1 .. WindowSize /\ n - 1 \in Nat
        /\ SumFunctionOnSet(b_intervals, 1 .. n) # 0
    BY <2>1, <2>4
  <2>6. SumFunctionOnSet(b_intervals, R) = 0
    <3>1. CASE n = 1
      <4>1. R = {}
        BY <3>1
      <4>2. SumFunctionOnSet(b_intervals, {}) = 0
        BY <2>1, SumEmpty
      <4> HIDE DEF R
      <4>3. QED
        BY <4>1, <4>2, Zenon
    <3>2. CASE n # 1
      <4>1. n - 1 \in 1 .. WindowSize /\ ~(n <= n - 1)
        BY <2>1, <2>5, <3>2
      <4>2. n - 1 \notin Wrong
        BY <2>4, <4>1
      <4>3. QED
        BY <4>1, <4>2
    <3>3. QED
      BY <3>1, <3>2
  <2>7. /\ R \in SUBSET (1 .. (WindowSize + 1)) /\ IsFiniteSet(R)
        /\ n \in 1 .. (WindowSize + 1) /\ n \notin R /\ R \cup {n} = 1 .. n
    <3>1. IsFiniteSet(R)
      BY <2>5, FS_Interval
    <3>2. QED
      BY <2>1, <2>5, <3>1
  <2>8. SumFunctionOnSet(b_intervals, R \cup {n}) = b_intervals[n] + SumFunctionOnSet(b_intervals, R)
    <3> HIDE DEF R
    <3>1. QED
      BY <2>1, <2>7, SumAdd
  <2>9. SumFunctionOnSet(b_intervals, R \cup {n}) = SumFunctionOnSet(b_intervals, 1 .. n)
    <3> HIDE DEF R
    <3>1. QED
      BY <2>7, Zenon
  <2>10. b_intervals[n] = 0
    BY <1>1, <2>7
  <2>11. QED
    BY <2>5, <2>6, <2>8, <2>9, <2>10
<1>4. QED
  BY <1>1, <1>2, <1>3 DEF BalancerInv, WindowIsExact, Balancer!WindowIsExact, Balancer!Init

\* Nothing but the counter of the current interval changes.
LEMMA BalancerSame ==
  ASSUME BalancerInv, b_current' \in Nat,
         UNCHANGED <<b_total, b_samples, b_index, b_sampling, b_taken, b_intervals>>
  PROVE  BalancerInv'
BY DEF BalancerInv, BalancerTyped, RingIsHistory, Place, WindowIsExact,
       Balancer!WindowIsExact, Balancer!Received

\* sampleStats swaps the counter out: the newest interval is the one that ends.
LEMMA SwapKeeps ==
  ASSUME Balancer!WindowAssumption, BalancerInv, Balancer!Swap
  PROVE  BalancerInv'
<1>1. /\ b_sampling = "idle" /\ b_sampling' = "swapped"
      /\ b_taken' = b_current /\ b_current' = 0
      /\ b_index' = (b_index + 1) % WindowSize
      /\ UNCHANGED <<b_total, b_samples>>
  BY DEF Balancer!Swap
<1>2. /\ b_intervals' \in [1 .. (WindowSize + 1) -> Nat]
      /\ b_intervals'[1] = b_current
      /\ \A i \in 2 .. (WindowSize + 1) : b_intervals'[i] = b_intervals[i - 1]
  <2> DEFINE older == SubSeq(b_intervals, 1, WindowSize)
  <2>1. /\ b_intervals \in Seq(Nat) /\ Len(b_intervals) = WindowSize + 1
        /\ b_current \in Nat /\ WindowSize \in Nat
    BY DEF BalancerInv, BalancerTyped, Balancer!WindowAssumption
  <2>2. /\ older \in Seq(Nat) /\ Len(older) = WindowSize
        /\ \A i \in 1 .. WindowSize : older[i] = b_intervals[i]
    BY <2>1
  <2>3. b_intervals' = <<b_current>> \o older
    BY DEF Balancer!Swap
  <2> HIDE DEF older
  <2>4. /\ b_intervals' \in Seq(Nat) /\ Len(b_intervals') = WindowSize + 1
        /\ b_intervals'[1] = b_current
        /\ \A i \in 2 .. (WindowSize + 1) : b_intervals'[i] = older[i - 1]
    BY <2>1, <2>2, <2>3
  <2>5. \A i \in 2 .. (WindowSize + 1) : i - 1 \in 1 .. WindowSize
    BY <2>1
  <2>6. b_intervals' \in [1 .. (WindowSize + 1) -> Nat]
    BY <2>4
  <2>7. ASSUME NEW i \in 2 .. (WindowSize + 1)
        PROVE  b_intervals'[i] = b_intervals[i - 1]
    BY <2>2, <2>4, <2>5
  <2>8. QED
    BY <2>4, <2>6, <2>7
<1>3. b_index' = IF b_index + 1 = WindowSize THEN 0 ELSE b_index + 1
  <2>1. b_index \in 0 .. (WindowSize - 1) /\ WindowSize \in Nat \ {0}
    BY DEF BalancerInv, BalancerTyped, Balancer!WindowAssumption
  <2>2. CASE b_index + 1 = WindowSize
    <3>1. (b_index + 1) % WindowSize = 0
      BY <2>1, <2>2
    <3>2. QED
      BY <1>1, <2>2, <3>1
  <2>3. CASE b_index + 1 < WindowSize
    <3>1. (b_index + 1) % WindowSize = b_index + 1
      BY <2>1, <2>3
    <3>2. QED
      BY <1>1, <2>3, <3>1
  <2>4. QED
    BY <2>1, <2>2, <2>3
<1>4. BalancerTyped'
  BY <1>1, <1>2, <1>3 DEF BalancerInv, BalancerTyped, Balancer!WindowAssumption
<1>5. /\ \A k \in 2 .. WindowSize : b_samples[Place(k)] = b_intervals[k]
      /\ b_samples[b_index] = b_intervals[1]
  BY <1>1 DEF BalancerInv, RingIsHistory
<1>6. \A k \in 2 .. WindowSize :
        Place(k)' = IF k = 2 THEN b_index ELSE Place(k - 1)
  BY <1>3 DEF Place, BalancerInv, BalancerTyped, Balancer!WindowAssumption
<1>7. b_index' = IF WindowSize = 1 THEN b_index ELSE Place(WindowSize)
  BY <1>3 DEF Place, BalancerInv, BalancerTyped, Balancer!WindowAssumption
<1>8. RingIsHistory'
  <2>1. ASSUME NEW k \in 2 .. WindowSize
        PROVE  b_samples'[Place(k)'] = b_intervals'[k]
    <3>1. b_intervals'[k] = b_intervals[k - 1]
      BY <1>2 DEF Balancer!WindowAssumption
    <3>2. k # 2 => k - 1 \in 2 .. WindowSize
      BY DEF Balancer!WindowAssumption
    <3>3. b_samples[IF k = 2 THEN b_index ELSE Place(k - 1)] = b_intervals[k - 1]
      BY <1>5, <3>2
    <3>4. QED
      BY <1>1, <1>6, <3>1, <3>3
  <2>2. b_samples'[b_index'] = b_intervals'[WindowSize + 1]
    <3>1. b_intervals'[WindowSize + 1] = b_intervals[WindowSize]
      BY <1>2 DEF Balancer!WindowAssumption
    <3>2. WindowSize # 1 => WindowSize \in 2 .. WindowSize
      BY DEF Balancer!WindowAssumption
    <3>3. QED
      BY <1>1, <1>5, <1>7, <3>1, <3>2
  <2>3. QED
    BY <1>1, <1>2, <2>1, <2>2 DEF RingIsHistory
<1>9. WindowIsExact'
  <2>1. b_total = Balancer!Received(WindowSize)
    BY <1>1 DEF BalancerInv, WindowIsExact, Balancer!WindowIsExact
  <2>2. Balancer!Received(WindowSize + 1)' = b_current + Balancer!Received(WindowSize)
    BY <1>2, <1>4, NewestIsFirst DEF BalancerInv
  <2>3. Balancer!Received(WindowSize) \in Nat /\ b_current \in Nat
    BY OldestIsLast DEF BalancerInv, BalancerTyped
  <2>4. b_total' = Balancer!Received(WindowSize + 1)' - b_taken'
    BY <1>1, <2>1, <2>2, <2>3
  <2>5. QED
    BY <1>1, <2>4 DEF WindowIsExact, Balancer!WindowIsExact
<1>10. QED
  BY <1>4, <1>8, <1>9 DEF BalancerInv

\* The interval is added to the total.
LEMMA AddTakenKeeps ==
  ASSUME Balancer!WindowAssumption, BalancerInv, Balancer!AddTaken
  PROVE  BalancerInv'
<1>1. /\ b_sampling = "swapped" /\ b_sampling' = "added"
      /\ b_total' = b_total + b_taken
      /\ UNCHANGED <<b_current, b_samples, b_index, b_taken, b_intervals>>
  BY DEF Balancer!AddTaken
<1>2. BalancerTyped' /\ RingIsHistory'
  BY <1>1 DEF BalancerInv, BalancerTyped, RingIsHistory, Place
<1>3. b_total = Balancer!Received(WindowSize + 1) - b_taken
  BY <1>1 DEF BalancerInv, WindowIsExact, Balancer!WindowIsExact
<1>4. Balancer!Received(WindowSize + 1) \in Nat /\ b_taken \in Nat
  BY OldestIsLast DEF BalancerInv, BalancerTyped, Balancer!WindowAssumption
<1>5. b_total' = Balancer!Received(WindowSize + 1)
  BY <1>1, <1>3, <1>4
<1>6. Balancer!Received(WindowSize + 1)' = Balancer!Received(WindowSize + 1)
  BY <1>1 DEF Balancer!Received
<1>7. QED
  BY <1>1, <1>2, <1>5, <1>6 DEF BalancerInv, WindowIsExact, Balancer!WindowIsExact

\* The interval that leaves the window is taken off the total, ...
LEMMA TakeOldestOffKeeps ==
  ASSUME Balancer!WindowAssumption, BalancerInv, Balancer!TakeOldestOff
  PROVE  BalancerInv'
<1>1. /\ b_sampling = "added" /\ b_sampling' = "emptied"
      /\ b_total' = b_total - b_samples[b_index]
      /\ UNCHANGED <<b_current, b_samples, b_index, b_taken, b_intervals>>
  BY DEF Balancer!TakeOldestOff
<1>2. BalancerTyped' /\ RingIsHistory'
  BY <1>1 DEF BalancerInv, BalancerTyped, RingIsHistory, Place
<1>3. b_samples[b_index] = b_intervals[WindowSize + 1] /\ b_samples[b_index] \in Nat
  BY <1>1 DEF BalancerInv, BalancerTyped, RingIsHistory
<1>4. b_total = Balancer!Received(WindowSize + 1)
  BY <1>1 DEF BalancerInv, WindowIsExact, Balancer!WindowIsExact
<1>5. /\ Balancer!Received(WindowSize) \in Nat
      /\ Balancer!Received(WindowSize + 1) = b_samples[b_index] + Balancer!Received(WindowSize)
  BY <1>3, OldestIsLast DEF BalancerInv
<1>6. b_total' = Balancer!Received(WindowSize)
  BY <1>1, <1>3, <1>4, <1>5
<1>7. Balancer!Received(WindowSize)' = Balancer!Received(WindowSize)
  BY <1>1 DEF Balancer!Received
<1>8. QED
  BY <1>1, <1>2, <1>6, <1>7 DEF BalancerInv, WindowIsExact, Balancer!WindowIsExact

\* ... and its place used.
LEMMA StoreKeeps ==
  ASSUME Balancer!WindowAssumption, BalancerInv, Balancer!Store
  PROVE  BalancerInv'
<1>1. /\ b_sampling = "emptied" /\ b_sampling' = "stored"
      /\ b_samples' = [b_samples EXCEPT ![b_index] = b_taken] /\ b_taken' = 0
      /\ UNCHANGED <<b_current, b_total, b_index, b_intervals>>
  BY DEF Balancer!Store, Balancer!stats
<1>2. BalancerTyped'
  BY <1>1 DEF BalancerInv, BalancerTyped
<1>3. /\ b_taken = b_intervals[1]
      /\ \A k \in 2 .. WindowSize : b_samples[Place(k)] = b_intervals[k]
  BY <1>1 DEF BalancerInv, RingIsHistory
<1>4. \A k \in 2 .. WindowSize : Place(k) # b_index /\ Place(k)' = Place(k)
  BY <1>1 DEF Place, BalancerInv, BalancerTyped, Balancer!WindowAssumption
<1>5. \A k \in 2 .. WindowSize : Place(k) \in 0 .. (WindowSize - 1)
  BY DEF Place, BalancerInv, BalancerTyped, Balancer!WindowAssumption
<1>6. RingIsHistory'
  <2>1. \A k \in 2 .. WindowSize : b_samples'[Place(k)'] = b_intervals'[k]
    BY <1>1, <1>3, <1>4, <1>5 DEF BalancerInv, BalancerTyped
  <2>2. b_samples'[b_index'] = b_intervals'[1]
    BY <1>1, <1>3 DEF BalancerInv, BalancerTyped
  <2>3. QED
    BY <1>1, <2>1, <2>2 DEF RingIsHistory
<1>7. b_total = Balancer!Received(WindowSize)
  BY <1>1 DEF BalancerInv, WindowIsExact, Balancer!WindowIsExact
<1>8. Balancer!Received(WindowSize)' = Balancer!Received(WindowSize)
  BY <1>1 DEF Balancer!Received
<1>9. QED
  BY <1>1, <1>2, <1>6, <1>7, <1>8 DEF BalancerInv, WindowIsExact, Balancer!WindowIsExact

LEMMA BalancerStep ==
  ASSUME Balancer!WindowAssumption, BalancerInv, [Balancer!Next]_(Balancer!vars)
  PROVE  BalancerInv'
<1>1. CASE \E x \in Receivers : \/ Balancer!FollowBatch(x) \/ Balancer!LoadTotal(x)
                                \/ Balancer!Decide(x)
                                \/ \E b \in Batches \cup {0} : Balancer!Count(x, b)
  <2>1. UNCHANGED <<b_total, b_samples, b_index, b_sampling, b_taken, b_intervals>>
    BY <1>1 DEF Balancer!FollowBatch, Balancer!LoadTotal, Balancer!Decide, Balancer!Count,
                Balancer!stats, Balancer!ring
  <2>2. b_current' \in {b_current, b_current + 1}
    BY <1>1 DEF Balancer!FollowBatch, Balancer!LoadTotal, Balancer!Decide, Balancer!Count,
                Balancer!stats
  <2>3. b_current' \in Nat
    BY <2>2 DEF BalancerInv, BalancerTyped
  <2>4. QED
    BY <2>1, <2>3, BalancerSame
<1>2. CASE Balancer!Swap
  BY <1>2, SwapKeeps
<1>3. CASE Balancer!AddTaken
  BY <1>3, AddTakenKeeps
<1>4. CASE Balancer!TakeOldestOff
  BY <1>4, TakeOldestOffKeeps
<1>5. CASE Balancer!Store
  BY <1>5, StoreKeeps
<1>6. CASE Balancer!Measure \/ Balancer!Refresh \/ Balancer!RefreshEnds
  <2>1. /\ b_sampling \in {"stored", "refresh"} /\ b_sampling' \in {"refresh", "idle"}
        /\ UNCHANGED <<b_current, b_total, b_samples, b_index, b_taken, b_intervals>>
    BY <1>6 DEF Balancer!Measure, Balancer!Refresh, Balancer!RefreshEnds, Balancer!stats
  <2>2. QED
    BY <2>1 DEF BalancerInv, BalancerTyped, RingIsHistory, Place, WindowIsExact,
                Balancer!WindowIsExact, Balancer!Received
<1>7. CASE UNCHANGED Balancer!vars
  <2>1. UNCHANGED <<b_current, b_total, b_samples, b_index, b_sampling, b_taken, b_intervals>>
    BY <1>7 DEF Balancer!vars, Balancer!stats, Balancer!ring
  <2>2. b_current' \in Nat
    BY <2>1 DEF BalancerInv, BalancerTyped
  <2>3. QED
    BY <2>1, <2>2, BalancerSame
<1>8. QED
  BY <1>1, <1>2, <1>3, <1>4, <1>5, <1>6, <1>7 DEF Balancer!Next

\* For any window and any interleaving with packets that are counted, the total is
\* the bytes of the last WindowSize intervals, off by one interval at most while
\* sampleStats runs (sampleStats, updateStats).
THEOREM TotalIsWindow ==
  Balancer!Spec => []WindowIsExact
<1>1. Balancer!WindowAssumption
  BY ComponentsAssumption
<1>2. Balancer!Init => BalancerInv
  BY <1>1, BalancerInit
<1>3. BalancerInv /\ [Balancer!Next]_(Balancer!vars) => BalancerInv'
  BY <1>1, BalancerStep
<1>4. BalancerInv => WindowIsExact
  BY DEF BalancerInv
<1>5. QED
  BY <1>2, <1>3, <1>4, PTL DEF Balancer!Spec

-----------------------------------------------------------------------------
(* The shaper's queues.                                                    *)

ShaperQueues == Seq([wire : Nat, age : Int])

Sizes(q) == [i \in 1 .. Len(q) |-> q[i].wire]

\* The bytes of a queue are the sum of its sizes.
LEMMA BytesAreSum ==
  ASSUME NEW q \in ShaperQueues
  PROVE  /\ Sizes(q) \in Seq(Nat) /\ Len(Sizes(q)) = Len(q)
         /\ Shaper!Bytes(q) = SumOf(Sizes(q)) /\ Shaper!Bytes(q) \in Nat
<1>1. /\ DOMAIN q = 1 .. Len(q) /\ Len(q) \in Nat
      /\ \A i \in 1 .. Len(q) : q[i].wire \in Nat
  <2> DEFINE S == [wire : Nat, age : Int]
  <2>1. q \in Seq(S) /\ \A it \in S : it.wire \in Nat
    BY DEF ShaperQueues
  <2> HIDE DEF S
  <2>2. QED
    BY <2>1, SeqTyped
<1>2. Sizes(q) \in Seq(Nat) /\ Len(Sizes(q)) = Len(q)
  BY <1>1 DEF Sizes
<1>3. Shaper!Bytes(q) = SumOf(Sizes(q))
  <2>1. [i \in DOMAIN q |-> q[i].wire] = Sizes(q)
    BY <1>1 DEF Sizes
  <2>2. Shaper!Bytes(q) = Shaper!SumFunction(Sizes(q))
    BY <2>1, Zenon DEF Shaper!Bytes
  <2>3. DOMAIN Sizes(q) = 1 .. Len(Sizes(q))
    BY <1>2
  <2>4. Shaper!SumFunction(Sizes(q)) = SumFunctionOnSet(Sizes(q), DOMAIN Sizes(q))
    BY DEF Shaper!SumFunction, Shaper!SumFunctionOnSet, SumFunctionOnSet,
           Shaper!FoldFunctionOnSet, FoldFunctionOnSet, Shaper!MapThenFoldSet, MapThenFoldSet
  <2>5. QED
    BY <2>2, <2>3, <2>4 DEF SumOf
<1>4. QED
  BY <1>2, <1>3, SumOfType

\* The empty queue has no bytes.
LEMMA BytesOfNone ==
  /\ <<>> \in ShaperQueues /\ Shaper!Bytes(<<>>) = 0
<1>1. <<>> \in ShaperQueues
  BY DEF ShaperQueues
<1>2. Sizes(<<>>) \in [{} -> Nat] /\ 1 .. Len(Sizes(<<>>)) = {}
  BY <1>1, BytesAreSum DEF Sizes
<1>3. SumFunctionOnSet(Sizes(<<>>), {}) = 0
  BY <1>2, SumEmpty
<1>4. SumFunctionOnSet(Sizes(<<>>), 1 .. Len(Sizes(<<>>))) = SumFunctionOnSet(Sizes(<<>>), {})
  BY <1>2, Zenon
<1>5. QED
  BY <1>1, <1>3, <1>4, BytesAreSum DEF SumOf

\* An appended packet adds its size.
LEMMA BytesAppended ==
  ASSUME NEW q \in ShaperQueues, NEW it \in [wire : Nat, age : Int]
  PROVE  Append(q, it) \in ShaperQueues /\ Shaper!Bytes(Append(q, it)) = Shaper!Bytes(q) + it.wire
<1>1. Append(q, it) \in ShaperQueues
  BY DEF ShaperQueues
<1>2. Sizes(Append(q, it)) = Append(Sizes(q), it.wire)
  BY BytesAreSum DEF ShaperQueues, Sizes
<1>3. it.wire \in Nat /\ Sizes(q) \in Seq(Nat)
  BY BytesAreSum
<1>4. SumOf(Append(Sizes(q), it.wire)) = SumOf(Sizes(q)) + it.wire
  BY <1>3, SumOfAppend
<1>5. QED
  BY <1>1, <1>2, <1>4, BytesAreSum

\* The first packet takes its size with it.
LEMMA BytesOfTail ==
  ASSUME NEW q \in ShaperQueues, q # <<>>
  PROVE  /\ Tail(q) \in ShaperQueues /\ Head(q) \in [wire : Nat, age : Int]
         /\ Shaper!Bytes(q) = Head(q).wire + Shaper!Bytes(Tail(q))
<1> DEFINE S == [wire : Nat, age : Int]
<1>1. /\ Tail(q) \in Seq(S) /\ Len(Tail(q)) = Len(q) - 1 /\ Len(q) \in Nat \ {0}
      /\ Head(q) = q[1] /\ Head(q) \in S
      /\ \A i \in 1 .. Len(q) - 1 : Tail(q)[i] = q[i + 1]
  <2>1. q \in Seq(S)
    BY DEF ShaperQueues
  <2> HIDE DEF S
  <2>2. QED
    BY <2>1, TailOfSeq
<1>0. Tail(q) \in ShaperQueues
  BY <1>1 DEF ShaperQueues
<1> HIDE DEF S
<1>2. Sizes(q) # <<>> /\ Sizes(q) \in Seq(Nat)
  BY <1>1, BytesAreSum
<1>3. Head(Sizes(q)) = Head(q).wire /\ Tail(Sizes(q)) = Sizes(Tail(q))
  <2>1. /\ Head(Sizes(q)) = Sizes(q)[1]
        /\ Tail(Sizes(q)) \in Seq(Nat) /\ Len(Tail(Sizes(q))) = Len(Sizes(q)) - 1
        /\ \A i \in 1 .. Len(Sizes(q)) - 1 : Tail(Sizes(q))[i] = Sizes(q)[i + 1]
    BY <1>2, TailOfSeq
  <2>2. /\ Sizes(Tail(q)) \in Seq(Nat) /\ Len(Sizes(Tail(q))) = Len(q) - 1
        /\ Len(Sizes(q)) = Len(q)
    <3>1. Sizes(Tail(q)) \in Seq(Nat) /\ Len(Sizes(Tail(q))) = Len(Tail(q))
      BY <1>0, BytesAreSum
    <3>2. Len(Sizes(q)) = Len(q)
      BY BytesAreSum
    <3>3. QED
      BY <1>1, <3>1, <3>2, Zenon
  <2>3. ASSUME NEW i \in 1 .. Len(q) - 1
        PROVE  Sizes(Tail(q))[i] = Tail(Sizes(q))[i]
    <3>1. i \in 1 .. Len(Tail(q)) /\ i + 1 \in 1 .. Len(q)
      BY <1>1
    <3>2. Sizes(Tail(q))[i] = Tail(q)[i].wire /\ Sizes(q)[i + 1] = q[i + 1].wire
      BY <3>1 DEF Sizes
    <3>3. QED
      BY <1>1, <2>1, <2>2, <3>2
  <2>4. Tail(Sizes(q)) = Sizes(Tail(q))
    BY <2>1, <2>2, <2>3, SameSeq
  <2>5. Sizes(q)[1] = q[1].wire
    BY <1>1 DEF Sizes
  <2>6. QED
    BY <1>1, <2>1, <2>4, <2>5
<1>4. SumOf(Sizes(q)) = Head(Sizes(q)) + SumOf(Tail(Sizes(q)))
  BY <1>2, SumOfTail
<1>5. QED
  BY <1>0, <1>1, <1>3, <1>4, BytesAreSum DEF S

\* What is left of a queue when its first packets are gone is no longer.
LEMMA BytesOfSuffix ==
  ASSUME NEW q \in ShaperQueues, NEW k \in 0 .. Len(q)
  PROVE  /\ SubSeq(q, k + 1, Len(q)) \in ShaperQueues
         /\ Shaper!Bytes(SubSeq(q, k + 1, Len(q))) <= Shaper!Bytes(q)
<1> DEFINE r == SubSeq(q, k + 1, Len(q))
<1>1. /\ r \in ShaperQueues /\ Len(r) = Len(q) - k /\ Len(q) \in Nat
      /\ \A i \in 1 .. Len(q) - k : r[i] = q[i + k]
  <2> DEFINE S == [wire : Nat, age : Int]
  <2>1. q \in Seq(S)
    BY DEF ShaperQueues
  <2> HIDE DEF S
  <2>2. r \in Seq(S) /\ Len(r) = Len(q) - k /\ \A i \in 1 .. Len(q) - k : r[i] = q[i + k]
    BY <2>1, SuffixOfSeq
  <2>3. QED
    BY <2>1, <2>2, SeqTyped DEF ShaperQueues, S
<1> HIDE DEF r
<1>2. Sizes(q) \in Seq(Nat) /\ Len(Sizes(q)) = Len(q)
  BY BytesAreSum
<1>3. Sizes(r) = SubSeq(Sizes(q), k + 1, Len(Sizes(q)))
  <2> DEFINE t == SubSeq(Sizes(q), k + 1, Len(Sizes(q)))
  <2>1. /\ t \in Seq(Nat) /\ Len(t) = Len(q) - k
        /\ \A i \in 1 .. Len(q) - k : t[i] = Sizes(q)[i + k]
    BY <1>2, SuffixOfSeq
  <2>2. /\ Sizes(r) \in Seq(Nat) /\ Len(Sizes(r)) = Len(q) - k
    BY <1>1, BytesAreSum
  <2> HIDE DEF t
  <2>3. ASSUME NEW i \in 1 .. Len(q) - k
        PROVE  Sizes(r)[i] = t[i]
    <3>1. i \in 1 .. Len(r) /\ i + k \in 1 .. Len(q)
      BY <1>1
    <3>2. Sizes(r)[i] = r[i].wire /\ Sizes(q)[i + k] = q[i + k].wire
      BY <3>1 DEF Sizes
    <3>3. QED
      BY <1>1, <2>1, <3>2
  <2>4. Sizes(r) = t
    BY <2>1, <2>2, <2>3, SameSeq
  <2>5. QED
    BY <2>4 DEF t
<1>4. SumOf(SubSeq(Sizes(q), k + 1, Len(Sizes(q)))) <= SumOf(Sizes(q))
  BY <1>2, SumOfSuffix
<1>5. Shaper!Bytes(r) <= Shaper!Bytes(q)
  BY <1>1, <1>3, <1>4, BytesAreSum
<1>6. QED
  BY <1>1, <1>5 DEF r

\* Packets that grow older keep their sizes.
LEMMA BytesOfOlder ==
  ASSUME NEW q \in ShaperQueues, NEW r \in ShaperQueues, Len(r) = Len(q),
         \A i \in 1 .. Len(q) : r[i].wire = q[i].wire
  PROVE  Shaper!Bytes(r) = Shaper!Bytes(q)
<1>1. Sizes(r) = Sizes(q)
  BY DEF Sizes
<1>2. QED
  BY <1>1, BytesAreSum

\* The statistic is the bytes of the three queues, and the queues are queues.
ShaperInv ==
  /\ s_control \in Nat
  /\ s_priority \in ShaperQueues /\ s_bulk \in ShaperQueues
  /\ BytesAreQueued

\* Control messages are all of one size.
LEMMA ControlBytes ==
  ASSUME NEW n \in Nat, NEW w \in Nat
  PROVE  n * w \in Nat /\ (n + 1) * w = n * w + w
OBVIOUS

LEMMA ShaperInit ==
  ASSUME Shaper!ShaperAssumption, Shaper!Init
  PROVE  ShaperInv
<1>1. /\ s_control = 0 /\ s_priority = <<>> /\ s_bulk = <<>> /\ s_queuedBytes = 0
  BY DEF Shaper!Init
<1>2. 0 * ControlWire = 0 /\ QueueLimit \in Nat
  BY DEF Shaper!ShaperAssumption
<1>3. QED
  BY <1>1, <1>2, BytesOfNone DEF ShaperInv, BytesAreQueued, Shaper!BytesAreQueued

\* enqueue of a control message, which the queue may refuse.
LEMMA ControlKeeps ==
  ASSUME Shaper!ShaperAssumption, ShaperInv, Shaper!EnqueueControl
  PROVE  ShaperInv'
<1>1. /\ s_control' \in {s_control, s_control + 1}
      /\ s_queuedBytes' = s_queuedBytes + (s_control' - s_control) * ControlWire
      /\ UNCHANGED <<s_priority, s_bulk>>
  BY DEF Shaper!EnqueueControl
<1>2. /\ s_control * ControlWire \in Nat /\ ControlWire \in Nat
      /\ (s_control + 1) * ControlWire = s_control * ControlWire + ControlWire
  BY ControlBytes DEF ShaperInv, Shaper!ShaperAssumption
<1>3. Shaper!Bytes(s_priority) \in Nat /\ Shaper!Bytes(s_bulk) \in Nat
  BY BytesAreSum DEF ShaperInv
<1>4. s_queuedBytes = s_control * ControlWire + Shaper!Bytes(s_priority) + Shaper!Bytes(s_bulk)
  BY DEF ShaperInv, BytesAreQueued, Shaper!BytesAreQueued
<1>5. CASE s_control' = s_control
  <2>1. (s_control' - s_control) * ControlWire = 0
    BY <1>2, <1>5 DEF ShaperInv
  <2>2. s_queuedBytes' = s_queuedBytes
    BY <1>1, <1>2, <1>3, <1>4, <2>1
  <2>3. QED
    BY <1>1, <1>5, <2>2 DEF ShaperInv, BytesAreQueued, Shaper!BytesAreQueued
<1>6. CASE s_control' = s_control + 1
  <2>1. (s_control' - s_control) * ControlWire = ControlWire
    BY <1>2, <1>6 DEF ShaperInv
  <2>2. s_queuedBytes' = s_queuedBytes + ControlWire
    BY <1>1, <2>1
  <2>3. s_control' * ControlWire = s_control * ControlWire + ControlWire
    BY <1>2, <1>6
  <2>4. s_control' \in Nat
    BY <1>6 DEF ShaperInv
  <2>5. s_queuedBytes'
          = s_control' * ControlWire + Shaper!Bytes(s_priority) + Shaper!Bytes(s_bulk)
    BY <1>2, <1>3, <1>4, <2>2, <2>3
  <2>6. QED
    BY <1>1, <2>4, <2>5 DEF ShaperInv, BytesAreQueued, Shaper!BytesAreQueued
<1>7. QED
  BY <1>1, <1>5, <1>6

\* The control queue is as it was; the data queues and the statistic agree.
DataMoves ==
  /\ s_control' = s_control
  /\ s_priority' \in ShaperQueues /\ s_bulk' \in ShaperQueues
  /\ s_queuedBytes' + Shaper!Bytes(s_priority) + Shaper!Bytes(s_bulk)
       = s_queuedBytes + Shaper!Bytes(s_priority') + Shaper!Bytes(s_bulk')
  /\ s_queuedBytes' \in Int
  /\ Shaper!Bytes(s_priority') + Shaper!Bytes(s_bulk') <= QueueLimit

LEMMA DataKeeps ==
  ASSUME Shaper!ShaperAssumption, ShaperInv, DataMoves
  PROVE  ShaperInv'
<1>1. /\ Shaper!Bytes(s_priority) \in Nat /\ Shaper!Bytes(s_bulk) \in Nat
      /\ Shaper!Bytes(s_priority') \in Nat /\ Shaper!Bytes(s_bulk') \in Nat
  BY BytesAreSum DEF ShaperInv, DataMoves
<1>2. s_control * ControlWire \in Nat
  BY ControlBytes DEF ShaperInv, Shaper!ShaperAssumption
<1>3. s_queuedBytes = s_control * ControlWire + Shaper!Bytes(s_priority) + Shaper!Bytes(s_bulk)
  BY DEF ShaperInv, BytesAreQueued, Shaper!BytesAreQueued
<1>4. s_queuedBytes' = s_control * ControlWire + Shaper!Bytes(s_priority') + Shaper!Bytes(s_bulk')
  BY <1>1, <1>2, <1>3 DEF DataMoves
<1>5. s_control' * ControlWire = s_control * ControlWire
  BY DEF DataMoves
<1>6. QED
  BY <1>4, <1>5 DEF ShaperInv, DataMoves, BytesAreQueued, Shaper!BytesAreQueued

\* enqueue of data: overflow leaves a suffix of the bulk queue.
LEMMA EnqueueMoves ==
  ASSUME Shaper!ShaperAssumption, ShaperInv, NEW w \in Wires, Shaper!Enqueue(w)
  PROVE  DataMoves
<1> DEFINE it == [wire |-> w, age |-> 0]
           room == Shaper!Room(w)
           limit == QueueLimit
           accepted == Shaper!Bytes(s_priority) + Shaper!Bytes(room) + w <= QueueLimit
           high == PrioritySize > 0 /\ w <= PrioritySize
<1>1. PICK k \in 0 .. Len(s_bulk) : room = SubSeq(s_bulk, k + 1, Len(s_bulk))
  <2> DEFINE fits(n) == Shaper!Bytes(s_priority)
                          + Shaper!Bytes(SubSeq(s_bulk, n + 1, Len(s_bulk))) + w <= QueueLimit
             drops == {n \in 0 .. Len(s_bulk) : fits(n)}
             k == IF drops = {} THEN Len(s_bulk) ELSE Shaper!Min(drops)
  <2>1. room = SubSeq(s_bulk, k + 1, Len(s_bulk))
    BY DEF Shaper!Room
  <2>2. Len(s_bulk) \in Nat
    BY DEF ShaperInv, ShaperQueues
  <2>3. k \in 0 .. Len(s_bulk)
    <3>1. CASE drops = {}
      BY <2>2, <3>1
    <3>2. CASE drops # {}
      <4>1. drops \in SUBSET Nat /\ drops \in SUBSET (0 .. Len(s_bulk))
        BY <2>2
      <4> HIDE DEF drops
      <4>2. Min(drops) \in drops
        BY <3>2, <4>1, LeastNatural
      <4>3. Shaper!Min(drops) = Min(drops)
        BY DEF Shaper!Min, Min
      <4>4. QED
        BY <3>2, <4>1, <4>2, <4>3
    <3>3. QED
      BY <3>1, <3>2
  <2> HIDE DEF k, room
  <2>4. QED
    BY <2>1, <2>3
<1> HIDE DEF room
<1>2. room \in ShaperQueues /\ Shaper!Bytes(room) <= Shaper!Bytes(s_bulk)
  BY <1>1, BytesOfSuffix DEF ShaperInv
<1>3. it \in [wire : Nat, age : Int] /\ it.wire = w /\ w \in Nat
  BY DEF Shaper!ShaperAssumption
<1>4. /\ s_priority' = IF accepted /\ high THEN Append(s_priority, it) ELSE s_priority
      /\ s_bulk' = IF accepted /\ ~high THEN Append(room, it) ELSE room
      /\ s_queuedBytes' = s_queuedBytes - Shaper!Bytes(s_bulk) + Shaper!Bytes(room)
                            + (IF accepted THEN w ELSE 0)
      /\ s_control' = s_control
  BY DEF Shaper!Enqueue, room
<1>5. /\ Shaper!Bytes(s_priority) \in Nat /\ Shaper!Bytes(s_bulk) \in Nat
      /\ Shaper!Bytes(room) \in Nat
  BY <1>2, BytesAreSum DEF ShaperInv
<1>6. /\ Append(s_priority, it) \in ShaperQueues /\ Append(room, it) \in ShaperQueues
      /\ Shaper!Bytes(Append(s_priority, it)) = Shaper!Bytes(s_priority) + w
      /\ Shaper!Bytes(Append(room, it)) = Shaper!Bytes(room) + w
  <2> HIDE DEF it
  <2>1. QED
    BY <1>2, <1>3, BytesAppended DEF ShaperInv
<1>7. s_queuedBytes \in Int /\ Shaper!Bytes(s_priority) + Shaper!Bytes(s_bulk) <= QueueLimit
  <2>1. s_control * ControlWire \in Nat
    BY ControlBytes DEF ShaperInv, Shaper!ShaperAssumption
  <2>2. QED
    BY <1>5, <2>1 DEF ShaperInv, BytesAreQueued, Shaper!BytesAreQueued
<1>8. QueueLimit \in Nat
  BY DEF Shaper!ShaperAssumption
<1>9. s_queuedBytes \in Int /\ w \in Nat
  BY <1>3, <1>7
<1> HIDE DEF it, high
<1>10. CASE accepted /\ high
  <2>1. s_priority' = Append(s_priority, it) /\ s_bulk' = room
    BY <1>4, <1>10
  <2>2. s_queuedBytes' = s_queuedBytes - Shaper!Bytes(s_bulk) + Shaper!Bytes(room) + w
    BY <1>4, <1>10
  <2>3. /\ Shaper!Bytes(s_priority') = Shaper!Bytes(s_priority) + w
        /\ Shaper!Bytes(s_bulk') = Shaper!Bytes(room)
    BY <1>6, <2>1
  <2>4. Shaper!Bytes(s_priority') + Shaper!Bytes(s_bulk') <= QueueLimit
    BY <1>5, <1>9, <1>10, <2>3
  <2>5. /\ s_queuedBytes' + Shaper!Bytes(s_priority) + Shaper!Bytes(s_bulk)
             = s_queuedBytes + Shaper!Bytes(s_priority') + Shaper!Bytes(s_bulk')
        /\ s_queuedBytes' \in Int
    BY <1>5, <1>9, <2>2, <2>3
  <2>6. s_priority' \in ShaperQueues /\ s_bulk' \in ShaperQueues
    BY <1>2, <1>6, <2>1
  <2>7. QED
    BY <1>4, <2>4, <2>5, <2>6 DEF DataMoves
<1>11. CASE accepted /\ ~high
  <2>1. s_priority' = s_priority /\ s_bulk' = Append(room, it)
    BY <1>4, <1>11
  <2>2. s_queuedBytes' = s_queuedBytes - Shaper!Bytes(s_bulk) + Shaper!Bytes(room) + w
    BY <1>4, <1>11
  <2>3. /\ Shaper!Bytes(s_priority') = Shaper!Bytes(s_priority)
        /\ Shaper!Bytes(s_bulk') = Shaper!Bytes(room) + w
    BY <1>6, <2>1
  <2>4. Shaper!Bytes(s_priority') + Shaper!Bytes(s_bulk') <= QueueLimit
    BY <1>5, <1>9, <1>11, <2>3
  <2>5. /\ s_queuedBytes' + Shaper!Bytes(s_priority) + Shaper!Bytes(s_bulk)
             = s_queuedBytes + Shaper!Bytes(s_priority') + Shaper!Bytes(s_bulk')
        /\ s_queuedBytes' \in Int
    BY <1>5, <1>9, <2>2, <2>3
  <2>6. s_priority' \in ShaperQueues /\ s_bulk' \in ShaperQueues
    BY <1>6, <2>1 DEF ShaperInv
  <2>7. QED
    BY <1>4, <2>4, <2>5, <2>6 DEF DataMoves
<1>12. CASE ~accepted
  <2>1. s_priority' = s_priority /\ s_bulk' = room
    BY <1>4, <1>12
  <2>2. s_queuedBytes' = s_queuedBytes - Shaper!Bytes(s_bulk) + Shaper!Bytes(room) + 0
    BY <1>4, <1>12
  <2>3. /\ Shaper!Bytes(s_priority') = Shaper!Bytes(s_priority)
        /\ Shaper!Bytes(s_bulk') = Shaper!Bytes(room)
    BY <2>1
  <2>4. Shaper!Bytes(s_priority') + Shaper!Bytes(s_bulk') <= QueueLimit
    BY <1>2, <1>5, <1>7, <1>8, <2>3
  <2>5. /\ s_queuedBytes' + Shaper!Bytes(s_priority) + Shaper!Bytes(s_bulk)
             = s_queuedBytes + Shaper!Bytes(s_priority') + Shaper!Bytes(s_bulk')
        /\ s_queuedBytes' \in Int
    BY <1>5, <1>7, <2>2, <2>3
  <2>6. s_priority' \in ShaperQueues /\ s_bulk' \in ShaperQueues
    BY <1>2, <2>1 DEF ShaperInv
  <2>7. QED
    BY <1>4, <2>4, <2>5, <2>6 DEF DataMoves
<1>13. QED
  BY <1>10, <1>11, <1>12

\* The queues stay as they are: the loop starts or ends, or the rate changes.
ShaperRests ==
  UNCHANGED <<s_control, s_priority, s_bulk, s_queuedBytes>>

LEMMA RestKeeps ==
  ASSUME ShaperInv, ShaperRests
  PROVE  ShaperInv'
BY DEF ShaperInv, ShaperRests, BytesAreQueued, Shaper!BytesAreQueued

\* dequeue takes a control message.
LEMMA TakeControlKeeps ==
  ASSUME Shaper!ShaperAssumption, ShaperInv, Shaper!TakeControl
  PROVE  ShaperInv'
<1>1. /\ s_control > 0 /\ s_control' = s_control - 1
      /\ s_queuedBytes' = s_queuedBytes - ControlWire
      /\ UNCHANGED <<s_priority, s_bulk>>
  BY DEF Shaper!TakeControl
<1>2. s_control' \in Nat /\ s_control = s_control' + 1
  BY <1>1 DEF ShaperInv
<1>3. /\ ControlWire \in Nat /\ s_control' * ControlWire \in Nat
      /\ s_control * ControlWire = s_control' * ControlWire + ControlWire
  BY <1>2, ControlBytes DEF Shaper!ShaperAssumption
<1>4. Shaper!Bytes(s_priority) \in Nat /\ Shaper!Bytes(s_bulk) \in Nat
  BY BytesAreSum DEF ShaperInv
<1>5. s_queuedBytes = s_control * ControlWire + Shaper!Bytes(s_priority) + Shaper!Bytes(s_bulk)
  BY DEF ShaperInv, BytesAreQueued, Shaper!BytesAreQueued
<1>6. s_queuedBytes'
        = s_control' * ControlWire + Shaper!Bytes(s_priority) + Shaper!Bytes(s_bulk)
  BY <1>1, <1>3, <1>4, <1>5
<1>7. QED
  BY <1>1, <1>2, <1>6 DEF ShaperInv, BytesAreQueued, Shaper!BytesAreQueued

\* The statistic and the sums are numbers, whatever is queued.
LEMMA ShaperNumbers ==
  ASSUME Shaper!ShaperAssumption, ShaperInv
  PROVE  /\ Shaper!Bytes(s_priority) \in Nat /\ Shaper!Bytes(s_bulk) \in Nat
         /\ s_queuedBytes \in Int /\ QueueLimit \in Nat
         /\ Shaper!Bytes(s_priority) + Shaper!Bytes(s_bulk) <= QueueLimit
<1>1. s_control * ControlWire \in Nat
  BY ControlBytes DEF ShaperInv, Shaper!ShaperAssumption
<1>2. Shaper!Bytes(s_priority) \in Nat /\ Shaper!Bytes(s_bulk) \in Nat
  BY BytesAreSum DEF ShaperInv
<1>3. QED
  BY <1>1, <1>2 DEF ShaperInv, BytesAreQueued, Shaper!BytesAreQueued, Shaper!ShaperAssumption

\* What is subtracted from the statistic is what leaves the queue.
LEMMA TakenAway ==
  ASSUME NEW whole \in Nat, NEW head \in Nat, NEW rest \in Nat, whole = head + rest,
         NEW other \in Nat, NEW total \in Int
  PROVE  /\ (total - head) + whole + other = total + rest + other
         /\ (total - head) + other + whole = total + other + rest
         /\ total - head \in Int
OBVIOUS

\* dequeue takes the oldest priority packet, to send it or because CoDel drops it.
LEMMA PopPriorityMoves ==
  ASSUME Shaper!ShaperAssumption, ShaperInv, Shaper!PopPriority
  PROVE  DataMoves
<1>1. /\ s_priority # <<>> /\ s_priority' = Tail(s_priority)
      /\ s_queuedBytes' = s_queuedBytes - Head(s_priority).wire
      /\ UNCHANGED <<s_control, s_bulk>>
  BY DEF Shaper!PopPriority, Shaper!PriorityFirst
<1>2. /\ s_priority' \in ShaperQueues /\ Head(s_priority).wire \in Nat
      /\ Shaper!Bytes(s_priority) = Head(s_priority).wire + Shaper!Bytes(s_priority')
      /\ Shaper!Bytes(s_priority') \in Nat
  BY <1>1, BytesOfTail, BytesAreSum DEF ShaperInv
<1>3. Shaper!Bytes(s_bulk') = Shaper!Bytes(s_bulk) /\ s_bulk' \in ShaperQueues
  BY <1>1 DEF ShaperInv
<1>4. /\ Shaper!Bytes(s_priority) \in Nat /\ Shaper!Bytes(s_bulk) \in Nat
      /\ s_queuedBytes \in Int /\ QueueLimit \in Nat
      /\ Shaper!Bytes(s_priority) + Shaper!Bytes(s_bulk) <= QueueLimit
  BY ShaperNumbers
<1>5. /\ s_queuedBytes' + Shaper!Bytes(s_priority) + Shaper!Bytes(s_bulk)
           = s_queuedBytes + Shaper!Bytes(s_priority') + Shaper!Bytes(s_bulk')
      /\ s_queuedBytes' \in Int
  BY <1>1, <1>2, <1>3, <1>4, TakenAway
<1>6. Shaper!Bytes(s_priority') + Shaper!Bytes(s_bulk') <= QueueLimit
  BY <1>2, <1>3, <1>4
<1>7. QED
  BY <1>1, <1>2, <1>3, <1>5, <1>6 DEF DataMoves

\* The same for the oldest bulk packet.
LEMMA PopBulkMoves ==
  ASSUME Shaper!ShaperAssumption, ShaperInv, Shaper!PopBulk
  PROVE  DataMoves
<1>1. /\ s_bulk # <<>> /\ s_bulk' = Tail(s_bulk)
      /\ s_queuedBytes' = s_queuedBytes - Head(s_bulk).wire
      /\ UNCHANGED <<s_control, s_priority>>
  BY DEF Shaper!PopBulk
<1>2. /\ s_bulk' \in ShaperQueues /\ Head(s_bulk).wire \in Nat
      /\ Shaper!Bytes(s_bulk) = Head(s_bulk).wire + Shaper!Bytes(s_bulk')
      /\ Shaper!Bytes(s_bulk') \in Nat
  BY <1>1, BytesOfTail, BytesAreSum DEF ShaperInv
<1>3. Shaper!Bytes(s_priority') = Shaper!Bytes(s_priority) /\ s_priority' \in ShaperQueues
  BY <1>1 DEF ShaperInv
<1>4. /\ Shaper!Bytes(s_priority) \in Nat /\ Shaper!Bytes(s_bulk) \in Nat
      /\ s_queuedBytes \in Int /\ QueueLimit \in Nat
      /\ Shaper!Bytes(s_priority) + Shaper!Bytes(s_bulk) <= QueueLimit
  BY ShaperNumbers
<1>5. /\ s_queuedBytes' + Shaper!Bytes(s_priority) + Shaper!Bytes(s_bulk)
           = s_queuedBytes + Shaper!Bytes(s_priority') + Shaper!Bytes(s_bulk')
      /\ s_queuedBytes' \in Int
  <2>1. /\ (s_queuedBytes - Head(s_bulk).wire) + Shaper!Bytes(s_priority) + Shaper!Bytes(s_bulk)
             = s_queuedBytes + Shaper!Bytes(s_priority) + Shaper!Bytes(s_bulk')
        /\ s_queuedBytes - Head(s_bulk).wire \in Int
    BY <1>2, <1>4, TakenAway
  <2>2. QED
    BY <1>1, <1>3, <2>1
<1>6. Shaper!Bytes(s_priority') + Shaper!Bytes(s_bulk') <= QueueLimit
  BY <1>2, <1>3, <1>4
<1>7. QED
  BY <1>1, <1>2, <1>3, <1>5, <1>6 DEF DataMoves

\* The lesser of two ages is an age.
LEMMA LesserAge ==
  ASSUME NEW a \in Int, NEW b \in Int
  PROVE  Shaper!Min({a, b}) \in Int
<1>1. CASE a <= b
  <2>1. a \in {a, b} /\ \A x \in {a, b} : a <= x
    BY <1>1
  <2>2. Shaper!Min({a, b}) \in {a, b}
    BY <2>1 DEF Shaper!Min
  <2>3. QED
    BY <2>2
<1>2. CASE ~(a <= b)
  <2>1. b \in {a, b} /\ \A x \in {a, b} : b <= x
    BY <1>2
  <2>2. Shaper!Min({a, b}) \in {a, b}
    BY <2>1 DEF Shaper!Min
  <2>3. QED
    BY <2>2
<1>3. QED
  BY <1>1, <1>2

Older(q) ==
  [i \in DOMAIN q |-> [q[i] EXCEPT !.age = Shaper!Min({@ + 1, Target})]]

\* Packets that grow older are the same bytes.
LEMMA OlderQueue ==
  ASSUME Shaper!ShaperAssumption, NEW q \in ShaperQueues
  PROVE  Older(q) \in ShaperQueues /\ Shaper!Bytes(Older(q)) = Shaper!Bytes(q)
<1>1. /\ Len(q) \in Nat /\ DOMAIN q = 1 .. Len(q)
      /\ \A i \in 1 .. Len(q) : q[i] \in [wire : Nat, age : Int]
  BY SeqTyped DEF ShaperQueues
<1>2. Target \in Int
  BY DEF Shaper!ShaperAssumption
<1>3. ASSUME NEW i \in 1 .. Len(q)
      PROVE  /\ [q[i] EXCEPT !.age = Shaper!Min({@ + 1, Target})] \in [wire : Nat, age : Int]
             /\ [q[i] EXCEPT !.age = Shaper!Min({@ + 1, Target})].wire = q[i].wire
  <2>1. q[i] \in [wire : Nat, age : Int] /\ q[i].age + 1 \in Int
    BY <1>1
  <2>2. Shaper!Min({q[i].age + 1, Target}) \in Int
    BY <1>2, <2>1, LesserAge
  <2>3. QED
    BY <2>1, <2>2
<1>4. Older(q) \in Seq([wire : Nat, age : Int]) /\ Len(Older(q)) = Len(q)
  <2> DEFINE S == [wire : Nat, age : Int]
  <2>1. Older(q) = [i \in 1 .. Len(q) |-> [q[i] EXCEPT !.age = Shaper!Min({@ + 1, Target})]]
    BY <1>1 DEF Older
  <2>2. \A i \in 1 .. Len(q) : [q[i] EXCEPT !.age = Shaper!Min({@ + 1, Target})] \in S
    BY <1>3
  <2> HIDE DEF S
  <2>3. Older(q) \in Seq(S) /\ Len(Older(q)) = Len(q)
    BY <1>1, <2>1, <2>2
  <2>4. QED
    BY <2>3 DEF S
<1>5. \A i \in 1 .. Len(q) : Older(q)[i].wire = q[i].wire
  BY <1>1, <1>3 DEF Older
<1>6. Older(q) \in ShaperQueues
  BY <1>4 DEF ShaperQueues
<1>7. QED
  BY <1>4, <1>5, <1>6, BytesOfOlder

\* Time passes.
LEMMA ShaperTick ==
  ASSUME Shaper!ShaperAssumption, ShaperInv, Shaper!Tick
  PROVE  ShaperInv'
<1>1. /\ s_priority' = Older(s_priority) /\ s_bulk' = Older(s_bulk)
      /\ s_control' = s_control /\ s_queuedBytes' = s_queuedBytes
  <2>1. /\ s_priority' = Older(s_priority)
        /\ s_bulk' = Older(s_bulk)
    BY Zenon DEF Shaper!Tick, Older
  <2>2. s_control' = s_control /\ s_queuedBytes' = s_queuedBytes
    BY Zenon DEF Shaper!Tick
  <2>3. QED
    BY <2>1, <2>2
<1>2. /\ s_priority' \in ShaperQueues /\ Shaper!Bytes(s_priority') = Shaper!Bytes(s_priority)
      /\ s_bulk' \in ShaperQueues /\ Shaper!Bytes(s_bulk') = Shaper!Bytes(s_bulk)
  BY <1>1, OlderQueue DEF ShaperInv
<1>3. DataMoves
  BY <1>1, <1>2, ShaperNumbers DEF DataMoves
<1>4. QED
  BY <1>3, DataKeeps

LEMMA ShaperStep ==
  ASSUME Shaper!ShaperAssumption, ShaperInv, [Shaper!Next]_(Shaper!vars)
  PROVE  ShaperInv'
<1>1. CASE Shaper!EnqueueControl
  BY <1>1, ControlKeeps
<1>2. ASSUME NEW w \in Wires, Shaper!Enqueue(w)
      PROVE  ShaperInv'
  BY <1>2, EnqueueMoves, DataKeeps
<1>3. CASE Shaper!Begin
  <2>1. ShaperRests
    BY <1>3 DEF Shaper!Begin, Shaper!queues, ShaperRests
  <2>2. QED
    BY <2>1, RestKeeps
<1>4. CASE Shaper!TakeControl
  BY <1>4, TakeControlKeeps
<1>5. CASE Shaper!TakePriority \/ Shaper!DropPriority
  <2>1. Shaper!PopPriority
    BY <1>5 DEF Shaper!TakePriority, Shaper!DropPriority
  <2>2. QED
    BY <2>1, PopPriorityMoves, DataKeeps
<1>6. CASE Shaper!TakeBulk \/ Shaper!DropBulk
  <2>1. Shaper!PopBulk
    BY <1>6 DEF Shaper!TakeBulk, Shaper!DropBulk
  <2>2. QED
    BY <2>1, PopBulkMoves, DataKeeps
<1>7. CASE Shaper!Finish
  <2>1. ShaperRests
    BY <1>7 DEF Shaper!Finish, Shaper!queues, ShaperRests
  <2>2. QED
    BY <2>1, RestKeeps
<1>8. ASSUME NEW r \in Rates, Shaper!SetRate(r)
      PROVE  ShaperInv'
  <2>1. ShaperRests
    BY <1>8 DEF Shaper!SetRate, Shaper!queues, ShaperRests
  <2>2. QED
    BY <2>1, RestKeeps
<1>9. CASE Shaper!Tick
  BY <1>9, ShaperTick
<1>10. CASE UNCHANGED Shaper!vars
  <2>1. ShaperRests
    BY <1>10 DEF Shaper!vars, Shaper!queues, ShaperRests
  <2>2. QED
    BY <2>1, RestKeeps
<1>11. QED
  BY <1>1, <1>2, <1>3, <1>4, <1>5, <1>6, <1>7, <1>8, <1>9, <1>10
     DEF Shaper!Next, Shaper!Dequeue

\* A path's byte statistic is what its three queues hold, and its data stays within the
\* limit, whatever overflow, CoDel and dequeue take away, for all sizes, limits and
\* drop laws (enqueue, drop, take in shaper.go).
THEOREM QueuesAreCounted == Shaper!Spec => []BytesAreQueued
<1>1. Shaper!ShaperAssumption
  BY ComponentsAssumption
<1>2. Shaper!Init => ShaperInv
  BY <1>1, ShaperInit
<1>3. ShaperInv /\ [Shaper!Next]_(Shaper!vars) => ShaperInv'
  BY <1>1, ShaperStep
<1>4. ShaperInv => BytesAreQueued
  BY DEF ShaperInv
<1>5. QED
  BY <1>2, <1>3, <1>4, PTL DEF Shaper!Spec

-----------------------------------------------------------------------------
(* The forward side of the TCP tunnel and deduplication: what their own    *)
(* modules prove, for the sizes of Components.                             *)

DialerProofs == INSTANCE TcpTunnelForwardProofs WITH
  Pools <- DialPools, Conns <- DialConns, ConnIDs <- DialIDs, connCount <- t_connCount,
  pool <- t_pool, refill <- t_refill, fresh <- t_fresh, home <- t_home,
  open <- t_open, auth <- t_auth, pc <- t_pc, left <- t_left, doomed <- t_doomed,
  tracked <- t_tracked, reading <- t_reading, sameGen <- t_sameGen,
  index <- t_index, sender <- t_sender, found <- t_found, senderAt <- t_senderAt,
  stopped <- t_stopped

\* A read loop that skips RememberConnID has its ID in the index, for the pools of
\* Components (readLoop, forgetPool, getPoolByID).
THEOREM DialerSkipsRightly == Dialer!Spec => []SkippedIsIndexed
<1>1. DialerProofs!Spec => []DialerProofs!SkippedIsIndexed
  BY DialerProofs!TrackedIsIndexed, ComponentsAssumption
<1>2. Dialer!Init => DialerProofs!Init
  BY DEF Dialer!Init, DialerProofs!Init
<1>3. [Dialer!Next]_(Dialer!vars) => [DialerProofs!Next]_(DialerProofs!vars)
  BY Zenon DEF
     Dialer!Next, DialerProofs!Next, Dialer!vars, DialerProofs!vars, Dialer!PoolNext,
         DialerProofs!PoolNext, Dialer!ConnNext, DialerProofs!ConnNext,
         Dialer!SenderNext, DialerProofs!SenderNext, Dialer!conn, DialerProofs!conn,
         Dialer!reader, DialerProofs!reader, Dialer!filler, DialerProofs!filler,
         Dialer!life, DialerProofs!life, Dialer!Go, DialerProofs!Go, Dialer!Full,
         DialerProofs!Full, Dialer!CheckTick, DialerProofs!CheckTick, Dialer!DialFails,
         DialerProofs!DialFails, Dialer!Unused, DialerProofs!Unused,
         Dialer!DialSucceeds, DialerProofs!DialSucceeds, Dialer!SendChallenge,
         DialerProofs!SendChallenge, Dialer!AddConnection, DialerProofs!AddConnection,
         Dialer!Challenged, DialerProofs!Challenged, Dialer!Authenticate,
         DialerProofs!Authenticate, Dialer!ReadData, DialerProofs!ReadData,
         Dialer!RememberConnID, DialerProofs!RememberConnID, Dialer!Close,
         DialerProofs!Close, Dialer!Without, DialerProofs!Without, Dialer!NewGeneration,
         DialerProofs!NewGeneration, Dialer!ReadEnds, DialerProofs!ReadEnds,
         Dialer!GiveUp, DialerProofs!GiveUp, Dialer!ForgetPool, DialerProofs!ForgetPool,
         Dialer!DeleteEntry, DialerProofs!DeleteEntry, Dialer!SenderCounts,
         DialerProofs!SenderCounts, Dialer!SenderDeletes, DialerProofs!SenderDeletes,
         Dialer!sending, DialerProofs!sending,
         Dialer!BumpGeneration, DialerProofs!BumpGeneration, Dialer!HandlePacket,
         DialerProofs!HandlePacket, Dialer!SenderBumps, DialerProofs!SenderBumps,
         Dialer!GetNextConn, DialerProofs!GetNextConn, Dialer!Usable,
         DialerProofs!Usable, Dialer!PickPool, DialerProofs!PickPool, Dialer!Stop,
         DialerProofs!Stop, Dialer!ToSet, DialerProofs!ToSet, Dialer!RemoveFirst,
         DialerProofs!RemoveFirst, Dialer!RemoveAt, DialerProofs!RemoveAt,
         Dialer!SelectInSeq, DialerProofs!SelectInSeq, Dialer!Min, DialerProofs!Min
<1>4. DialerProofs!SkippedIsIndexed => SkippedIsIndexed
  BY DEF SkippedIsIndexed, Dialer!SkippedIsIndexed, DialerProofs!SkippedIsIndexed,
         Dialer!BumpPending, DialerProofs!BumpPending
<1>5. QED
  BY <1>1, <1>2, <1>3, <1>4, PTL DEF Dialer!Spec, DialerProofs!Spec

DedupProofs == INSTANCE AuthDedupProofs WITH
  Readers <- DedupReaders,
  now <- d_now, skew <- d_skew, active <- d_active, frame <- d_frame,
  seq <- d_seq, sent <- d_sent, bitmap <- d_bitmap, access <- d_access,
  handling <- d_handling, delivered <- d_delivered

\* The two instances of AuthDedup are the same specification.
LEMMA DedupSame ==
  /\ DedupProofs!DedupAssumption
  /\ Dedup!Init => DedupProofs!Init
  /\ [Dedup!Next]_(Dedup!vars) => [DedupProofs!Next]_(DedupProofs!vars)
<1>1. DedupProofs!DedupAssumption
  BY ComponentsAssumption, Zenon
     DEF ComponentsAssumption, Dedup!DedupAssumption, DedupProofs!DedupAssumption,
         Dedup!IsFiniteSet, DedupProofs!IsFiniteSet
<1>2. Dedup!Init => DedupProofs!Init
  BY Zenon DEF Dedup!Init, DedupProofs!Init,
     Dedup!Ends, DedupProofs!Ends, Dedup!Frames, DedupProofs!Frames, Dedup!Nonces,
         DedupProofs!Nonces
<1>3. [Dedup!Next]_(Dedup!vars) => [DedupProofs!Next]_(DedupProofs!vars)
  BY Zenon DEF
     Dedup!Next, DedupProofs!Next, Dedup!vars, DedupProofs!vars, Dedup!network,
         DedupProofs!network, Dedup!nonce, DedupProofs!nonce, Dedup!tracker,
         DedupProofs!tracker, Dedup!Ends, DedupProofs!Ends, Dedup!Frames,
         DedupProofs!Frames, Dedup!Nonces, DedupProofs!Nonces, Dedup!Exhausted,
         DedupProofs!Exhausted, Dedup!NextNonce, DedupProofs!NextNonce,
         Dedup!MarkAsUsed, DedupProofs!MarkAsUsed, Dedup!IsDuplicate,
         DedupProofs!IsDuplicate, Dedup!WrapData, DedupProofs!WrapData, Dedup!Check,
         DedupProofs!Check, Dedup!Accept, DedupProofs!Accept, Dedup!Refuse,
         DedupProofs!Refuse, Dedup!Old, DedupProofs!Old, Dedup!Cleanup,
         DedupProofs!Cleanup, Dedup!Tick, DedupProofs!Tick
<1>4. QED
  BY <1>1, <1>2, <1>3

\* A copy that comes back to its sender is dropped until it has expired, whatever the
\* cleanup of frames does meanwhile, for the clocks and readers of Components
\* (WrapData, cleanupExpiredFrames).
THEOREM DedupDropsReflection == Dedup!Spec => []ReflectionIsDropped
<1>1. DedupProofs!Spec => []DedupProofs!ReflectionIsDropped
  BY DedupSame, DedupProofs!ReflectionDropped
<1>2. DedupProofs!ReflectionIsDropped => ReflectionIsDropped
  BY Zenon DEF ReflectionIsDropped, Dedup!ReflectionIsDropped,
               DedupProofs!ReflectionIsDropped, Dedup!IsDuplicate, DedupProofs!IsDuplicate
<1>3. QED
  BY <1>1, <1>2, DedupSame, PTL DEF Dedup!Spec, DedupProofs!Spec

\* At most one delivery per concurrent reader, if no clock is further ahead than
\* FrameTimeout - DataTimeout (UnwrapData, markAsUsed, cleanupExpiredFrames).
THEOREM DedupDelivers ==
  ASSUME \A s \in Skews : s <= FrameTimeout - DataTimeout
  PROVE  Dedup!Spec => ImplementsDelivery
<1>1. DedupProofs!SkewsAreSmall
  BY DEF DedupProofs!SkewsAreSmall
<1>2. DedupProofs!Spec => DedupProofs!ImplementsDelivery
  BY <1>1, DedupSame, DedupProofs!DeliversAsPromised
<1>3. DedupProofs!Promise!Init => Dedup!Promise!Init
  BY Zenon DEF DedupProofs!Promise!Init, Dedup!Promise!Init, DedupProofs!Nonces, Dedup!Nonces,
     DedupProofs!Frames, Dedup!Frames, DedupProofs!Cardinality, Dedup!Cardinality
<1>4. [DedupProofs!Promise!Next]_(DedupProofs!Promise!vars)
        => [Dedup!Promise!Next]_(Dedup!Promise!vars)
  BY Zenon DEF DedupProofs!Promise!Next, Dedup!Promise!Next, DedupProofs!Promise!vars,
     Dedup!Promise!vars, DedupProofs!Promise!Deliver, Dedup!Promise!Deliver,
     DedupProofs!Nonces, Dedup!Nonces, DedupProofs!Frames, Dedup!Frames,
     DedupProofs!Cardinality, Dedup!Cardinality
<1>5. QED
  BY <1>2, <1>3, <1>4, DedupSame, PTL DEF Dedup!Spec, DedupProofs!Spec, ImplementsDelivery,
     Dedup!ImplementsDelivery, DedupProofs!ImplementsDelivery, Dedup!Promise!Spec,
     DedupProofs!Promise!Spec

-----------------------------------------------------------------------------
(* A behaviour of Components is one of each part, most of which rest.      *)

\* A step of Components is a step of the part that runs and leaves the others alone.
LEMMA PartSteps ==
  ASSUME [PartNext]_partVars
  PROVE  /\ [Next]_vars
         /\ [Dialer!Next]_(Dialer!vars)
         /\ [Heart!Next]_(Heart!vars)
         /\ [Dedup!Next]_(Dedup!vars)
         /\ [Shaper!Next]_(Shaper!vars)
         /\ [Rate!Next]_(Rate!vars)
         /\ [Balancer!Next]_(Balancer!vars)
<1>1. [Dialer!Next]_(Dialer!vars)
  <2>1. CASE UNCHANGED dialerVars
    BY <2>1, Zenon
       DEF dialerVars, Dialer!vars, Dialer!filler, Dialer!conn, Dialer!reader,
           Dialer!sending, Dialer!life
  <2>2. CASE ~UNCHANGED dialerVars
    BY <2>2, Zenon DEF PartNext, partVars
  <2>3. QED
    BY <2>1, <2>2
<1>2. [Heart!Next]_(Heart!vars)
  <2>1. CASE UNCHANGED heartVars
    BY <2>1, Zenon DEF heartVars, Heart!vars
  <2>2. CASE ~UNCHANGED heartVars
    BY <2>2, Zenon DEF PartNext, partVars
  <2>3. QED
    BY <2>1, <2>2
<1>3. [Dedup!Next]_(Dedup!vars)
  <2>1. CASE UNCHANGED dedupVars
    BY <2>1, Zenon DEF dedupVars, Dedup!vars, Dedup!network, Dedup!nonce, Dedup!tracker
  <2>2. CASE ~UNCHANGED dedupVars
    BY <2>2, Zenon DEF PartNext, partVars
  <2>3. QED
    BY <2>1, <2>2
<1>4. [Shaper!Next]_(Shaper!vars)
  <2>1. CASE UNCHANGED shaperVars
    BY <2>1, Zenon DEF shaperVars, Shaper!vars, Shaper!queues, Shaper!buckets, Shaper!loop
  <2>2. CASE ~UNCHANGED shaperVars
    BY <2>2, Zenon DEF PartNext, partVars
  <2>3. QED
    BY <2>1, <2>2
<1>5. [Rate!Next]_(Rate!vars)
  <2>1. CASE UNCHANGED rateVars
    BY <2>1, Zenon DEF rateVars, Rate!vars
  <2>2. CASE ~UNCHANGED rateVars
    BY <2>2, Zenon DEF PartNext, partVars
  <2>3. QED
    BY <2>1, <2>2
<1>6. [Balancer!Next]_(Balancer!vars)
  <2>1. CASE UNCHANGED balancerVars
    BY <2>1, Zenon
       DEF balancerVars, Balancer!vars, Balancer!config, Balancer!stats, Balancer!ring,
           Balancer!rules, Balancer!routing
  <2>2. CASE ~UNCHANGED balancerVars
    BY <2>2, Zenon DEF PartNext, partVars
  <2>3. QED
    BY <2>1, <2>2
<1>7. [Next]_vars
  <2>1. CASE UNCHANGED vars
    BY <2>1, Zenon
  <2>2. CASE ~UNCHANGED vars
    BY <2>2, Zenon DEF PartNext, partVars
  <2>3. QED
    BY <2>1, <2>2
<1>8. QED
  BY <1>1, <1>2, <1>3, <1>4, <1>5, <1>6, <1>7

\* Whichever part runs, what is proved of each holds in Components: of the index
\* (readLoop, forgetPool), heartbeats (sendHeartbeat), deduplication (WrapData,
\* UnwrapData), the shaper (enqueue, take), the rate (tick), the balancer's window
\* (sampleStats) and of the listen side's replies (HandleAuthenticatedConnection,
\* RememberConnID, HandlePacket), whether or not updates of its map of pools overlap.
THEOREM ComponentsAreRight ==
  PartSpec =>
    /\ []RepliesStayWithClient /\ []SkippedIsIndexed /\ GivenUpAfterSilence
    /\ []ReflectionIsDropped /\ []BytesAreQueued /\ CutsOnNewSamples /\ []WindowIsExact
    /\ (\A s \in Skews : s <= FrameTimeout - DataTimeout) => ImplementsDelivery
<1>1. PartInit => /\ Init /\ Dialer!Init /\ Heart!Init /\ Dedup!Init
                  /\ Shaper!Init /\ Rate!Init /\ Balancer!Init
  BY Zenon DEF PartInit
<1>2. PartSpec => /\ Spec /\ Dialer!Spec /\ Heart!Spec /\ Dedup!Spec
                  /\ Shaper!Spec /\ Rate!Spec /\ Balancer!Spec
  BY <1>1, PartSteps, PTL DEF PartSpec, Spec, Dialer!Spec, Heart!Spec, Dedup!Spec,
     Shaper!Spec, Rate!Spec, Balancer!Spec
<1>3. PartSpec =>
        /\ []RepliesStayWithClient /\ []SkippedIsIndexed /\ GivenUpAfterSilence
        /\ []ReflectionIsDropped /\ []BytesAreQueued /\ CutsOnNewSamples /\ []WindowIsExact
  BY <1>2, RepliesKeepToClient, DialerSkipsRightly, GiveUpNeedsSilence,
     DedupDropsReflection, QueuesAreCounted, CutsNeedNewSamples, TotalIsWindow, PTL
<1>4. ASSUME \A s \in Skews : s <= FrameTimeout - DataTimeout
      PROVE  PartSpec => ImplementsDelivery
  <2>1. Dedup!Spec => ImplementsDelivery
    BY <1>4, DedupDelivers
  <2>2. QED
    BY <1>2, <2>1, PTL
<1>5. QED
  BY <1>3, <1>4
=============================================================================
