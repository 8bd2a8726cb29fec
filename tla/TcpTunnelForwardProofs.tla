------------------------ MODULE TcpTunnelForwardProofs ------------------------
(***************************************************************************)
(* The pools, the connection index and the choice of a connection on the   *)
(* forward side of the TCP tunnel, for any pools, any number of            *)
(* connections and IDs, and any configuration.                             *)
(***************************************************************************)
EXTENDS TcpTunnelForward, SumLemmas

-----------------------------------------------------------------------------
(* Sequences and minima.                                                   *)

\* Removing the first occurrence closes the gap it leaves (RemoveConnection).
LEMMA RemoveFirstShifts ==
  ASSUME NEW S, NEW s \in Seq(S), NEW e
  PROVE  \/ RemoveFirst(s, e) = s /\ e \notin ToSet(s)
         \/ \E k \in 1 .. Len(s) :
              /\ s[k] = e
              /\ RemoveFirst(s, e) \in Seq(S)
              /\ Len(RemoveFirst(s, e)) = Len(s) - 1
              /\ \A i \in 1 .. Len(s) - 1 :
                   RemoveFirst(s, e)[i] = IF i < k THEN s[i] ELSE s[i + 1]
<1>1. CASE \A i \in 1 .. Len(s) : s[i] # e
  BY <1>1 DEF RemoveFirst, SelectInSeq, ToSet
<1>2. CASE \E i \in 1 .. Len(s) : s[i] = e
  <2> DEFINE I == {i \in 1 .. Len(s) : s[i] = e}
             k == Min(I)
  <2>1. I \in SUBSET Nat /\ I # {}
    BY <1>2
  <2>2. k \in I
    <3> HIDE DEF I
    <3>1. QED
      BY <2>1, LeastNatural
  <2>3. RemoveFirst(s, e) = RemoveAt(s, k)
    BY <1>2 DEF RemoveFirst, SelectInSeq
  <2>4. k \in 1 .. Len(s) /\ s[k] = e
    BY <2>2
  <2> HIDE DEF k
  <2>5. /\ SubSeq(s, 1, k - 1) \in Seq(S) /\ Len(SubSeq(s, 1, k - 1)) = k - 1
        /\ \A i \in 1 .. k - 1 : SubSeq(s, 1, k - 1)[i] = s[i]
    BY <2>4
  <2>6. /\ SubSeq(s, k + 1, Len(s)) \in Seq(S) /\ Len(SubSeq(s, k + 1, Len(s))) = Len(s) - k
        /\ \A i \in 1 .. Len(s) - k : SubSeq(s, k + 1, Len(s))[i] = s[i + k]
    BY <2>4
  <2>7. /\ RemoveAt(s, k) \in Seq(S) /\ Len(RemoveAt(s, k)) = Len(s) - 1
        /\ \A i \in 1 .. Len(s) - 1 : RemoveAt(s, k)[i] = IF i < k THEN s[i] ELSE s[i + 1]
    <3> DEFINE front == SubSeq(s, 1, k - 1)
               rest == SubSeq(s, k + 1, Len(s))
    <3>1. RemoveAt(s, k) = front \o rest
      BY DEF RemoveAt
    <3> HIDE DEF front, rest
    <3>2. /\ front \in Seq(S) /\ Len(front) = k - 1 /\ \A i \in 1 .. k - 1 : front[i] = s[i]
          /\ rest \in Seq(S) /\ Len(rest) = Len(s) - k
          /\ \A i \in 1 .. Len(s) - k : rest[i] = s[i + k]
      BY <2>5, <2>6 DEF front, rest
    <3>3. front \o rest \in Seq(S) /\ Len(front \o rest) = Len(s) - 1
      <4>1. front \in Seq(S) /\ rest \in Seq(S)
        BY <3>2
      <4>2. front \o rest \in Seq(S) /\ Len(front \o rest) = Len(front) + Len(rest)
        BY <4>1
      <4>3. Len(s) \in Nat
        OBVIOUS
      <4>4. QED
        BY <2>4, <3>2, <4>2, <4>3
    <3>4. ASSUME NEW i \in 1 .. Len(s) - 1
          PROVE  (front \o rest)[i] = IF i < k THEN s[i] ELSE s[i + 1]
      <4>1. CASE i < k
        BY <2>4, <3>2, <4>1
      <4>2. CASE ~(i < k)
        <5>1. i - (k - 1) \in 1 .. Len(s) - k /\ rest[i - (k - 1)] = s[(i - (k - 1)) + k]
          BY <2>4, <3>2, <4>2
        <5>2. (front \o rest)[i] = rest[i - (k - 1)] /\ (i - (k - 1)) + k = i + 1
          BY <2>4, <3>2, <4>2
        <5>3. QED
          BY <4>2, <5>1, <5>2
      <4>3. QED
        BY <4>1, <4>2
    <3>5. QED
      BY <3>1, <3>3, <3>4
  <2>8. QED
    BY <2>3, <2>4, <2>7
<1>3. QED
  BY <1>1, <1>2

\* What is left after a removal: a shorter sequence without repetitions.
LEMMA RemoveFirstKeeps ==
  ASSUME NEW S, NEW s \in Seq(S), NEW e, IsInjective(s)
  PROVE  /\ RemoveFirst(s, e) \in Seq(S)
         /\ Len(RemoveFirst(s, e)) <= Len(s)
         /\ IsInjective(RemoveFirst(s, e))
         /\ ToSet(RemoveFirst(s, e)) = ToSet(s) \ {e}
<1> DEFINE t == RemoveFirst(s, e)
<1>1. CASE t = s /\ e \notin ToSet(s)
  BY <1>1
<1>2. CASE \E k \in 1 .. Len(s) :
              /\ s[k] = e /\ t \in Seq(S) /\ Len(t) = Len(s) - 1
              /\ \A i \in 1 .. Len(s) - 1 : t[i] = IF i < k THEN s[i] ELSE s[i + 1]
  <2> HIDE DEF t
  <2>1. PICK k \in 1 .. Len(s) :
              /\ s[k] = e /\ t \in Seq(S) /\ Len(t) = Len(s) - 1
              /\ \A i \in 1 .. Len(s) - 1 : t[i] = IF i < k THEN s[i] ELSE s[i + 1]
    BY <1>2
  <2>2. DOMAIN s = 1 .. Len(s) /\ DOMAIN t = 1 .. Len(s) - 1 /\ Len(s) \in Nat
    BY <2>1
  <2>3. IsInjective(t)
    <3> SUFFICES ASSUME NEW i \in 1 .. Len(s) - 1, NEW j \in 1 .. Len(s) - 1, t[i] = t[j]
                 PROVE  i = j
      BY <2>2 DEF IsInjective
    <3> DEFINE at(n) == IF n < k THEN n ELSE n + 1
    <3>1. at(i) \in 1 .. Len(s) /\ at(j) \in 1 .. Len(s)
      BY <2>2
    <3>2. t[i] = s[at(i)] /\ t[j] = s[at(j)]
      BY <2>1
    <3>3. at(i) = at(j)
      BY <2>2, <3>1, <3>2 DEF IsInjective
    <3>4. QED
      BY <3>3
  <2>4. ASSUME NEW x \in ToSet(t)
        PROVE  x \in ToSet(s) \ {e}
    BY <2>1, <2>2, <2>4 DEF ToSet, IsInjective
  <2>5. ASSUME NEW x \in ToSet(s) \ {e}
        PROVE  x \in ToSet(t)
    <3>1. PICK i \in 1 .. Len(s) : x = s[i] /\ i # k
      BY <2>1, <2>2 DEF ToSet
    <3>2. CASE i < k
      <4>1. i \in 1 .. Len(s) - 1 /\ t[i] = s[i]
        BY <2>1, <2>2, <3>1, <3>2
      <4>2. QED
        BY <2>2, <3>1, <4>1 DEF ToSet
    <3>3. CASE i > k
      <4>1. i - 1 \in 1 .. Len(s) - 1 /\ t[i - 1] = s[i]
        BY <2>1, <2>2, <3>1, <3>3
      <4>2. QED
        BY <2>2, <3>1, <4>1 DEF ToSet
    <3>4. QED
      BY <2>2, <3>1, <3>2, <3>3
  <2>6. QED
    BY <2>1, <2>2, <2>3, <2>4, <2>5 DEF t
<1>3. QED
  BY <1>1, <1>2, RemoveFirstShifts

\* Appending a new element keeps a sequence without repetitions (AddConnection).
LEMMA AppendKeeps ==
  ASSUME NEW S, NEW s \in Seq(S), NEW e \in S \ ToSet(s), IsInjective(s)
  PROVE  /\ Append(s, e) \in Seq(S) /\ Len(Append(s, e)) = Len(s) + 1
         /\ IsInjective(Append(s, e)) /\ ToSet(Append(s, e)) = ToSet(s) \cup {e}
<1>1. /\ DOMAIN s = 1 .. Len(s) /\ Len(s) \in Nat /\ Append(s, e) \in Seq(S)
      /\ DOMAIN Append(s, e) = 1 .. Len(s) + 1 /\ Len(Append(s, e)) = Len(s) + 1
      /\ Append(s, e)[Len(s) + 1] = e
      /\ \A i \in 1 .. Len(s) : Append(s, e)[i] = s[i]
  OBVIOUS
<1>2. \A i \in 1 .. Len(s) : s[i] # e
  BY <1>1 DEF ToSet
<1>3. IsInjective(Append(s, e))
  BY <1>1, <1>2 DEF IsInjective
<1>4. ToSet(Append(s, e)) = ToSet(s) \cup {e}
  BY <1>1 DEF ToSet
<1>5. QED
  BY <1>1, <1>3, <1>4

-----------------------------------------------------------------------------
(* The invariant.                                                          *)

\* What each variable is.
ForwardTyped ==
  /\ connCount \in [Pools -> Nat]
  /\ pool \in [Pools -> Seq(Conns)]
  /\ refill \in [Pools -> {"off", "dial", "challenge", "add"}]
  /\ fresh \in [Pools -> Conns \cup {None}]
  /\ home \in [Conns -> Pools \cup {None}]
  /\ pc \in [Conns -> {"off", "run", "remember", "forget"}]
  /\ left \in [Conns -> SUBSET ConnIDs]
  /\ doomed \in [Conns -> ConnIDs \cup {None}]
  /\ tracked \in [Conns -> ConnIDs \cup {None}]
  /\ reading \in [Conns -> ConnIDs \cup {None}]
  /\ index \in [ConnIDs -> Pools \cup {None}]
  /\ sender \in ConnIDs \cup {None}

\* PoolWithinCount is not inductive: the goroutine that refills a pool checked that
\* it had room before it dialled, ...
RoomToRefill == \A p \in Pools : refill[p] # "off" => Len(pool[p]) < connCount[p]

\* ... and what it is about to add is in no pool and added by nobody else.
FreshIsApart ==
  \A p \in Pools :
    /\ refill[p] \in {"challenge", "add"} => fresh[p] # None
    /\ fresh[p] # None =>
         \A q \in Pools : fresh[p] \notin ToSet(pool[q]) /\ (q # p => fresh[q] # fresh[p])

\* SkippedIsIndexed is not inductive: RememberConnID stores a pool only because the
\* connection has one for as long as its read loop runs, and forgetPool bumps the
\* generation after every entry it deletes.
HomeIsKnown ==
  \A c \in Conns :
    /\ pc[c] # "off" => home[c] # None
    /\ pc[c] = "remember" => reading[c] # None
    /\ doomed[c] # None => pc[c] = "forget"

PoolInv == RoomToRefill /\ FreshIsApart /\ PoolWithinCount
IndexInv == HomeIsKnown /\ SkippedIsIndexed
ForwardInv == ForwardTyped /\ PoolInv /\ IndexInv

\* Nothing is connected at first.
LEMMA ForwardInit == Init => ForwardInv
<1> SUFFICES ASSUME Init PROVE ForwardInv
  OBVIOUS
<1>1. connCount \in [Pools -> Nat]
  BY PoolsAssumption DEF Init
<1>2. ForwardTyped
  BY <1>1 DEF Init, ForwardTyped
<1>3. PoolInv
  BY <1>1 DEF Init, PoolInv, RoomToRefill, FreshIsApart, PoolWithinCount, ToSet,
           IsInjective
<1>4. IndexInv
  BY DEF Init, IndexInv, HomeIsKnown, SkippedIsIndexed
<1>5. QED
  BY <1>2, <1>3, <1>4 DEF ForwardInv

\* The index part only depends on these variables.
LEMMA IndexUnchanged ==
  ASSUME IndexInv, UNCHANGED <<home, pc, reading, doomed, tracked, index, senderAt>>
  PROVE  IndexInv'
  BY DEF IndexInv, HomeIsKnown, SkippedIsIndexed, BumpPending

\* The pool part only depends on these.
LEMMA PoolUnchanged ==
  ASSUME PoolInv, UNCHANGED <<connCount, pool, refill, fresh>>
  PROVE  PoolInv'
  BY DEF PoolInv, RoomToRefill, FreshIsApart, PoolWithinCount

\* Removing a connection, once or twice, from its own pool disturbs no other
\* (RemoveConnection).
LEMMA RemovalKeepsPools ==
  ASSUME ForwardTyped, PoolInv, NEW c \in Conns,
         pool' = [pool EXCEPT ![home[c]] = Without(c)],
         UNCHANGED <<connCount, refill, fresh>>
  PROVE  pool' \in [Pools -> Seq(Conns)] /\ PoolInv'
<1> USE DEF PoolInv
<1>1. ASSUME NEW p \in Pools
      PROVE  /\ pool'[p] \in Seq(Conns) /\ Len(pool'[p]) <= Len(pool[p])
             /\ IsInjective(pool'[p]) /\ ToSet(pool'[p]) \subseteq ToSet(pool[p])
  <2>1. pool[p] \in Seq(Conns) /\ IsInjective(pool[p])
    BY DEF ForwardTyped, PoolWithinCount
  <2>2. CASE p # home[c]
    BY <2>1, <2>2 DEF ForwardTyped
  <2>3. CASE p = home[c]
    <3>1. pool'[p] = RemoveFirst(pool[p], c)
      BY <2>3 DEF ForwardTyped, Without
    <3>2. QED
      BY <2>1, <3>1, RemoveFirstKeeps
  <2>4. QED
    BY <2>2, <2>3
<1>2. pool' \in [Pools -> Seq(Conns)]
  BY <1>1 DEF ForwardTyped
<1>3. ASSUME NEW p \in Pools
      PROVE  Len(pool'[p]) \in Nat /\ Len(pool[p]) \in Nat /\ connCount[p] \in Nat
  BY <1>2 DEF ForwardTyped
<1>4. RoomToRefill'
  BY <1>1, <1>3 DEF RoomToRefill
<1>5. FreshIsApart'
  BY <1>1 DEF FreshIsApart
<1>6. PoolWithinCount'
  <2>1. ASSUME NEW p \in Pools
        PROVE  Len(pool'[p]) <= connCount'[p]
    BY <1>1, <1>3 DEF PoolWithinCount
  <2>2. ASSUME NEW p \in Pools, NEW q \in Pools \ {p}
        PROVE  ToSet(pool'[p]) \cap ToSet(pool'[q]) = {}
    BY <1>1 DEF PoolWithinCount
  <2>3. QED
    BY <1>1, <2>1, <2>2 DEF PoolWithinCount
<1>7. QED
  BY <1>2, <1>4, <1>5, <1>6
-----------------------------------------------------------------------------
(* One lemma per goroutine.                                                *)

\* ensurePoolConnections adds what it dialled to a pool that had room for it.
LEMMA RefillSteps ==
  ASSUME ForwardInv, NEW p \in Pools, PoolNext(p)
  PROVE  ForwardInv'
<1> USE DEF ForwardInv
<1>1. CASE CheckTick(p)
  <2>1. ForwardTyped'
    BY <1>1 DEF CheckTick, ForwardTyped, conn, reader, sending, life
  <2>2. RoomToRefill'
    BY <1>1 DEF CheckTick, ForwardTyped, PoolInv, RoomToRefill, Full, life
  <2>3. FreshIsApart' /\ PoolWithinCount'
    BY <1>1 DEF CheckTick, ForwardTyped, PoolInv, FreshIsApart, PoolWithinCount, life
  <2>4. IndexInv'
    BY <1>1, IndexUnchanged DEF CheckTick, conn, reader, sending
  <2>5. QED
    BY <2>1, <2>2, <2>3, <2>4 DEF PoolInv
<1>2. CASE DialFails(p)
  <2>1. ForwardTyped'
    BY <1>2 DEF DialFails, ForwardTyped, conn, reader, sending, life
  <2>2. PoolInv'
    BY <1>2 DEF DialFails, ForwardTyped, PoolInv, RoomToRefill, FreshIsApart,
      PoolWithinCount, life
  <2>3. IndexInv'
    BY <1>2, IndexUnchanged DEF DialFails, conn, reader, sending
  <2>4. QED
    BY <2>1, <2>2, <2>3
<1>3. ASSUME NEW c \in Conns, DialSucceeds(p, c)
      PROVE  ForwardInv'
  <2>1. c # None /\ p # None
    BY PoolsAssumption
  <2>2. ForwardTyped'
    BY <1>3 DEF sending, DialSucceeds, Go, ForwardTyped, life
  <2>3. RoomToRefill' /\ PoolWithinCount'
    BY <1>3 DEF DialSucceeds, ForwardTyped, PoolInv, RoomToRefill, PoolWithinCount, life
  <2>4. FreshIsApart'
    BY <1>3, <2>1 DEF DialSucceeds, Unused, ForwardTyped, PoolInv, FreshIsApart
  <2>5. HomeIsKnown'
    BY <1>3, <2>1 DEF sending, DialSucceeds, Go, Unused, ForwardTyped, IndexInv, HomeIsKnown
  <2>6. SkippedIsIndexed'
    BY <1>3 DEF sending, DialSucceeds, Go, Unused, ForwardTyped, IndexInv,
             SkippedIsIndexed, BumpPending
  <2>7. QED
    BY <2>2, <2>3, <2>4, <2>5, <2>6 DEF PoolInv, IndexInv
<1>4. CASE SendChallenge(p)
  <2>1. ForwardTyped'
    BY <1>4 DEF SendChallenge, ForwardTyped, conn, reader, sending, life
  <2>2. RoomToRefill' /\ PoolWithinCount'
    BY <1>4 DEF SendChallenge, ForwardTyped, PoolInv, RoomToRefill, PoolWithinCount,
             life
  <2>3. FreshIsApart'
    BY <1>4 DEF SendChallenge, ForwardTyped, PoolInv, FreshIsApart
  <2>4. IndexInv'
    BY <1>4, IndexUnchanged DEF SendChallenge, conn, reader, sending
  <2>5. QED
    BY <2>1, <2>2, <2>3, <2>4 DEF PoolInv
<1>5. CASE AddConnection(p)
  <2>1. /\ pool[p] \in Seq(Conns) /\ IsInjective(pool[p])
        /\ fresh[p] \in Conns \ ToSet(pool[p])
    BY <1>5 DEF AddConnection, ForwardTyped, PoolInv, FreshIsApart, PoolWithinCount
  <2>2. /\ pool'[p] \in Seq(Conns) /\ Len(pool'[p]) = Len(pool[p]) + 1
        /\ IsInjective(pool'[p]) /\ ToSet(pool'[p]) = ToSet(pool[p]) \cup {fresh[p]}
    <3>1. pool'[p] = Append(pool[p], fresh[p])
      BY <1>5 DEF AddConnection, ForwardTyped
    <3>2. QED
      BY <2>1, <3>1, AppendKeeps
  <2>3. \A q \in Pools \ {p} : pool'[q] = pool[q]
    BY <1>5 DEF AddConnection, ForwardTyped
  <2>4. ForwardTyped'
    BY <1>5, <2>2 DEF AddConnection, ForwardTyped, conn, reader, sending, life
  <2>5. Len(pool[p]) \in Nat /\ Len(pool[p]) < connCount[p] /\ connCount[p] \in Nat
    BY <1>5, <2>1 DEF AddConnection, PoolInv, RoomToRefill, ForwardTyped
  <2>6. RoomToRefill'
    BY <1>5, <2>2, <2>3, <2>5 DEF AddConnection, ForwardTyped, PoolInv, RoomToRefill,
             Full, life
  <2>7. FreshIsApart'
    BY <1>5, <2>2, <2>3 DEF AddConnection, ForwardTyped, PoolInv, FreshIsApart
  <2>8. PoolWithinCount'
    <3>1. ASSUME NEW q \in Pools
          PROVE  Len(pool'[q]) <= connCount'[q] /\ IsInjective(pool'[q])
      BY <1>5, <2>2, <2>3, <2>5 DEF AddConnection, PoolInv, PoolWithinCount, life
    <3>2. \A q \in Pools : fresh[p] \notin ToSet(pool[q])
      BY <1>5 DEF AddConnection, PoolInv, FreshIsApart
    <3>3. ASSUME NEW q \in Pools, NEW r \in Pools \ {q}
          PROVE  ToSet(pool'[q]) \cap ToSet(pool'[r]) = {}
      <4>1. ToSet(pool[q]) \cap ToSet(pool[r]) = {}
        BY DEF PoolInv, PoolWithinCount
      <4>2. QED
        BY <2>2, <2>3, <3>2, <4>1
    <3>4. QED
      BY <3>1, <3>3 DEF PoolWithinCount
  <2>9. IndexInv'
    BY <1>5, IndexUnchanged DEF AddConnection, conn, reader, sending
  <2>10. QED
    BY <2>4, <2>6, <2>7, <2>8, <2>9 DEF PoolInv
<1>6. QED
  BY <1>1, <1>2, <1>3, <1>4, <1>5 DEF PoolNext

\* A read loop: it stores its pool for an ID before it tracks the ID, and a new
\* generation follows whatever it forgets.
LEMMA ReadLoopSteps ==
  ASSUME ForwardInv, NEW c \in Conns, ConnNext(c)
  PROVE  ForwardInv'
<1> USE DEF ForwardInv
<1>1. CASE Authenticate(c)
  BY <1>1, IndexUnchanged, PoolUnchanged DEF sending, Authenticate, ForwardTyped, filler,
           reader, life
<1>2. ASSUME NEW x \in ConnIDs, ReadData(c, x)
      PROVE  ForwardInv'
  <2>1. x # None
    BY PoolsAssumption
  <2>2. ForwardTyped' /\ PoolInv'
    BY <1>2, PoolUnchanged DEF sending, ReadData, Go, ForwardTyped, filler, conn, life
  <2>3. HomeIsKnown'
    BY <1>2, <2>1 DEF ReadData, Go, conn, ForwardTyped, IndexInv, HomeIsKnown
  <2>4. SkippedIsIndexed'
    BY <1>2 DEF sending, ReadData, Go, ForwardTyped, IndexInv, SkippedIsIndexed, BumpPending
  <2>5. QED
    BY <2>2, <2>3, <2>4 DEF IndexInv
<1>3. CASE RememberConnID(c)
  <2>1. home[c] # None /\ reading[c] \in ConnIDs /\ home[c] \in Pools
    BY <1>3 DEF RememberConnID, IndexInv, HomeIsKnown, ForwardTyped
  <2>2. ForwardTyped' /\ PoolInv'
    BY <1>3, <2>1, PoolUnchanged DEF sending, RememberConnID, Go, ForwardTyped, filler, conn,
             life
  <2>3. HomeIsKnown'
    BY <1>3 DEF RememberConnID, Go, conn, ForwardTyped, IndexInv, HomeIsKnown
  <2>4. index'[reading[c]] = home[c] /\ \A x \in ConnIDs : index[x] # None => index'[x] # None
    BY <1>3, <2>1 DEF RememberConnID, ForwardTyped
  <2>5. BumpPending => BumpPending'
    BY <1>3 DEF sending, RememberConnID, Go, ForwardTyped, BumpPending
  <2>6. SkippedIsIndexed'
    BY <1>3, <2>1, <2>4, <2>5 DEF RememberConnID, ForwardTyped, IndexInv,
             SkippedIsIndexed
  <2>7. QED
    BY <2>2, <2>3, <2>6 DEF IndexInv
<1>4. CASE ReadEnds(c)
  <2>1. pool' \in [Pools -> Seq(Conns)] /\ PoolInv'
    BY <1>4, RemovalKeepsPools DEF ReadEnds, filler, life
  <2>2. ForwardTyped'
    BY <1>4, <2>1 DEF sending, ReadEnds, Go, Close, ForwardTyped, filler, conn, life
  <2>3. HomeIsKnown'
    BY <1>4 DEF ReadEnds, Go, Close, conn, ForwardTyped, IndexInv, HomeIsKnown
  <2>4. BumpPending => BumpPending'
    BY <1>4 DEF sending, ReadEnds, Go, ForwardTyped, BumpPending
  <2>5. SkippedIsIndexed'
    BY <1>4, <2>4 DEF ReadEnds, ForwardTyped, IndexInv, SkippedIsIndexed
  <2>6. QED
    BY <2>1, <2>2, <2>3, <2>5 DEF IndexInv
<1>5. CASE GiveUp(c)
  <2>1. pool' \in [Pools -> Seq(Conns)] /\ PoolInv'
    BY <1>5, RemovalKeepsPools DEF GiveUp, filler, life
  <2>2. ForwardTyped'
    BY <1>5, <2>1 DEF sending, GiveUp, NewGeneration, ForwardTyped, filler, life
  <2>3. HomeIsKnown'
    BY <1>5 DEF GiveUp, IndexInv, HomeIsKnown
  <2>4. SkippedIsIndexed'
    BY <1>5 DEF sending, GiveUp, NewGeneration, ForwardTyped, IndexInv,
             SkippedIsIndexed, BumpPending
  <2>5. QED
    BY <2>1, <2>2, <2>3, <2>4 DEF IndexInv
<1>6. CASE ForgetPool(c)
  <2>1. PICK x \in left[c] :
          doomed' = [doomed EXCEPT ![c] = IF index[x] = home[c] THEN x ELSE None]
    BY <1>6 DEF ForgetPool
  <2>2. x \in ConnIDs /\ left' \in [Conns -> SUBSET ConnIDs]
    BY <1>6, <2>1 DEF ForgetPool, ForwardTyped
  <2>3. ForwardTyped' /\ PoolInv'
    BY <1>6, <2>1, <2>2, PoolUnchanged
    DEF ForgetPool, ForwardTyped, filler, conn, sending, life
  <2>4. HomeIsKnown' /\ BumpPending'
    BY <1>6, <2>1 DEF ForgetPool, conn, sending, ForwardTyped, IndexInv, HomeIsKnown,
             BumpPending
  <2>5. QED
    BY <2>3, <2>4 DEF IndexInv, SkippedIsIndexed
<1>7. CASE DeleteEntry(c)
  <2>1. doomed[c] \in ConnIDs /\ pc[c] = "forget"
    BY <1>7 DEF DeleteEntry, ForwardTyped, IndexInv, HomeIsKnown
  <2>2. ForwardTyped' /\ PoolInv'
    BY <1>7, <2>1, PoolUnchanged
    DEF DeleteEntry, ForwardTyped, filler, conn, sending, life
  <2>3. HomeIsKnown' /\ BumpPending'
    BY <1>7, <2>1 DEF DeleteEntry, conn, sending, ForwardTyped, IndexInv, HomeIsKnown,
             BumpPending
  <2>4. QED
    BY <2>2, <2>3 DEF IndexInv, SkippedIsIndexed
<1>8. CASE BumpGeneration(c)
  <2>1. ForwardTyped' /\ PoolInv'
    BY <1>8, PoolUnchanged
    DEF sending, BumpGeneration, NewGeneration, Go, Close, ForwardTyped, filler, life
  <2>2. HomeIsKnown'
    BY <1>8 DEF BumpGeneration, Go, Close, ForwardTyped, IndexInv, HomeIsKnown
  <2>3. SkippedIsIndexed'
    BY <1>8 DEF BumpGeneration, NewGeneration, SkippedIsIndexed
  <2>4. QED
    BY <2>1, <2>2, <2>3 DEF IndexInv
<1>9. QED
  BY <1>1, <1>2, <1>3, <1>4, <1>5, <1>6, <1>7, <1>8 DEF ConnNext

\* HandlePacket and Stop: an entry that HandlePacket deletes is followed by a new
\* generation.
LEMMA SenderSteps ==
  ASSUME ForwardInv, SenderNext \/ Stop
  PROVE  ForwardInv'
<1> USE DEF ForwardInv
<1>1. ASSUME NEW x \in ConnIDs, HandlePacket(x)
      PROVE  ForwardInv'
  <2>1. x # None
    BY PoolsAssumption
  <2>2. ForwardTyped' /\ PoolInv'
    BY <1>1, PoolUnchanged DEF HandlePacket, ForwardTyped, filler, conn, reader, life
  <2>3. HomeIsKnown' /\ SkippedIsIndexed'
    BY <1>1 DEF HandlePacket, conn, reader, IndexInv, HomeIsKnown, SkippedIsIndexed,
             BumpPending
  <2>4. QED
    BY <2>2, <2>3 DEF IndexInv
<1>2. ASSUME NEW x \in ConnIDs, NEW p \in Pools, PickPool(x, p)
      PROVE  ForwardInv'
  <2>1. p # None
    BY PoolsAssumption
  <2>2. ForwardTyped' /\ PoolInv'
    BY <1>2, PoolUnchanged DEF sending, PickPool, ForwardTyped, filler, conn, reader, life
  <2>3. HomeIsKnown'
    BY <1>2 DEF PickPool, conn, reader, IndexInv, HomeIsKnown
  <2>4. SkippedIsIndexed'
    BY <1>2, <2>1
    DEF PickPool, reader, ForwardTyped, IndexInv, SkippedIsIndexed, BumpPending
  <2>5. QED
    BY <2>2, <2>3, <2>4 DEF IndexInv
<1>3. CASE SenderBumps
  <2>1. ForwardTyped' /\ PoolInv'
    BY <1>3, PoolUnchanged DEF SenderBumps, NewGeneration, ForwardTyped, filler, conn,
             life
  <2>2. HomeIsKnown'
    BY <1>3 DEF SenderBumps, conn, IndexInv, HomeIsKnown
  <2>3. SkippedIsIndexed'
    BY <1>3 DEF SenderBumps, NewGeneration, SkippedIsIndexed
  <2>4. QED
    BY <2>1, <2>2, <2>3 DEF IndexInv
<1>4. CASE SenderCounts
  <2>1. ForwardTyped' /\ PoolInv'
    BY <1>4, PoolUnchanged DEF SenderCounts, ForwardTyped, filler, conn, reader, life
  <2>2. HomeIsKnown' /\ SkippedIsIndexed'
    BY <1>4 DEF SenderCounts, conn, reader, IndexInv, HomeIsKnown, SkippedIsIndexed,
             BumpPending
  <2>3. QED
    BY <2>1, <2>2 DEF IndexInv
<1>5. CASE SenderDeletes
  <2>1. ForwardTyped' /\ PoolInv'
    BY <1>5, PoolUnchanged DEF SenderDeletes, ForwardTyped, filler, conn, reader, life
  <2>2. HomeIsKnown' /\ BumpPending'
    BY <1>5 DEF SenderDeletes, conn, reader, IndexInv, HomeIsKnown, BumpPending
  <2>3. QED
    BY <2>1, <2>2 DEF IndexInv, SkippedIsIndexed
<1>6. CASE Stop
  BY <1>6, IndexUnchanged, PoolUnchanged
  DEF Stop, ForwardTyped, filler, reader, sending
<1>7. QED
  BY <1>1, <1>2, <1>3, <1>4, <1>5, <1>6 DEF SenderNext

\* The invariant is inductive.
LEMMA ForwardInductive == ForwardInv /\ [Next]_vars => ForwardInv'
<1> SUFFICES ASSUME ForwardInv, [Next]_vars PROVE ForwardInv'
  OBVIOUS
<1>1. CASE Next
  BY <1>1, RefillSteps, ReadLoopSteps, SenderSteps DEF Next
<1>2. CASE UNCHANGED vars
  BY <1>2, IndexUnchanged, PoolUnchanged
  DEF vars, filler, conn, reader, sending, life, ForwardInv, ForwardTyped
<1>3. QED
  BY <1>1, <1>2
-----------------------------------------------------------------------------
(* The choice of a connection.                                             *)

\* Some connection of a pool that has one for ordinary packets has the least
\* backlog, and the first of these is one of them.
LEMMA BestIsLeast ==
  ASSUME NEW p \in Pools, pool[p] \in Seq(Conns), NEW b \in Backlogs(p),
         NEW cs, cs # {}, cs \subseteq ToSet(pool[p])
  PROVE  LET least == {c \in cs : \A d \in cs : b[c] <= b[d]}
             best == pool[p][Min({i \in DOMAIN pool[p] : pool[p][i] \in least})]
         IN best \in cs /\ b[best] \in Nat /\ \A d \in cs : b[best] <= b[d]
<1> DEFINE least == {c \in cs : \A d \in cs : b[c] <= b[d]}
           I == {i \in DOMAIN pool[p] : pool[p][i] \in least}
<1>1. SwitchBacklog \in Nat
  BY PoolsAssumption
<1>2. \A c \in cs : b[c] \in {0, SwitchBacklog, SwitchBacklog + 1}
  BY DEF Backlogs
<1>3. least # {}
  <2>1. CASE \E c \in cs : b[c] = 0
    BY <1>1, <1>2, <2>1
  <2>2. CASE (\A c \in cs : b[c] # 0) /\ (\E c \in cs : b[c] = SwitchBacklog)
    BY <1>1, <1>2, <2>2
  <2>3. CASE \A c \in cs : b[c] = SwitchBacklog + 1
    BY <1>1, <2>3
  <2>4. QED
    BY <1>2, <2>1, <2>2, <2>3
<1>4. I \in SUBSET Nat /\ I # {}
  BY <1>3 DEF ToSet
<1>5. Min(I) \in I
  <2> HIDE DEF I
  <2>1. QED
    BY <1>4, LeastNatural
<1>6. pool[p][Min(I)] \in least
  BY <1>5
<1> DEFINE best == pool[p][Min(I)]
<1>7. best \in cs /\ \A d \in cs : b[best] <= b[d]
  <2> HIDE DEF I
  <2>1. QED
    BY <1>6
<1>8. b[best] \in Nat
  <2> HIDE DEF best
  <2>1. QED
    BY <1>1, <1>2, <1>7
<1>9. QED
  BY <1>7, <1>8, Zenon

\* PickConn is right in every pool that holds each connection once.
LEMMA PickFromPool ==
  ASSUME NEW p \in Pools, pool[p] \in Seq(Conns), pool[p] # <<>>, IsInjective(pool[p]),
         NEW b \in Backlogs(p), NEW current \in Conns \cup {None},
         NEW small \in BOOLEAN, NEW priorityConn \in BOOLEAN
  PROVE  LET c == PickConn(p, current, b, small, priorityConn)
             cs == Ordinary(p, priorityConn)
             isReserved == Reserved(p, priorityConn) /\ c = Head(pool[p])
         IN /\ GetNextConn(p) # {} => Usable(c) /\ c \in ToSet(pool[p])
            /\ isReserved => small \/ cs = {}
            /\ c # None /\ ~isReserved => \A d \in cs : b[c] <= b[d] + SwitchBacklog
<1> DEFINE c == PickConn(p, current, b, small, priorityConn)
           cs == Ordinary(p, priorityConn)
           reserved == Reserved(p, priorityConn) /\ Usable(Head(pool[p]))
           least == {k \in cs : \A d \in cs : b[k] <= b[d]}
           best == pool[p][Min({i \in DOMAIN pool[p] : pool[p][i] \in least})]
<1>1. c = IF reserved /\ (small \/ cs = {}) THEN Head(pool[p])
          ELSE IF cs = {} THEN None
          ELSE IF current \in cs /\ b[current] <= b[best] + SwitchBacklog THEN current
          ELSE best
  BY DEF PickConn
<1>2. SwitchBacklog \in Nat /\ None \notin Conns
  BY PoolsAssumption
<1>3. /\ pool[p][1] = Head(pool[p]) /\ 1 \in DOMAIN pool[p]
      /\ Head(pool[p]) \in ToSet(pool[p]) /\ ToSet(pool[p]) \subseteq Conns
  BY DEF ToSet
<1>4. ASSUME NEW d \in ToSet(Tail(pool[p]))
      PROVE  d \in ToSet(pool[p]) /\ d # Head(pool[p])
  <2>1. PICK i \in DOMAIN Tail(pool[p]) : d = Tail(pool[p])[i]
    BY DEF ToSet
  <2>2. i \in 1 .. Len(pool[p]) - 1 /\ d = pool[p][i + 1]
    BY <2>1
  <2>3. i + 1 \in DOMAIN pool[p] /\ i + 1 # 1
    BY <2>2
  <2>4. QED
    BY <1>3, <2>2, <2>3 DEF ToSet, IsInjective
<1>5. ASSUME NEW d \in ToSet(pool[p]), d # Head(pool[p])
      PROVE  d \in ToSet(Tail(pool[p]))
  <2>1. PICK i \in DOMAIN pool[p] : d = pool[p][i] /\ i # 1
    BY <1>3, <1>5 DEF ToSet
  <2>2. i - 1 \in DOMAIN Tail(pool[p]) /\ Tail(pool[p])[i - 1] = d
    BY <2>1
  <2>3. QED
    BY <2>2 DEF ToSet
<1>6. cs \subseteq {d \in ToSet(pool[p]) : Usable(d)}
  BY <1>4 DEF Ordinary
<1>7. Reserved(p, priorityConn) => Head(pool[p]) \notin cs
  BY <1>4 DEF Ordinary
<1>8. GetNextConn(p) # {} => reserved \/ cs # {}
  <2> SUFFICES ASSUME NEW d \in ToSet(pool[p]), Usable(d), ~reserved
               PROVE  d \in cs
    BY DEF GetNextConn
  <2>1. CASE Reserved(p, priorityConn)
    BY <1>5, <2>1 DEF Ordinary
  <2>2. CASE ~Reserved(p, priorityConn)
    BY <2>2 DEF Ordinary
  <2>3. QED
    BY <2>1, <2>2
<1>9. cs # {} => best \in cs /\ b[best] \in Nat /\ \A d \in cs : b[best] <= b[d]
  <2>1. cs \subseteq ToSet(pool[p])
    BY <1>6
  <2> HIDE DEF cs
  <2>2. QED
    BY <2>1, BestIsLeast
<1>10. \A d \in cs : b[d] \in Nat
  BY <1>2, <1>6 DEF Backlogs
<1> HIDE DEF c, cs, best, reserved
<1>11. c \in cs \cup {Head(pool[p]), None}
  BY <1>1, <1>9
<1>12. GetNextConn(p) # {} => Usable(c) /\ c \in ToSet(pool[p])
  BY <1>1, <1>3, <1>6, <1>8, <1>9 DEF reserved
<1>13. Reserved(p, priorityConn) /\ c = Head(pool[p]) => small \/ cs = {}
  BY <1>1, <1>7, <1>9
<1>14. ASSUME c # None, ~(Reserved(p, priorityConn) /\ c = Head(pool[p])), NEW d \in cs
       PROVE  b[c] <= b[d] + SwitchBacklog
  <2>1. CASE c = current /\ b[current] <= b[best] + SwitchBacklog /\ current \in cs
    BY <1>2, <1>9, <1>10, <2>1
  <2>2. CASE c = best
    BY <1>2, <1>9, <1>10, <2>2
  <2>3. QED
    BY <1>1, <1>14, <2>1, <2>2 DEF reserved
<1>15. QED
  BY <1>12, <1>13, <1>14 DEF c, cs

-----------------------------------------------------------------------------

\* A pool never holds more connections than configured, each once and in no other
\* pool, however connections fail, are refilled and are removed twice
\* (ensurePoolConnections, AddConnection, RemoveConnection).
THEOREM PoolsAreBounded == Spec => []PoolWithinCount
<1>1. ForwardInv => PoolWithinCount
  BY DEF ForwardInv, PoolInv
<1>2. QED
  BY <1>1, ForwardInit, ForwardInductive, PTL DEF Spec

\* A read loop that skips RememberConnID skips it rightly: the ID is in the index, or
\* whoever deleted it has yet to bump the generation (readLoop, forgetPool,
\* getPoolByID).
THEOREM TrackedIsIndexed == Spec => []SkippedIsIndexed
<1>1. ForwardInv => SkippedIsIndexed
  BY DEF ForwardInv, IndexInv
<1>2. QED
  BY <1>1, ForwardInit, ForwardInductive, PTL DEF Spec

\* PickConn finds a usable connection if there is one, keeps the reserved one for
\* small packets and is never more than SwitchBacklog worse than the best, in every
\* reachable pool of any size (PickConn, GetNextConn).
THEOREM PickConnIsRight == Spec => []PickIsRight
<1>1. ForwardInv => PickIsRight
  <2> SUFFICES ASSUME ForwardInv PROVE PickIsRight
    OBVIOUS
  <2>1. \A p \in Pools : pool[p] \in Seq(Conns) /\ IsInjective(pool[p])
    BY DEF ForwardInv, ForwardTyped, PoolInv, PoolWithinCount
  <2>2. QED
    BY <2>1, PickFromPool DEF PickIsRight
<1>2. QED
  BY <1>1, ForwardInit, ForwardInductive, PTL DEF Spec
=============================================================================
