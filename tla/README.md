# UDPlex: TLA+ models, checks and proofs

UDPlex (Go, `src/src/*.go`) multiplexes UDP and TCP traffic over several lines. A
configuration names components; each sends packets to the components its `detour` lists.
This directory models the parts of it whose correctness depends on the order of events:
the TCP stream transport, both sides of the TCP tunnel, both sides of the UDP tunnel,
deduplication, the shaper with its rate control, and the load balancer.

## 1. Inventory

Paths are relative to `src/src/`. "Interacts" lists calls, queues and shared state.

| Component | State | Operations | Interacts | What is hard | What makes it correct |
|---|---|---|---|---|---|
| **TCP streams** `tcp_stream.go` | global map `tcpStreams`; per stream send side, receive side, two timers, two loops | `open`, `handlePacket`, `handleFrame`, `dial`, `readLoop`, `writeLoop`, `onTimer`, `onAckTimer`, `checkOpened`, `abortLocked`, `maybeFinishLocked`, `endLocked`, `stop` | frames through `Router.Route`; local TCP connection; runtime timers | frames lost, duplicated, reordered; late timer callbacks; closed windows; aborts under I/O; streams forgotten and created again | data once and in order; windows respected; no lost wake-up; an EOF only for a complete stream; a close that both ends finish |
| **TCP tunnel queue and connection** `tcp_tunnel_queue.go`, `tcp_tunnel.go` | four lanes, byte count, credit, `ready` channel; write batch; `closed` channel | `push`, `pop`, `close`, `enqueue`, `writeLoop`, `Close`, `readLoop`; the pool's `AddConnection`, `RemoveConnection`, `GetNextConn`, `PickConn` | packet references; socket; component's stop channel; `Disconnect` | producers racing pop and Close; overflow; partial writes; pool replaced under readers | references released exactly once; limit; no starvation; no lost wake-up; removed connections stay removed |
| **TCP tunnel forward** `tcp_tunnel_forward.go` | pools by target; index from connection id to pool, with a generation | `ensurePoolConnections`, `connectionChecker`, `sendHeartbeat`, `Disconnect`, `HandlePacket`, `Stop` | pools, queue, heartbeats, authentication | loops start before the connection is in its pool; reconnection and stop | pools never exceed their size and an empty one is refilled; everything is closed after Stop |
| **TCP tunnel listen** `tcp_tunnel_listen.go` | copy-on-write map forward id -> pool id -> pool | `HandleAuthenticatedConnection`, `Disconnect`, `HandlePacket`, `Stop` | pools, authentication | the map is loaded, cloned and stored without compare-and-swap | replies to an ID stay with the client that uses it, whichever update is lost; that no connection is lost from the map is false (finding 3) |
| **Authentication, deduplication** `auth_protocol.go` | nonce counter, per-frame-id bitmaps, used challenges | `WrapData`, `UnwrapData`, `CreateAuthChallenge`, `ProcessAuthChallenge`, clean-up | every authenticated component; several read loops share it | check and mark are two critical sections; roll-over at the bitmap's end; clean-up by age | a frame is accepted at most once by a single reader; a reflected one never |
| **UDP forward** `forward.go` | one connection per target, send queue, `closeCh`, authentication and heartbeat state | send loop, `tryReconnect`, `sendAuthChallenge`, `handleAuthMessage`, `sendHeartbeat` | authentication, shaper, heartbeat tracker | `closeCh` replaced while a loop uses it; repeated or late answers | a connection that takes packets has a send loop; a line recovers; references released once |
| **UDP listen** `listen.go` | mappings by address and by connection id, send loops | `handleIncoming`, `handleAuthMessage`, clean-up, `HandlePacket` | authentication, shaper | a mapping is replaced or cleaned up while its loop sends | replies reach the peer's current mapping |
| **Heartbeats** `heartbeat_tracker.go` | pending flag, loss counters | sent, answered, lost, reset | forward, tunnel | loss and answer race | a connection is given up only after a silence |
| **Load balancer** `load_balancer.go` | traffic windows, rule cache | sample, evaluate, choose | router | counters swapped while packets are counted; cached rules; batches | the window is exact |
| **Shaper, CoDel, rate control** `shaper.go`, `codel.go`, `autorate.go` | lanes, token buckets, CoDel state, delay baselines | enqueue, dequeue, drop decision, samples | forward and listen send loops | numeric edges, standing queues | rate and fairness bounds |
| **Router, packets** `router.go`, `packet.go` | component registry, buffer pool, reference counts | `Route`, `GetPacket`, `AddRef`, `Release` | all components | ownership across queues | each buffer returns to the pool once |
| **tcp_listen, tcp_forward** `tcp_listen.go`, `tcp_forward.go` | listener, relays | accept, relay, stop | streams | stop during accept | connections closed on stop |
| **Filter, protocol detector**, **IP router** `filter.go`, `protocol_detector.go`, `ip_router.go` | signatures; GeoIP database | match | router | database swapped while it is used | a packet goes to the first match |
| **WireGuard, OpenVPN** `wireguard.go`, `openvpn.go` | library sessions, outbound queues | open, close, send | router | queue and close | packets released on close |
| **UDP batching, interface binding, TUN, socket options, HTTP API, configuration, logging** | system resources, counters | I/O | - | - | - |

`PROJECT.json` lists the hazards line by line, each with the properties that would catch
it or the reason why none does.

## 2. Modules

| Module | Content |
|---|---|
| `TcpStream` | both ends of one stream and the lines between them |
| `TcpStreamProofs` | type correctness and absence of lost wake-ups, for all parameters |
| `TcpStreamDataProofs` | data in order and once, acknowledgements, windows, complete EOFs and ends, for all parameters |
| `TcpTunnelConn` | send queue, producers, writeLoop and Close of one tunnel connection |
| `TcpTunnelConnProofs` | types, wake-ups, references, byte count, limit and no-drop packets of the send queue, for all packets and settings |
| `TcpTunnelForward` | client side of the tunnel: pools, refilling, connection index, choice of a connection, Stop |
| `TcpTunnelForwardProofs` | the bounds of pools, the index and the choice of a connection, for any pools and connections |
| `TcpTunnelListen` | server side: the map of pools, connection index, Disconnect |
| `TcpTunnelHeartbeat` | heartbeats of one tunnel connection, both ends |
| `AuthDedup`, `Delivery` | nonces and deduplication; the at-most-once promise they implement |
| `AuthDedupProofs` | that they do, and that reflected messages are dropped, for all parameters |
| `UdpLine` | one UDP line: handshake, heartbeats, reconnection, mappings, over an unreliable network |
| `UdpForwardConn` | queues, send loops, close channels, reconnection and Stop of one UDP forward connection |
| `UdpListenSend` | queue, send loop and per-client shapers of the UDP listener |
| `UdpParts` | the three UDP modules side by side, for any sizes |
| `UdpProofs` | agreement of both ends of a line, references of packets and jobs, send loops, for any sizes and faults |
| `PathShaper` | pacing of one path and CoDel |
| `Autorate` | rate controller of one path |
| `LoadBalancer` | traffic window, rule cache, batches |
| `Components` | `TcpTunnelListen` and, side by side with it, the forward side, heartbeats, deduplication, shaper, rate and balancer, for any sizes |
| `ComponentsProofs` | replies of the listener, heartbeats, byte statistics, rate and window, for all parameters; every part's results for `Components` |
| `SumLemmas` | lemmas on minima, sequences without duplicates, and sums over finite sets and along sequences |
| `MCTcpStream`, `MCTcpTunnelConn`, `MCTcpTunnelListen` | instances of one module for TLC |
| `MCTcpTunnels`, `MCComponents`, `MCUdpParts` | several modules in one run (see section 3) |

Definitions keep the names of the code where TLA+ allows it. A definition whose comment
begins with "Mutant" is a plausible bug, used to show that a property can fail; no
specification uses it.

The unit of a step is a critical section, or an access to shared state, of one goroutine. Where several accesses are one step the section on the
module says so; what comes between such accesses in the code is not explored.

### TcpStream and tcp_stream.go

`snd[e]`, `rcv[e]` and `ctl[e]` are the fields of `tcpStream` at end `e` (client:
`tcp_listen`, server: `tcp_forward`), with where its two loops block (`rd`, `wr`). One
action is one critical section of `tcpStream.mu` with the frames `unlockAndFlush` sends
after it. Operators on a record `[c, s, r, out]` stand for the `...Locked` functions:
they take the stream and return it, with the frames to send.

- **Frames and lines.** A frame carries sequence number, length, ACK, window and flags; its
  payload is the range of bytes of one connection, so a byte is `<<connection, index>>`.
  `net[e]` is the set of frames in flight. Delivering a frame leaves it there, so it may
  arrive again, at any time and in any order; `Leave` removes it, delivered or not. `NetCap`
  bounds copies of one segment (and of ACKs, and of RSTs) with different contents: a newer
  one replaces the older ones, as if those were lost.
- **Creation.** `handlePacket` misses in `tcpStreams` and checks `stopped` (`DeliverNew`),
  then creates the stream (`CreateStream`): other frames, `Stop` and other creators come in
  between.
- **The retransmission timer** is three bits. `timerArmed` is the code's flag, `running` the
  runtime's timer, `late` a callback that has started and waits for the lock. `Stop` and
  `Reset` of a Go timer do not stop such a callback, and `onTimer` clears `timerArmed`
  even if the timer was set again meanwhile. A late callback of the delayed-ACK timer does
  what a timely one does, so that timer is one bit.
- **Time** appears as what it causes: the timers fire at any moment; `TimePasses` says that
  more than `timeout` has passed since the last progress and the last frame, which a stream
  with a running timer reaches only at the cap of its backoff; `CheckOpened` (10 s) and
  `LingerExpire` (30 s) are the timers at the start and after the end of a stream. Frames, dials and writes do not outlive the
  linger time. Round-trip estimation only decides when timers fire and whether a fast
  retransmit is too early (`aged`, left open).
- **Left out:** log messages, the statistics, TCP options, parsing of the frame header, and
  the 64-bit wrap of sequence numbers, which no stream reaches.

### TcpTunnelConn, tcp_tunnel_queue.go and tcp_tunnel.go

A producer's `enqueue` is three steps: after the check of `closed` and `AddRef`
(`Enqueue`), the critical section of `push` (`Push`, `PushClosed`), and the token to
`ready` after the unlock (`Signal`). `pop` is one step per pass of its loop; `wr = "pop"` means that
writeLoop holds the mutex, so no push or close comes in between. `stamp` is the order of
the `enq` times (the pairs whose first packet was stamped no later), read before the lock is taken, which `pop` compares between the
reliable and the bulk lane; the order of a lane can differ from it, as in the code.
`sendPacketBatch` may write any number of bytes before a timeout; `unsent` counts the bytes of the batch that it has yet to write. `Close` is two steps, the
closed channel and socket, then the queue.

- CoDel's verdict is open: any bulk packet may be dropped if CoDel is on and
  `shaperMinStandingBytes` remain. CoDel's state machine is in `PathShaper`.
- The CoDel drop of priority packets (`tcp_tunnel_queue.go:267`) has no action: it requires
  `credit <= 0 && bulkLen > 0` inside a case entered only if `credit > 0 || bulkLen == 0`.
- Credit is an integer and `Earn` its rate per bulk byte (the code's `share/(1-share)`).
- `readLoop` appears as the caller of `Close`; what else it does is in the next modules.

### TcpTunnelForward, TcpTunnelListen and TcpTunnelHeartbeat

Connection objects are members of a finite set and are used again once nothing refers to
them. A step of a goroutine between two accesses to shared state is an action: dialling
(`DialSucceeds` starts the loops), sending the challenge, adding to the pool; reading the
generation (`ReadData`) and `RememberConnID`; for `forgetPool`, visiting an entry (`ForgetPool`), deleting it
(`DeleteEntry`) and bumping the generation (`BumpGeneration`); for `getPoolByID`, loading the entry, counting the pool's connections, deleting
the entry of an empty pool, and bumping the generation. A generation counter is the
fact that is used of it: `tracked` and `sameGen` say whether what a read loop remembers is of the current one.
`PickConn` is an operator of the pool, the current connection and any backlogs, since it changes
nothing but a hint. Merged on the forward side: a read loop that ends removes its connection and counts what is left in one step (`ReadEnds`), and a
`Disconnect` by another goroutine (a failed write, lost heartbeats) is one step (`GiveUp`).

In `TcpTunnelListen` the two loops of a connection are goroutines of their own (`Loops`). `HandleAuthenticatedConnection` loads the map, changes the
shared pool and stores its copy; `Disconnect` loads the map, removes the connection from the shared pool, counts what is left and stores its copy: each
is a step of its own, and nothing keeps two goroutines from being between them at the same time, as in the code. `Failing` are the connections whose
writeLoop may call `Disconnect` too, beside the readLoop. The properties and theorems about this module hold with lost updates; what does not is finding 3.

`TcpTunnelHeartbeat` is one authenticated connection. `sendHeartbeat` (`tick`) takes the pending flag, counts the loss and compares it with the limit,
disconnects or queues a heartbeat, and notes it as sent. The forward side's readLoop (`echo`) clears the flag, clears the losses, and acknowledges.
Any of these steps of one may come between those of the other. `silent` counts ticks since an echo was handled. The listen side's tracker is used by its
readLoop alone, so a message is one step there.

### AuthDedup and Delivery

One sender and several read loops that share a `DeduplicationManager`. `Check` is `UnwrapData`
up to `isDuplicate`, `Accept` decrypts, checks the age again and marks: two critical
sections. Every message may be delivered any number of times at any later time; clean-up of frames and the clocks
(with a skew) are actions. A frame's bitmap has `BitmapSize` bits, and a sequence number beyond it is neither
found nor marked. Only the encrypted branch is modelled; the AEAD is taken as perfect. `Delivery` says
what a user may count on: at most as many deliveries of one message as there are concurrent
readers. `ImplementsDelivery` is the refinement `AuthDedup => Delivery` (`Promise == INSTANCE Delivery WITH ...`).

### UdpLine, UdpForwardConn and UdpListenSend

`UdpLine` is one forward connection and the listener. Datagrams are a set of `[type, sock, fresh]`: a
handshake message is fresh until it was processed, and `ProcessAuthChallenge` refuses any other
(a copy, or one older than the time-out). A socket is its local address; reconnecting changes it, and
the listener keeps a mapping per address and the snapshot `served` that replies use.

- `tryReconnect` is four steps (`rc`): `SetConnected` with the new socket, the retries, the heartbeat state, and `SetAuthenticated(0)`. In
  between the line is connected with the flag of its old socket, and the checker may send heartbeats on it.
- `readFromForwarder` looks at the connection before it reads. Responses that it had read when the socket was replaced (`taken`) are handled at any later
  time, and then set or clear the flag of the new socket (`OnLateResponse`).
- The listener's handler of a challenge answers before it marks the mapping as authenticated (`at`). Each handler stores the snapshot where the code
  calls `syncMapping`: after a challenge opened a mapping, and once more after it replaced others; after data made one; in the clean-up.
- `Prompt` is an assumption on time: the statements of `tryReconnect`, and the listener's between answer and mark, take less time than two ticks of the
  checker, so that in between the forward side does not use up its retries.
- `MaxFaults` bounds socket errors, restarts of the listener, expired mappings of the current socket, and reconnects after which datagrams
  of the old socket linger, together. One datagram of a kind is on its way from or to a socket, and a newer one takes its place. Copies of heartbeats
  and late heartbeats of an abandoned socket are left out: they only change when a mapping expires, which `Expire` leaves open.
- Merged: the checker's test with the goroutine it starts; `sendHeartbeat`; `sendAuthChallenge`; what `tryReconnect` does from `SetAuthenticated(0)` on;
  the listener's handlers up to their answer (no other goroutine writes what they use).

`UdpForwardConn` takes the sending half apart: `closed`, `closeCh`, the socket pointer and
the queues are read and written in separate steps by producers, one or two send loops,
`tryReconnect` and `Stop`. `SetDisconnected` marks the connection as down and closes its current socket in two steps; the checker's test and the
`tryReconnect` it starts, which tests nothing again, are two as well (`due`), so a connection that is up by then may be replaced. A send loop selects
on the close channel it read
last (`watch`). A channel closed twice ends the process (`crashed`). Which packets a shaper keeps, drops or
releases is left open. `UdpListenSend` does the same for the listener: a job owns one reference to its packet;
broadcast packets have several jobs; shapers are created, probed, swept and reset.

### PathShaper, Autorate and LoadBalancer

`PathShaper` takes `dequeue` one iteration at a time; a tick of time refills the buckets, ages the
packets and runs CoDel's deadlines down. Ages, deadlines and counts are capped where the code no
longer tells them apart. `Autorate` keeps the four over-threshold flags as bits of one number; the slow rise of the baseline
and the exponential increase and decay are any value up to where they lead.
`LoadBalancer` has one step per atomic operation of `sampleStats` and one per rule that `updateCachedResults` evaluates; the swap and the advance of the ring's
index, and what the sampler loads for `updateCachedResults`, are one step each, since no other goroutine uses that index or changes the total. A
packet is two loads and a
decision, and the second load, the rules and the store of the batch's decision are one step (`Decide`). A packet is one byte.

## 3. Runs

| Run | Checks | What it shows |
|---|---|---|
| `stream_transfer` | `InOrderExactlyOnce`, `AckedIsReceived`, `BufferedWithinWindow`, `NoLostWakeup` | two frames race to create the server stream, then three bytes pass a two-byte window with losses, duplicates, reordering and late timers |
| `stream_live` | `EventuallyWritten` | every byte is written although the initial window is smaller than the data and any frame may be lost |
| `stream_close` | `FinishedIsDelivered`, `EventuallyFinished` | both ends close gracefully whichever of the last FINs and ACKs are lost, and neither before its data was received |
| `stream_faults` | `InOrderExactlyOnce`, `EOFIsComplete` | refused dials, failing connections, stops, resets, missing OPENs, and a server stream created a second time: no truncated stream looks complete, and no connection gets another's bytes |
| `stream_idle` | `TypeOK`, `NoLostWakeup` | silences longer than the timeout, aborts and failures racing late callbacks |
| `stream_idle_reset` | `ResetOnlyAfterRetransmitting` (violated) | finding 1 |
| `stream_lost_reset` | `ResetReachesPeer` (violated) | finding 2 |
| `tunnel_queue` | `TypeOK`, `RefsHeldOnce`, `BacklogIsQueued`, `DroppableWithinLimit`, `WriterAwake`, `NoDropIsSent` | five packets, one for each lane and a second bulk packet, with overflow, CoDel, partial writes, errors, Close and stop; a no-drop packet of an open connection is lost neither in a lane nor in the batch before its last byte is written |
| `tunnel_live` | `PoolRefills`, `StopClosesAll`, `PoolWithinCount`, `PickIsRight` (`TcpTunnelForward`); `NoStarvation`, `CloseReleasesAll` (`TcpTunnelConn`) | an empty pool is filled again whichever dials and challenges fail; every connection ends after Stop, those being set up included; two small packets enqueued without end beside a bulk one; Close at any moment |
| `components` | `RepliesStayWithClient` (`TcpTunnelListen`); `SkippedIsIndexed` (`TcpTunnelForward`); `GivenUpAfterSilence` (`TcpTunnelHeartbeat`); `ImplementsDelivery`, `ReflectionIsDropped` (`AuthDedup`); `BytesAreQueued`, `BulkNotStarved` (`PathShaper`); `CutsOnNewSamples` (`Autorate`); `WindowIsExact` (`LoadBalancer`) | each module's steps in any order, with overlapping updates of the listener's map |
| `udp` | `RepliesFollowLine`, `AuthIsMutual`, `LineRecovers` (`UdpLine`); `RefsHeldOnce`, `SendLoopAlive` (`UdpForwardConn`); `JobsOwnReferences` (`UdpListenSend`) | a line over a network that loses, repeats and delays, with a socket error, a restart, an expired mapping or an abandoned socket's datagrams; reconnects, failed writes, drains and Stop on the sending sides |
| `listen_overlap` | `RepliesMoveToLiveLine` (violated) | finding 3 |

`MCTcpTunnels`, `Components` (instance `MCComponents`) and `UdpParts` (instance `MCUdpParts`) put several modules in one run. The variable `part`, chosen
initially and never changed, names the module that takes steps; the others rest in an initial state. The states
are therefore the sum, not the product, of the modules' states, and a property of one module is evaluated in all of its
behaviours. The modules in such a run do not interact; where components do interact (an end of
a stream with the other, a forward connection with a listener, read loops with the
sender), one module holds both.

Each property has a mutant in `PROJECT.json` that breaks it.

**Deadlock** is not checked: a stream without keep-alive whose data is acknowledged has
nothing left to do, and neither does a closed connection. Waiting that should end is the
subject of `NoLostWakeup`, `WriterAwake` and the liveness properties.

**Bounds.** `Mss = 1` makes a segment one byte, so every cut of the data between
segments occurs. A window of two segments is the smallest the code admits
(`WindowAssumption`), and three bytes fill it, close it and need it reopened. `DupThresh = 1`
instead of 3 makes fast retransmit reachable with two segments in flight; the counter has
no other use. `MaxBackoff` is 0 where the backoff does not matter and 1 in `stream_idle`,
which tells "never retransmitted" from "retransmitted". `NetCap = 1` keeps one version
of each segment and ACK per direction; reordering between different segments and
between segments and ACKs remains. `MaxPend = 2` in `stream_transfer` lets two
frames create the stream at once; `MaxStreams = 2` in `stream_faults` lets a forgotten
stream come back. In the tunnel, packets of one or two bytes against a limit of four make
each of these happen: a bulk packet is dropped for another, one is refused beside reliable
data, and no-drop data exceeds the limit.

**What the properties except.** `AuthIsMutual` and `RepliesFollowLine` speak of a line that is connected, authenticated and outside `tryReconnect`'s own
statements, in behaviours without faults so far: after a restart, an expiry or a socket error the two ends may disagree until the next challenge, and
a response of an abandoned
socket may set the flag of the new one (section 6). They still cover every order, loss, copy and delay of challenges and responses, lost heartbeats,
and reconnects, those after the
retries ran out included. `LineRecovers` covers what happens after faults. `CutsOnNewSamples` says that
a cut rests on two delayed samples that are newer than the last one and comes after the refractory time; a queue that stands goes on to be cut, as
`autorate_test.go:72-76`
says. `GivenUpAfterSilence` promises `MaxLoss - 1` silent ticks, one less than the counter suggests (section 6).

`components`: two clients with one pool ID each, two connections, two pool objects and one connection ID on the listen side, so that a pool
empties, is replaced and comes back under another key, and two read loops overlap (`Failing` is empty: the readLoops alone call `Disconnect`; in
`listen_overlap` all
writeLoops do too). `MCSymmetry` permutes the connections (of both sides) and the pool objects of the listen side: no constant or property names one.
On the forward side one pool of two connections or two of one. The heartbeat's loss limit is the code's 5, with up to
3 messages on the way in each direction. Frames of one sequence number make every second message cross the frame boundary; skews of 0 and 1 with
time-outs 1 and 2
are within the difference that the code's constants leave (a larger skew does deliver twice). The shaper has packets of 1 and 2 bytes, a limit of 4, two
rates, so that both lanes, overflow, both CoDels and rate changes occur; `MaxWait = 4` ticks is the bound that `BulkNotStarved` claims.
The balancer has a window of two intervals of at most two packets, and a rule of each kind.
`udp`: two sockets are enough for an old and a new address, one fault of any kind; retries are 2 instead of 5 and losses 2 instead of 5,
in the code's order (`ReauthLoss < MaxLoss`). The forward connection's sockets, channels and loops are interchangeable: a new one is any that no state
refers to, and no property names one. A forward connection has two sockets, two close channels and two send loops, an old and a new one of each.

## 4. Fairness

`TcpStream!FairSpec`: goroutines run (weak fairness of each loop, of dialling, of stream
creation), running timers fire, local connections accept and offer data. Lines may lose
anything, but not every copy of one frame that is sent again for ever: if the oldest
unacknowledged segment, or an ACK with the receiver's current position and window, is in
flight infinitely often and its delivery would change something, it is delivered infinitely often
(`LineFairness`). This is strong fairness with its enabling condition written out
(`Effective`), because a delivery that changes nothing is a stuttering step. It is what a
protocol that retransmits can count on; without it nothing can be promised over a line
that is cut, and the code then resets the stream (`timeout`), which `stream_idle` covers.
`FairResetSpec` adds the same for RSTs, so that finding 2 does not
rest on a line that drops every RST. Losses, failures, stops and idle time are never forced.

`TcpTunnelConn!FairSpec`: producers finish the push they began, writeLoop runs, a
socket write returns (the send timeout), Close completes, and `readLoop` notices a stop
at its read deadline. Producers need never enqueue, and need never pause.

`TcpTunnelForward!Fairness`: the checker ticks; goroutines finish what they began; a dial that
is tried again and again succeeds in the end, with a connection that lasts until its challenge is queued
(strong fairness: without it an unreachable server refutes every refill); a read loop
sees a closed channel or the stop at its next deadline. Failures are never forced.

`UdpLine!Fairness`: the checker sends challenges and heartbeats, a dial succeeds in the
end, and of the challenges, responses and data packets sent again and again on the current socket one arrives fresh
(strong fairness). A network that never delivers keeps any line down. The `PartFairness`
of `MCTcpTunnels` and `UdpParts` is this fairness for the part that runs.

## 5. Proofs

Every theorem is about a module's own specification, with its constants left open. The
assumptions are the named `ASSUME`s of the modules (a segment has a byte, a window two segments, packets
have a positive length, and so on), which the runs evaluate, and two hypotheses stated where they are
needed: `Wide` and `SkewsAreSmall`, below. `Components` and `UdpParts` assume of each instance what its module assumes (`ComponentsAssumption`,
`PartsAssumption`).
For each theorem, the invariant was first checked by TLC on small instances.

**Streams** (`TcpStreamProofs`): `TypeCorrect` (`TypeOK`) and `Wakeups` (`NoLostWakeup`).
`NoLostWakeup` is not inductive. The invariant `IInv` says of each stream (`StreamOK`), besides its types:

- `SndAwake`: `timerArmed` implies that the timer runs or its callback is waiting (what
  makes trusting the flag safe); unacknowledged data implies `timerArmed`; a waiting
  reader has `timerArmed` or a signal, and beside an open window with nothing in flight
  it has the signal, because `armTimerLocked` then stops the timer; no reader is left
  after the FIN was queued;
- `RcvAwake`: a delayed ACK has its timer, and a waiting writer with work a signal;
- `InWindow`: what is out of order lies after `rcvNxt` and ends within the window, so that
  the loop that drains `ooo` ends within it (`ChainEndProperty`);
- `DialOK`: `tcp_forward` has a connection only after the OPEN.

Each `...Locked` operator has a lemma that it keeps `StreamOK`, each action one that it keeps `IInv`.

**Data of streams** (`TcpStreamDataProofs`): `InOrder` (`InOrderExactlyOnce`), `Acknowledged` (`AckedIsReceived`),
`CompleteEOF` (`EOFIsComplete`), `FinishedDelivered` (`FinishedIsDelivered`) and `BoundedBuffers` (`BufferedWithinWindow`).
They share the invariant `DataInv`, which has to say what frames still in flight may do:

- A *view* of an end is what the other may believe of it: its connection, what it sent and received, its
  FIN, the edge of its window. Every frame in flight fits the view of its sender (`InFlight`), and each end's state fits a
  view of its peer (`Linked`). Views only grow, and what fits a view fits a larger one (`DataGrows`), so a step of one
  end cannot make a frame or the other end wrong.
- The view is the peer's current one, with one exception: after the server stream was forgotten and created again without its OPEN
  (`Cut`), the client keeps the view of the earlier one; such a stream never dials, so it has nothing to send but acknowledgements and resets.
- `Gone`, `Touched` and `NoneYet` say what is known at the borders: before the client opens, before
  anything of the server reached it, and while the server does not know the stream.
- `Quiet`: a stream that is not alive has no loop that reads and no timers.

`BoundedBuffers` has the hypothesis `Wide`: no window is smaller than the initial one (`tcpStreamInitWindow`, 64 KiB; the default window is 1 MiB).

**Send queue of the tunnel** (`TcpTunnelConnProofs`): `QueueWakesWriter` (`WriterAwake`), `ReferencesHeldOnce` (`RefsHeldOnce`),
`BacklogIsExact` (`BacklogIsQueued`), `LimitHolds` (`DroppableWithinLimit`), `NoDropIsNeverDropped` (`NoDropIsSent`),
`QueueTypeCorrect` (`TypeOK`).
`WriterAwake` with the domains of `lane` and `pusher` is inductive: a push ends with its
producer about to signal, a signal ends with the token there, and writeLoop starts to
wait only when all lanes are empty under the mutex. The others follow from `QueueInv`: `HandsInv` (each packet is in at most one of a
producer's hand, one lane and the batch, in its own lane, without repetition; `refs` counts exactly these) and `CountInv`
(byte count and limit). `NoDropIsSent` also needs `SentInv`: while a batch is written, the bytes it has written and those it has yet to write are the
bytes of the batch. Byte counts are folds over sets of packets; `SumLemmas` proves what adding and removing an element
does to them by considering a smallest set for which it would fail. `TypeOK` adds the loop's own variables (`LoopTyped`): credit
is integer and under its cap because `pop` caps what a bulk packet earns.

**Forward side of the tunnel** (`TcpTunnelForwardProofs`): `PoolsAreBounded` (`PoolWithinCount`), `PickConnIsRight` (`PickIsRight`),
`TrackedIsIndexed` (`SkippedIsIndexed`). `PoolWithinCount` needs that the goroutine that refills a pool still finds room when it
adds (`RoomToRefill`: others only remove) and that the connection it adds is in no pool (`FreshIsApart`). `SkippedIsIndexed` needs
that a read loop knows its connection's pool (`HomeIsKnown`).

**Listen side of the tunnel** (`ComponentsProofs`): `RepliesKeepToClient` (`RepliesStayWithClient`), with overlapping updates and without a
hypothesis. `ListenInv` collects
what claims a pool object for a key: the stored map, each copy that a goroutine is about to store, a goroutine that holds the pool, and the members.
All claims of one object agree
(`ClaimsAgree`; a copy may be stale, but is not wrong about that), a loop knows what it works on (`LoopKnows`), and the index holds only pools of the
ID's client (`IndexIsOfClient`). That is why a lost update loses replies but never sends them to another client.

**UDP line** (`UdpProofs`): `BothEndsAgree` (`AuthIsMutual`) and `RepliesReachLine` (`RepliesFollowLine`). `LineInv` adds to the types:

- `SnapshotIsExact`: between the steps of the listener the snapshot is the set of mapped addresses, which each handler must establish itself;
- `AnsweredIsMapped`: the mapping of a challenge that was answered and not yet marked is there, and with `replace_old_mapping` no other;
- `ClaimsAreTrue`: without faults nothing of an abandoned socket is on its way or waits in a reader, and a fresh response on its way, or the flag outside
  `tryReconnect`, was preceded by the mapping's authentication or by the answer that precedes it.

**Sending sides of UDP** (`UdpProofs`):

- `ForwardPacketsOnce` (`RefsHeldOnce`): counting places is not inductive. `PacketsInv` says that no packet is in two places (`QueuesApart`,
  `PlacesApart`), that it has a reference exactly if it is in one (`RefsAreOwned`), and that a loop which waits or has ended writes nothing, so that the
  next batch overwrites none (`NothingOverwritten`).
- `ForwardLoopAlive` (`SendLoopAlive`): `ReconnectInv` adds that outside `tryReconnect`'s critical steps and while nothing stops, the current
  `closeCh` is not closed. So the loop that watches it goes on until Stop, until it gives up (which disconnects), or until `tryReconnect` signals that
  very channel,
  and then a new loop is started before `tryReconnect` is done.
- `JobsCountReferences` (`JobsOwnReferences`): `SendInv` says that no job is in two places and that the count of a packet (or of a path's probe) is the
  number of jobs of it; adding, releasing and moving jobs each have a lemma on these cardinalities.

`UdpPartsAreRight` combines the five safety properties for `UdpParts`: a step of one part is a step of its module and a stutter of the others (`UdpPartSteps`).

**Heartbeats, rate, balancer, shaper** (`ComponentsProofs`):

- `GiveUpNeedsSilence` (`GivenUpAfterSilence`): `HeartInv` bounds the losses by the ticks since the last echo, plus one that an echo may have met
  between the flag and the counter.
- `CutsNeedNewSamples` (`CutsOnNewSamples`): `RateInv` says that the flags of late samples number at most the `evidence`, unless that is full. The
  flags are bits of
  a number, so shifting one in is a fact about all sixteen of them (`OnesAfterSample`).
- `TotalIsWindow` (`WindowIsExact`): `RingIsHistory` says that the ring, read backwards from its index, is the history of intervals, and which place
  is out of date
  between the swap and the store.
- `QueuesAreCounted` (`BytesAreQueued`): `ShaperInv` adds the types of the queues. The bytes of a queue are a sum along a sequence; `SumLemmas` proves what
  appending and taking from the front do to it (`SumOfAppend`, `SumOfTail`, `SumOfSuffix`).

**Deduplication** (`AuthDedupProofs`): `DeliversAsPromised`, the refinement `AuthDedup => Delivery`, and `ReflectionDropped`
(`ReflectionIsDropped`). `DedupInv` says that nonces of sent messages precede the next one and fit the bitmap; that the mark of a
message stays until `FrameTimeout` has passed since it was sent, at the sender always and at the receiver once it was delivered; and that deliveries
of a message
plus the readers that handle a copy of it never exceed the readers. The last part needs `SkewsAreSmall`: no clock is further ahead
than `FrameTimeout - DataTimeout` (55 s); `ReflectionDropped` does not. Each step maps to a `Deliver` or a stutter. `DedupAssumption` is a hypothesis of
these two theorems; `DedupDelivers` and `DedupDropsReflection` discharge it for `Components`, and `DialerSkipsRightly` does the same for `SkippedIsIndexed`
(`ComponentsProofs` instantiates the two proof modules with the variables of `Components`).

**All parts together** (`ComponentsProofs`): `ComponentsAreRight` says that the specification the run `components` checks has all its safety properties but
`BulkNotStarved`, and the refinement, for all parameters; only the refinement has a hypothesis (`SkewsAreSmall`).

**Only model-checked:**

- Liveness (`EventuallyWritten`, `EventuallyFinished`, `PoolRefills`, `StopClosesAll`, `NoStarvation`, `CloseReleasesAll`, `LineRecovers`): it needs fairness
  and ENABLED, which the prover does not support.
- `BulkNotStarved` (`PathShaper`): how long bulk waits (`MaxWait`) depends on the rates, bursts and sizes of an instance; a bound for all of them would be an
  assumption that no line of the code states.
- `ResetOnlyAfterRetransmitting`, `ResetReachesPeer` and `RepliesMoveToLiveLine` are false (section 6).

## 6. Findings

1. **A reset without retransmission** (`stream_idle_reset`, `tcp_stream.go:510`).
   `lastProgress` is the time of creation or of the last ACK that advanced. After an idle
   time longer than `timeout`, the first segment that is not acknowledged within one
   retransmission timeout resets the stream, where `docs/tcp_listen_en.md:23` speaks of
   unacknowledged data that makes no progress for that many seconds.
2. **A lost reset is not repeated** (`stream_lost_reset`, `tcp_stream.go:772`). An RST
   has no sequence number and is sent once. If it is lost and the other end has
   nothing to send, that end stays open, although the header comment says that
   every frame is sequenced and retransmitted.
3. **Concurrent updates of the listener's map lose one** (`listen_overlap`,
   `tcp_tunnel_listen.go:330`). Two read loops load, clone and store the map at the same time: a connection
   that was just added is missing from the map that is stored last. It carries data, but `RememberConnID` finds no pool for it,
   so its client's replies are dropped, although `tcp_tunnel.go:711-712` says that
   replies move to this connection when a line fails.

Seen while modelling and recorded as hazards or here only: a challenge that is refused opens a mapping
(`listen.go:681`), and when a listener lost the mapping of a line, the line's heartbeats
are echoed again from then on while its data is dropped, so the forward side does not authenticate anew
(`Deaf` in `UdpLine`; `LineRecovers` excludes it), although `docs/auth_protocol_en.md:36` says that unauthenticated traffic is discarded without any response;
a reconnected line is connected and, until `SetAuthenticated(0)` three statements later, authenticated with the flag of its old socket
(`forward.go:871-874`), and a response that the
old socket's reader had already read sets the flag of the new one (`forward.go:912`, `926-943`): both last until the next challenge or lost
heartbeats, and `AuthIsMutual` excepts them;
an echo handled between the two atomic operations of `MarkPendingHeartbeatLost` (`heartbeat_tracker.go:168-176`) leaves one loss behind, so a tunnel
connection may be closed one silent tick early;
a standing queue is cut again after every refractory time, down to the minimum rate; a tunnel connection that ends between
its challenge and `AddConnection` is added dead and keeps its place in the pool (`tcp_tunnel_forward.go:220`; `PoolRefills` speaks of empty
pools only); `Stop` between the two assignments at `forward.go:877-878` closes a channel twice;
a packet queued after `drainSendQueue` is not released (`listen.go:527`); a constant load-balancer rule is cached and
cached results are refreshed only with caching on, so with caching off it never matches; a droppable packet that cannot fit because of
no-drop data still empties the bulk lane before it is refused
(`tcp_tunnel_queue.go:220-231`); a load balancer with `window_size` 0 is not refused and `sampleStats` would divide by it
(`load_balancer.go:418`), so `WindowAssumption` asks for at least 1; a stream created between the check of `stopped` and
`stop`'s walk survives the stop; the initial window of 64 KiB can exceed a smaller
configured receive window, which the tolerance at `tcp_stream.go:558` absorbs in part, so
`BufferedWithinWindow` is checked with an initial window that is not larger.

## 7. Not modelled

- Filter, protocol detector, configuration, logging and the HTTP API keep no state whose
  order of changes matters. UDP batching, interface binding, TUN set-up and socket options are
  system calls.
- WireGuard and OpenVPN sessions, the AEAD cipher, expression evaluation and the GeoIP reader are
  libraries; the components around them start them and copy packets. The swap of the GeoIP database under a
  lookup (`ip_router.go:187`) is the one interleaving there.
- `Router.Route` is a loop over the detours; references are modelled where a queue owns them.
- The direct relay of `tcp_listen` and `tcp_forward` copies between two sockets.
- The per-minute heartbeat statistics and the moving average of delays only feed the API and delay rules.
- `AuthDedup` leaves out the unencrypted branch of `UnwrapData`, which has neither nonces nor deduplication.
- In `components`, the load balancer has one receiving goroutine; two of them may overwrite each other's batch decision, which
  no property rules out.
