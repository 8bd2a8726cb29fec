-------------------------------- MODULE UdpLine --------------------------------
(***************************************************************************)
(* One line of the UDP tunnel: a forwarder connection (src/forward.go) and *)
(* the listener it talks to (src/listen.go) over a network that loses,     *)
(* duplicates, delays and reorders datagrams.  Both ends authenticate      *)
(* (src/auth_protocol.go) and exchange heartbeats (heartbeat_tracker.go);  *)
(* the forward side gives its socket up and dials again, which changes its *)
(* address; the listener keeps a mapping per address.                      *)
(*                                                                         *)
(* tryReconnect takes several steps, between which the other goroutines    *)
(* and the other end run, a reader may handle a response after its socket  *)
(* was given up, and the listener answers a challenge before it counts the *)
(* mapping as authenticated.  One step still: connectionChecker's check    *)
(* with the goroutine it starts, sendHeartbeat, sendAuthChallenge, what    *)
(* tryReconnect does from SetAuthenticated(0) on, and the listener's       *)
(* handlers up to their answer (no other goroutine writes what they use).  *)
(*                                                                         *)
(* A handshake message is fresh until its receiver has processed it; a     *)
(* copy, or one whose timestamp is too old, is refused                     *)
(* (ProcessAuthChallenge).  The acknowledgement of an echo and data on an  *)
(* authenticated line only refresh lastActive, which Expire leaves open,   *)
(* so they are not messages here.  One datagram of a kind is on its way    *)
(* from or to a socket: a newer one takes the place of an older, lost one. *)
(***************************************************************************)
EXTENDS Integers, FiniteSets

CONSTANTS
  Socks,       \* local addresses of the forward side's sockets
  MaxRetry,    \* challenges without a response (5)
  ReauthLoss,  \* heartbeats lost in a row before a new challenge (2)
  MaxLoss,     \* heartbeats lost in a row before the socket is given up (5)
  MaxFaults    \* bound on socket errors, listener restarts, expired mappings,
               \* and reconnects after which the old socket's datagrams linger

ASSUME LineAssumption == Socks # {}

VARIABLES
  config,    \* [auth, replace]: authentication on; replace_old_mapping
  sock,      \* conn.conn: the current socket
  connected, \* isConnected
  auth,      \* authState of the forward side
  retry,     \* authRetryCount
  awaiting,  \* awaitingAck
  loss,      \* consecutiveLoss
  rc,        \* what tryReconnect has done after its dial; "off": not there
  taken,     \* responses that the reader of the last socket still has to handle
  mapping,   \* [Socks -> {"none", "unauth", "auth"}]: the listener's mappings
  served,    \* addresses in the snapshot that replies use (mappingsAtomic)
  at,        \* the challenge that the listener is answering, and how far it is
  net,       \* datagrams on their way
  faults     \* faults so far

forward == <<sock, connected, auth, retry, awaiting, loss, rc, taken>>
listen == <<mapping, served, at>>
vars == <<config, forward, listen, net, faults>>

Msg(type, s, fresh) == [type |-> type, sock |-> s, fresh |-> fresh]

\* A heartbeat and its echo are of a kind.
Kind(m) == <<IF m.type = "echo" THEN "heartbeat" ELSE m.type, m.sock>>
Sent(n, M) == {m \in n : \A k \in M : Kind(k) # Kind(m)} \cup M

\* The listener's goroutine is in handleAuthMessage, for a challenge from s.
At(stage, s) == [stage |-> stage, sock |-> s]
Idle == At("idle", CHOOSE s \in Socks : TRUE)

Init ==
  /\ config \in [auth : BOOLEAN, replace : BOOLEAN]
  /\ sock = (CHOOSE s \in Socks : TRUE) /\ connected = TRUE
  /\ auth = ~config.auth \* without authentication the line is usable at once
  /\ retry = 0 /\ awaiting = FALSE /\ loss = 0
  /\ rc = "off" /\ taken = {}
  /\ mapping = [s \in Socks |-> "none"] /\ served = {} /\ at = Idle
  /\ net = {} /\ faults = 0

Fault == faults < MaxFaults /\ faults' = faults + 1

-----------------------------------------------------------------------------
(* The forward side.                                                       *)

\* SetDisconnected: a pending heartbeat is lost too (beyond MaxLoss it makes no
\* difference how many are).
SetDisconnected ==
  /\ connected' = FALSE
  /\ awaiting' = FALSE /\ loss' = IF awaiting /\ loss < MaxLoss THEN loss + 1 ELSE loss

TooManyRetries == retry + 1 > MaxRetry

\* The statements of tryReconnect and of the listener's handler take less time than
\* two ticks of the checker: in between it sends at most one challenge, or finds
\* that the retries have run out.
Prompt == (rc = "off" /\ at = Idle) \/ retry = 0 \/ retry >= MaxRetry

\* connectionChecker, setupForwarder, tryReconnect: sendAuthChallenge.
SendAuthChallenge ==
  /\ config.auth /\ connected /\ ~auth /\ Prompt
  /\ retry' = retry + 1
  /\ IF TooManyRetries
     THEN SetDisconnected /\ UNCHANGED net
     ELSE /\ net' = Sent(net, {Msg("challenge", sock, TRUE)})
          /\ UNCHANGED <<connected, awaiting, loss>>
  /\ UNCHANGED <<config, sock, auth, rc, taken, listen, faults>>

\* connectionChecker: sendHeartbeat on an authenticated line.  After
\* ReauthLoss losses it also sends a challenge; after MaxLoss it gives up.
SendHeartbeat ==
  /\ config.auth /\ connected /\ auth
  /\ LET lost == IF awaiting THEN loss + 1 ELSE loss
         challenge == lost >= ReauthLoss
         giveUp == lost >= MaxLoss
     IN /\ retry' = IF challenge THEN retry + 1 ELSE retry
        /\ connected' = ~(giveUp \/ (challenge /\ TooManyRetries))
        /\ auth' = ~giveUp
        /\ loss' = IF giveUp THEN 0 ELSE lost
        /\ awaiting' = ~giveUp
        /\ net' = Sent(net,
             (IF challenge /\ ~TooManyRetries THEN {Msg("challenge", sock, TRUE)} ELSE {})
             \cup (IF connected' THEN {Msg("heartbeat", sock, TRUE)} ELSE {}))
  /\ UNCHANGED <<config, sock, rc, taken, listen, faults>>

\* tryReconnect dials: a new socket, so a new address, with the old one's flag,
\* retries and heartbeats.  What was on its way from and to the old one is lost; or
\* its challenges and data still arrive, and its reader still handles responses
\* that it has read.  (Late heartbeats and what would be refused are left out.)
SetConnected(s) ==
  /\ rc = "off" /\ ~connected /\ s # sock
  /\ sock' = s /\ connected' = TRUE /\ rc' = "connected"
  /\ \/ net' = {} /\ taken' = {} /\ UNCHANGED faults
     \/ /\ Fault
        /\ net' = {m \in net : m.fresh /\ m.type \in {"challenge", "data"}}
        /\ taken' \in SUBSET {m \in net : m.fresh /\ m.type = "response"}
  /\ UNCHANGED <<config, auth, retry, awaiting, loss, listen>>

\* Mutant: the retries of the old connection count on.
KeepRetries ==
  /\ rc = "connected" /\ rc' = "retries"
  /\ retry' = IF retry > MaxRetry THEN MaxRetry ELSE retry
  /\ UNCHANGED <<config, sock, connected, auth, awaiting, loss, taken, listen, net, faults>>

ResetRetries ==
  /\ rc = "connected" /\ rc' = "retries"
  /\ retry' = 0
  /\ UNCHANGED <<config, sock, connected, auth, awaiting, loss, taken, listen, net, faults>>

ResetHeartbeatState ==
  /\ rc = "retries" /\ rc' = "heartbeat"
  /\ awaiting' = FALSE /\ loss' = 0
  /\ UNCHANGED <<config, sock, connected, auth, retry, taken, listen, net, faults>>

\* Mutant: the flag of the old connection survives.
KeepAuthenticated ==
  /\ rc = "heartbeat" /\ rc' = "off"
  /\ UNCHANGED <<config, sock, connected, auth, retry, awaiting, loss, taken, listen, net, faults>>

\* The flag is cleared (and set again if there is no authentication), and a reader
\* of the new socket starts.
ClearAuthenticated ==
  /\ rc = "heartbeat" /\ rc' = "off"
  /\ auth' = ~config.auth
  /\ UNCHANGED <<config, sock, connected, retry, awaiting, loss, taken, listen, net, faults>>

\* readFromForwarder, the send loop or a challenge meets a socket error.
SocketFails ==
  /\ connected /\ Fault
  /\ SetDisconnected
  /\ UNCHANGED <<config, sock, auth, retry, rc, taken, listen, net>>

\* HandlePacket without authentication: any packet makes the mapping.
SendData ==
  /\ ~config.auth /\ connected
  /\ net' = net \cup {Msg("data", sock, TRUE)}
  /\ UNCHANGED <<config, forward, listen, faults>>

-----------------------------------------------------------------------------
(* The network.                                                            *)

\* What is left of net when m is delivered.  One copy of a handshake message
\* may come again; copies of other messages are left out.
After(m) ==
  {net \ {m}} \cup
  {(net \ {m}) \cup {[c EXCEPT !.fresh = FALSE]} :
     c \in {d \in {m} : d.fresh /\ d.type \in {"challenge", "response"}}}

Lose(m) ==
  /\ net' = net \ {m}
  /\ UNCHANGED <<config, forward, listen, faults>>

\* A handshake message is delayed beyond authTimeout.
Delay(m) ==
  /\ m.fresh /\ m.type \in {"challenge", "response"}
  /\ net' = (net \ {m}) \cup {[m EXCEPT !.fresh = FALSE]}
  /\ UNCHANGED <<config, forward, listen, faults>>

-----------------------------------------------------------------------------
(* readFromForwarder and the forward side's handleAuthMessage.             *)

\* ProcessAuthChallenge accepts a handshake message: its challenge is new here and
\* its timestamp recent.  (Every MAC is right.)
Verified(m) == m.fresh

\* There is a reader of the socket, and the datagram is one of its.
Read(m, type) == m.type = type /\ m.sock = sock /\ connected /\ rc = "off"

\* A response that is refused clears the flag.
HandleResponse(m) ==
  /\ auth' = Verified(m) /\ retry' = IF Verified(m) THEN 0 ELSE retry
  /\ UNCHANGED <<config, sock, connected, awaiting, loss, rc, listen>>

OnAuthResponse(m) ==
  /\ Read(m, "response") /\ net' \in After(m)
  /\ HandleResponse(m)
  /\ UNCHANGED <<taken, faults>>

\* The reader looks at the connection before it reads, not before it handles what
\* it read: this response is handled after a reconnect.
OnLateResponse(m) ==
  /\ taken' = taken \ {m}
  /\ HandleResponse(m)
  /\ UNCHANGED <<net, faults>>

OnEcho(m) ==
  /\ Read(m, "echo") /\ net' \in After(m)
  /\ awaiting' = FALSE /\ loss' = 0
  /\ UNCHANGED <<config, sock, connected, auth, retry, rc, taken, listen, faults>>

-----------------------------------------------------------------------------
(* The listener: one goroutine, so it does nothing else while it answers a *)
(* challenge.                                                              *)

\* What syncMapping stores.
Mapped(m) == {t \in Socks : m[t] # "none"}

\* Every client address has the forward side's IP: replace_old_mapping
\* removes all mappings but that of s.
Replaced(m, s) ==
  [t \in Socks |-> IF config.replace /\ t # s THEN "none" ELSE m[t]]

\* The snapshot after a challenge, which may add a mapping and then remove others:
\* each has a syncMapping of its own.
SyncOpened(opened) == IF opened # mapping THEN Mapped(opened) ELSE served

\* Mutant: old mappings are replaced without telling the senders.
SyncOnlyOpened(opened, replaced) == SyncOpened(opened)

SyncReplaced(opened, replaced) ==
  IF replaced # opened THEN Mapped(replaced) ELSE SyncOpened(opened)

\* A challenge makes a mapping before it is verified.  A verified one replaces old
\* mappings and is answered; the mapping is authenticated after that.
OnAuthChallenge(m) ==
  /\ m.type = "challenge" /\ at = Idle
  /\ LET opened == [mapping EXCEPT ![m.sock] = IF @ = "none" THEN "unauth" ELSE @]
     IN IF Verified(m)
        THEN /\ mapping' = Replaced(opened, m.sock)
             /\ served' = SyncReplaced(opened, mapping')
             /\ at' = At("answered", m.sock)
        ELSE mapping' = opened /\ served' = SyncOpened(opened) /\ UNCHANGED at
  /\ \E n \in After(m) :
       net' = IF Verified(m) /\ m.sock = sock
              THEN Sent(n, {Msg("response", sock, TRUE)}) ELSE n
  /\ UNCHANGED <<config, forward, faults>>

SetAuthenticated ==
  /\ at.stage = "answered" /\ at' = Idle
  /\ mapping' = [mapping EXCEPT ![at.sock] = "auth"]
  /\ UNCHANGED <<config, forward, served, net, faults>>

\* A heartbeat from an address with a mapping is echoed.
OnHeartbeat(m) ==
  /\ m.type = "heartbeat" /\ at = Idle
  /\ \E n \in After(m) :
       net' = IF mapping[m.sock] # "none" /\ m.sock = sock
              THEN Sent(n, {Msg("echo", m.sock, TRUE)}) ELSE n
  /\ UNCHANGED <<config, forward, listen, faults>>

\* handleIncoming without authentication: a new address gets a mapping, after
\* the old ones are replaced.
OnData(m) ==
  /\ m.type = "data" /\ at = Idle /\ net' \in After(m)
  /\ IF mapping[m.sock] # "none" THEN UNCHANGED <<mapping, served>>
     ELSE mapping' = [Replaced(mapping, m.sock) EXCEPT ![m.sock] = "auth"] /\ served' = Mapped(mapping')
  /\ UNCHANGED <<config, forward, at, faults>>

\* performCleanup removes a mapping that was silent for too long.
Expire(s) ==
  /\ mapping[s] # "none" /\ at = Idle
  /\ IF s = sock THEN Fault ELSE UNCHANGED faults
  /\ mapping' = [mapping EXCEPT ![s] = "none"] /\ served' = Mapped(mapping')
  /\ UNCHANGED <<config, forward, at, net>>

\* The listener restarts: its mappings and its cache of challenges are gone.
Restart ==
  /\ Fault
  /\ mapping' = [s \in Socks |-> "none"] /\ served' = {} /\ at' = Idle
  /\ net' = {IF m.type = "challenge" THEN [m EXCEPT !.fresh = TRUE] ELSE m : m \in net}
  /\ UNCHANGED <<config, forward>>

Receive(m) == OnAuthResponse(m) \/ OnEcho(m) \/ OnAuthChallenge(m) \/ OnHeartbeat(m) \/ OnData(m)
Tick == SendAuthChallenge \/ SendHeartbeat \/ SendData
TryReconnect ==
  (\E s \in Socks : SetConnected(s)) \/ ResetRetries \/ ResetHeartbeatState \/ ClearAuthenticated

Next ==
  \/ Tick \/ TryReconnect \/ SetAuthenticated
  \/ \E s \in Socks : Expire(s)
  \/ SocketFails \/ Restart
  \/ \E m \in net : Receive(m) \/ Lose(m) \/ Delay(m)
  \/ \E m \in taken : OnLateResponse(m)

Spec == Init /\ [][Next]_vars

\* A message that the listener gets while the line is there to use the answer.
Heard(m) ==
  /\ m.fresh /\ m.sock = sock /\ connected /\ rc = "off"
  /\ OnAuthChallenge(m) \/ OnData(m)

\* The checker ticks and data keeps coming, a dial succeeds in the end and
\* tryReconnect and the listener's handler go on, and the network delivers what is
\* sent again and again.
Fairness ==
  /\ WF_vars(Tick) /\ WF_vars(TryReconnect) /\ WF_vars(SetAuthenticated)
  /\ SF_vars(\E m \in net : Heard(m)) /\ SF_vars(\E m \in net : m.fresh /\ OnAuthResponse(m))

FairSpec == Spec /\ Fairness

-----------------------------------------------------------------------------

\* The flag of the forward side is about its current socket, and without faults
\* nothing that an abandoned socket sent or received has been handled.
Settled == config.auth /\ connected /\ auth /\ rc = "off" /\ faults = 0

\* A line that thinks it is authenticated has been accepted by the listener
\* on this very socket, or will be by the handler that has already answered it.
\* tryReconnect's own window, before it clears the flag of the old socket
\* (forward.go:871-874), is excepted, and so is a fault.
AuthIsMutual ==
  Settled => mapping[sock] = "auth" \/ at = At("answered", sock)

\* Replies find a line that thinks it is authenticated, and with
\* replace_old_mapping they find no address that it has given up
\* (syncMapping in each handler that adds or removes a mapping).
RepliesFollowLine ==
  Settled => sock \in served /\ (config.replace => served = {sock})

\* The line carries data in both directions.
Up == connected /\ auth /\ mapping[sock] = "auth" /\ sock \in served

\* A challenge that was refused opened the mapping of a line that thinks it is
\* authenticated: the listener echoes its heartbeats, so it never sends another
\* challenge, and discards its data.
Deaf == connected /\ auth /\ mapping[sock] = "unauth"

\* Whatever is lost, duplicated or reordered, and after any fault, both ends are
\* authenticated with each other again and again, unless the line is deaf
\* (sendHeartbeat's new challenge, the retry limit, tryReconnect).
Recovers == []<>(Up \/ Deaf)
=============================================================================
