------------------------------- MODULE UdpProofs -------------------------------
(***************************************************************************)
(* The parts of UdpParts, for any number of sockets, packets, clients and  *)
(* send loops, any queue sizes and any limits: both ends of a line agree,  *)
(* a forwarder's packets and a listener's jobs own their references, and a *)
(* connected forwarder has a send loop.                                    *)
(***************************************************************************)
EXTENDS UdpParts, SumLemmas

(* The UDP line.                                                           *)

Types == {"challenge", "response", "heartbeat", "echo", "data"}

Messages == [type : Types, sock : Socks, fresh : BOOLEAN]

\* The types that matter: of the addresses, the mappings and what is on its way.
LineTyped ==
  /\ sock \in Socks /\ faults \in Nat
  /\ mapping \in [Socks -> {"none", "unauth", "auth"}]
  /\ net \subseteq Messages
  /\ at \in [stage : {"idle", "answered"}, sock : Socks]

\* Outside its handlers the listener has a snapshot of all mappings for the replies.
SnapshotIsExact == served = Mapped(mapping)

\* The mapping of a challenge that was answered is still there.
AnsweredIsMapped == at.stage = "answered" => mapping[at.sock] # "none"

\* The listener trusts the forward side's socket, and replaced what it should.
Trusted ==
  /\ mapping[sock] = "auth" \/ at = At("answered", sock)
  /\ config.replace => Mapped(mapping) \subseteq {sock}

\* A fresh response is on its way, or the forward side has had one.
Claimed == (\E m \in net : m.type = "response" /\ m.fresh) \/ Settled

\* AuthIsMutual is not inductive: without faults nothing of another socket is on its
\* way, and who sends a response trusts the socket that gets it.
ClaimsAreTrue ==
  faults = 0 => /\ taken = {}
                /\ \A m \in net : m.sock = sock
                /\ Claimed => Trusted

LineInv == LineTyped /\ SnapshotIsExact /\ AnsweredIsMapped /\ ClaimsAreTrue

-----------------------------------------------------------------------------

\* A line starts with nothing on its way, no mapping and no claim.
LEMMA LineInit == Init => LineInv
<1> SUFFICES ASSUME Init PROVE LineInv
  OBVIOUS
<1>1. (CHOOSE s \in Socks : TRUE) \in Socks
  BY LineAssumption
<1>2. LineTyped
  BY <1>1 DEF Init, LineTyped, Idle, At
<1>3. SnapshotIsExact /\ AnsweredIsMapped
  BY DEF Init, SnapshotIsExact, AnsweredIsMapped, Mapped, Idle, At
<1>4. ClaimsAreTrue
  BY DEF Init, ClaimsAreTrue, Claimed, Settled
<1>5. QED
  BY <1>2, <1>3, <1>4 DEF LineInv

\* A line that claims nothing false is one that both ends agree about, and whose
\* address is in the snapshot.
LEMMA LineInvIsEnough == LineInv => AuthIsMutual /\ RepliesFollowLine
<1> SUFFICES ASSUME LineInv, Settled
             PROVE  /\ mapping[sock] = "auth" \/ at = At("answered", sock)
                    /\ sock \in served
                    /\ config.replace => served = {sock}
  BY DEF AuthIsMutual, RepliesFollowLine
<1>1. Trusted
  BY DEF LineInv, ClaimsAreTrue, Claimed, Settled
<1>2. sock \in Mapped(mapping)
  BY <1>1 DEF LineInv, LineTyped, AnsweredIsMapped, Trusted, Mapped, At
<1>3. QED
  BY <1>1, <1>2 DEF LineInv, SnapshotIsExact, Trusted

\* A message that is delivered leaves what was on its way, and at most a copy of
\* itself that is no longer fresh (After).
LEMMA AfterKeeps ==
  ASSUME LineTyped, NEW m \in net, NEW n \in After(m)
  PROVE  /\ n \subseteq Messages
         /\ \A k \in n : k.fresh => k \in net
         /\ \A k \in n : k \in net \/ k.sock = m.sock
<1> DEFINE Copies == {c \in {m} : c.fresh /\ c.type \in {"challenge", "response"}}
<1>1. m \in Messages
  BY DEF LineTyped
<1>2. CASE n = net \ {m}
  BY <1>2 DEF LineTyped
<1>3. CASE n # net \ {m}
  <2>1. PICK c \in Copies : n = (net \ {m}) \cup {[c EXCEPT !.fresh = FALSE]}
    BY <1>3 DEF After
  <2>2. c = m
    OBVIOUS
  <2>3. [m EXCEPT !.fresh = FALSE] \in Messages
    BY <1>1 DEF Messages
  <2>4. [m EXCEPT !.fresh = FALSE].fresh = FALSE /\ [m EXCEPT !.fresh = FALSE].sock = m.sock
    BY <1>1 DEF Messages
  <2>5. n \subseteq Messages
    BY <2>1, <2>2, <2>3 DEF LineTyped
  <2>6. ASSUME NEW k \in n
        PROVE  (k.fresh => k \in net) /\ (k \in net \/ k.sock = m.sock)
    BY <2>1, <2>2, <2>4
  <2>7. QED
    BY <2>5, <2>6
<1>4. QED
  BY <1>2, <1>3

-----------------------------------------------------------------------------

\* A message is one of the messages, with the fields it was given (Msg).
LEMMA MsgIsMessage ==
  ASSUME NEW t \in Types, NEW s \in Socks, NEW b \in BOOLEAN
  PROVE  /\ Msg(t, s, b) \in Messages
         /\ Msg(t, s, b).type = t /\ Msg(t, s, b).fresh = b /\ Msg(t, s, b).sock = s
  BY DEF Msg, Messages

\* Whoever changes neither the mappings nor the listener's handler nor the socket,
\* sends no response and claims nothing new, keeps the invariant.
LEMMA NothingClaimed ==
  ASSUME LineInv, UNCHANGED <<config, sock, mapping, served, at>>,
         net' \subseteq Messages,
         faults' \in Nat, faults' = 0 => faults = 0,
         faults = 0 => taken' = {},
         faults = 0 => \A m \in net' : m.sock = sock,
         faults' = 0 => (Claimed' => Claimed)
  PROVE  LineInv'
<1>1. LineTyped' /\ SnapshotIsExact' /\ AnsweredIsMapped'
  BY DEF LineInv, LineTyped, SnapshotIsExact, AnsweredIsMapped, Mapped
<1>2. Trusted => Trusted'
  BY DEF Trusted, At, Mapped
<1>3. ClaimsAreTrue'
  BY <1>2 DEF LineInv, ClaimsAreTrue
<1>4. QED
  BY <1>1, <1>3 DEF LineInv

\* What the forward side sends by itself: no response.
LEMMA ForwardSends ==
  ASSUME LineInv, SendAuthChallenge \/ SendHeartbeat \/ SendData
  PROVE  LineInv'
<1>1. ASSUME NEW t \in {"challenge", "heartbeat", "data"}
      PROVE  /\ Msg(t, sock, TRUE) \in Messages /\ Msg(t, sock, TRUE).type = t
             /\ Msg(t, sock, TRUE).sock = sock
  <2>1. t \in Types /\ sock \in Socks /\ TRUE \in BOOLEAN
    BY DEF LineInv, LineTyped, Types
  <2>2. QED
    BY <2>1, MsgIsMessage
<1>2. \A m \in net' : m \in net \/ \E t \in {"challenge", "heartbeat", "data"} : m = Msg(t, sock, TRUE)
  BY DEF SendAuthChallenge, SendHeartbeat, SendData, Sent
<1>3. net' \subseteq Messages
  BY <1>1, <1>2 DEF LineInv, LineTyped
<1>4. faults = 0 => \A m \in net' : m.sock = sock
  BY <1>1, <1>2 DEF LineInv, ClaimsAreTrue
<1>5. UNCHANGED <<config, sock, mapping, served, at, faults, taken, rc>>
  BY DEF SendAuthChallenge, SendHeartbeat, SendData, forward, listen
<1>6. \A m \in net' : m.type = "response" => m \in net
  BY <1>1, <1>2
<1>7. Settled' => Settled
  BY DEF SendAuthChallenge, SendHeartbeat, SendData, forward, Settled
<1>8. Claimed' => Claimed
  BY <1>6, <1>7 DEF Claimed
<1>9. QED
  BY <1>3, <1>4, <1>5, <1>8, NothingClaimed DEF LineInv, LineTyped, ClaimsAreTrue

\* A reconnect claims nothing before its last step, which clears the flag; the new
\* socket has nothing of the old one's on its way, or it counts as a fault.
LEMMA ForwardReconnects ==
  ASSUME LineInv, TryReconnect \/ SocketFails
  PROVE  LineInv'
<1>1. CASE SocketFails
  BY <1>1, NothingClaimed DEF SocketFails, Fault, listen, LineInv, LineTyped, ClaimsAreTrue
<1>2. ASSUME NEW s \in Socks, SetConnected(s)
      PROVE  LineInv'
  <2>1. ~Settled'
    BY <1>2 DEF SetConnected, Settled
  <2>2. faults' \in Nat /\ (faults' = 0 => net' = {} /\ taken' = {})
    BY <1>2 DEF SetConnected, Fault, LineInv, LineTyped
  <2>3. LineTyped' /\ SnapshotIsExact' /\ AnsweredIsMapped'
    BY <1>2, <2>2 DEF SetConnected, listen, LineInv, LineTyped, SnapshotIsExact,
      AnsweredIsMapped, Mapped
  <2>4. ClaimsAreTrue'
    BY <2>1, <2>2 DEF ClaimsAreTrue, Claimed
  <2>5. QED
    BY <2>3, <2>4 DEF LineInv
<1>3. CASE ResetRetries \/ ResetHeartbeatState \/ ClearAuthenticated
  <2>1. UNCHANGED <<config, sock, mapping, served, at, faults, taken, net>>
    BY <1>3 DEF ResetRetries, ResetHeartbeatState, ClearAuthenticated, listen
  <2>2. ~Settled'
    BY <1>3 DEF ResetRetries, ResetHeartbeatState, ClearAuthenticated, Settled
  <2>3. QED
    BY <2>1, <2>2, NothingClaimed DEF LineInv, LineTyped, ClaimsAreTrue, Claimed
<1>4. QED
  BY <1>1, <1>2, <1>3 DEF TryReconnect

\* What the forward side receives: only a fresh response makes it claim to be
\* authenticated, and that one was a claim already.
LEMMA ForwardReceives ==
  ASSUME LineInv, NEW m \in net, OnAuthResponse(m) \/ OnEcho(m)
  PROVE  LineInv'
<1>1. /\ net' \subseteq Messages
      /\ \A k \in net' : k.fresh => k \in net
      /\ \A k \in net' : k \in net \/ k.sock = m.sock
  <2>1. net' \in After(m)
    BY DEF OnAuthResponse, OnEcho
  <2>2. QED
    BY <2>1, AfterKeeps DEF LineInv
<1>2. UNCHANGED <<config, sock, mapping, served, at, faults, connected, rc, taken>>
  BY DEF OnAuthResponse, OnEcho, HandleResponse, listen
<1>3. Settled' => Claimed
  <2>1. CASE OnEcho(m)
    BY <1>2, <2>1 DEF OnEcho, Settled, Claimed
  <2>2. CASE OnAuthResponse(m)
    BY <1>2, <2>2 DEF OnAuthResponse, HandleResponse, Read, Verified, Settled, Claimed
  <2>3. QED
    BY <2>1, <2>2
<1>4. Claimed' => Claimed
  BY <1>1, <1>3 DEF Claimed
<1>5. QED
  BY <1>1, <1>2, <1>4, NothingClaimed DEF LineInv, LineTyped, ClaimsAreTrue

\* A response that the old socket's reader handles late needs a fault.
LEMMA LateResponses ==
  ASSUME LineInv, NEW m \in taken, OnLateResponse(m)
  PROVE  LineInv'
<1>1. UNCHANGED <<config, sock, mapping, served, at, faults, net>>
  BY DEF OnLateResponse, HandleResponse, listen
<1>2. faults # 0
  BY DEF LineInv, ClaimsAreTrue
<1>3. QED
  BY <1>1, <1>2, NothingClaimed DEF LineInv, LineTyped

\* The listener's answer to a challenge: a verified one makes it trust the socket, a
\* refused one leaves a mapping alone, and the snapshot follows.
LEMMA ChallengeSteps ==
  ASSUME LineInv, NEW m \in net, OnAuthChallenge(m)
  PROVE  LineInv'
<1> DEFINE opened == [mapping EXCEPT ![m.sock] = IF @ = "none" THEN "unauth" ELSE @]
<1>1. m \in Messages /\ m.sock \in Socks
  BY DEF LineInv, LineTyped, Messages
<1>2. UNCHANGED <<config, sock, connected, auth, rc, taken, faults>>
  BY DEF OnAuthChallenge, forward
<1>3. at = Idle /\ Idle \in [stage : {"idle"}, sock : Socks] /\ at.stage = "idle"
  BY LineAssumption DEF OnAuthChallenge, Idle, At
<1>4. /\ opened \in [Socks -> {"none", "unauth", "auth"}] /\ opened[m.sock] # "none"
      /\ \A t \in Socks : t # m.sock \/ mapping[t] # "none" => opened[t] = mapping[t]
  BY <1>1 DEF LineInv, LineTyped
<1>5. SyncOpened(opened) = Mapped(opened)
  BY DEF SyncOpened, LineInv, SnapshotIsExact
<1>6. PICK n \in After(m) :
        net' = IF m.fresh /\ m.sock = sock THEN Sent(n, {Msg("response", sock, TRUE)}) ELSE n
  BY DEF OnAuthChallenge, Verified
<1>7. n \subseteq Messages /\ (\A k \in n : k.fresh => k \in net) /\ (\A k \in n : k \in net \/ k.sock = m.sock)
  BY AfterKeeps DEF LineInv
<1>8. Msg("response", sock, TRUE) \in Messages /\ Msg("response", sock, TRUE).sock = sock
  <2>1. "response" \in Types /\ sock \in Socks /\ TRUE \in BOOLEAN
    BY DEF LineInv, LineTyped, Types
  <2>2. QED
    BY <2>1, MsgIsMessage
<1>9. net' \subseteq Messages
  BY <1>6, <1>7, <1>8 DEF Sent
<1>10. faults = 0 => m.sock = sock /\ \A k \in net' : k.sock = sock
  BY <1>6, <1>7, <1>8 DEF Sent, LineInv, ClaimsAreTrue
<1>11. CASE m.fresh
  <2>1. mapping' = Replaced(opened, m.sock) /\ at' = At("answered", m.sock)
        /\ served' = SyncReplaced(opened, mapping')
    BY <1>11 DEF OnAuthChallenge, Verified
  <2>2. mapping' \in [Socks -> {"none", "unauth", "auth"}] /\ mapping'[m.sock] # "none"
    BY <1>1, <1>4, <2>1 DEF Replaced
  <2>3. LineTyped'
    BY <1>1, <1>2, <1>9, <2>1, <2>2 DEF LineInv, LineTyped, At
  <2>4. SnapshotIsExact'
    BY <1>5, <2>1 DEF SnapshotIsExact, SyncReplaced, Mapped
  <2>5. AnsweredIsMapped'
    BY <2>1, <2>2 DEF AnsweredIsMapped, At
  <2>6. m.sock = sock => Trusted'
    BY <1>1, <1>2, <1>4, <2>1 DEF Trusted, Replaced, Mapped, At
  <2>7. ClaimsAreTrue'
    BY <1>2, <1>10, <2>6 DEF LineInv, ClaimsAreTrue
  <2>8. QED
    BY <2>3, <2>4, <2>5, <2>7 DEF LineInv
<1>12. CASE ~m.fresh
  <2>1. mapping' = opened /\ served' = SyncOpened(opened) /\ UNCHANGED at
    BY <1>12 DEF OnAuthChallenge, Verified
  <2>2. LineTyped'
    BY <1>2, <1>4, <1>9, <2>1 DEF LineInv, LineTyped
  <2>3. SnapshotIsExact' /\ AnsweredIsMapped'
    BY <1>3, <1>5, <2>1 DEF SnapshotIsExact, AnsweredIsMapped, Mapped
  <2>4. Claimed' => Claimed
    BY <1>2, <1>6, <1>7, <1>12 DEF Claimed, Settled
  <2>5. faults = 0 /\ Trusted => Trusted'
    <3> SUFFICES ASSUME faults = 0, Trusted PROVE Trusted'
      OBVIOUS
    <3>1. mapping[sock] = "auth"
      BY <1>3 DEF Trusted, At
    <3>2. opened = mapping
      BY <1>4, <1>10, <3>1 DEF LineInv, LineTyped
    <3>3. QED
      BY <1>2, <2>1, <3>2 DEF Trusted, Mapped
  <2>6. ClaimsAreTrue'
    BY <1>2, <1>10, <2>4, <2>5 DEF LineInv, ClaimsAreTrue
  <2>7. QED
    BY <2>2, <2>3, <2>6 DEF LineInv
<1>13. QED
  BY <1>11, <1>12

\* The rest of the listener's goroutine.
LEMMA ListenerSteps ==
  ASSUME LineInv,
         SetAuthenticated \/ \E m \in net : OnHeartbeat(m) \/ OnData(m)
  PROVE  LineInv'
<1>1. CASE SetAuthenticated
  <2>1. at.sock \in Socks /\ mapping[at.sock] # "none" /\ at.stage = "answered"
    BY <1>1 DEF SetAuthenticated, LineInv, LineTyped, AnsweredIsMapped
  <2>2. UNCHANGED <<config, sock, connected, auth, rc, taken, served, net, faults>> /\ at' = Idle
        /\ mapping' = [mapping EXCEPT ![at.sock] = "auth"]
    BY <1>1 DEF SetAuthenticated, forward
  <2>3. Idle \in [stage : {"idle"}, sock : Socks] /\ Idle.stage = "idle"
    BY LineAssumption DEF Idle, At
  <2>4. LineTyped'
    BY <2>1, <2>2, <2>3 DEF LineInv, LineTyped
  <2>5. Mapped(mapping') = Mapped(mapping)
    BY <2>1, <2>2 DEF LineInv, LineTyped, Mapped
  <2>6. SnapshotIsExact' /\ AnsweredIsMapped'
    BY <2>2, <2>3, <2>5 DEF LineInv, SnapshotIsExact, AnsweredIsMapped
  <2>7. Trusted => Trusted'
    <3>1. Trusted => mapping'[sock] = "auth"
      BY <2>1, <2>2 DEF LineInv, LineTyped, Trusted, At
    <3>2. QED
      BY <2>2, <2>5, <3>1 DEF Trusted
  <2>8. Claimed' => Claimed
    BY <2>2 DEF Claimed, Settled
  <2>9. ClaimsAreTrue'
    BY <2>2, <2>7, <2>8 DEF LineInv, ClaimsAreTrue
  <2>10. QED
    BY <2>4, <2>6, <2>9 DEF LineInv
<1>2. ASSUME NEW m \in net, OnHeartbeat(m)
      PROVE  LineInv'
  <2>1. PICK n \in After(m) :
          net' = IF mapping[m.sock] # "none" /\ m.sock = sock THEN Sent(n, {Msg("echo", m.sock, TRUE)}) ELSE n
    BY <1>2 DEF OnHeartbeat
  <2>2. n \subseteq Messages /\ (\A k \in n : k.fresh => k \in net) /\ (\A k \in n : k \in net \/ k.sock = m.sock)
    BY AfterKeeps DEF LineInv
  <2>3. sock \in Socks /\ Msg("echo", sock, TRUE) \in Messages /\ Msg("echo", sock, TRUE).type = "echo"
        /\ Msg("echo", sock, TRUE).sock = sock
    BY MsgIsMessage DEF LineInv, LineTyped, Types
  <2>4. net' \subseteq Messages /\ \A k \in net' : k.type = "response" /\ k.fresh => k \in net
    BY <2>1, <2>2, <2>3 DEF Sent
  <2>5. faults = 0 => \A k \in net' : k.sock = sock
    BY <2>1, <2>2, <2>3 DEF Sent, LineInv, ClaimsAreTrue
  <2>6. UNCHANGED <<config, sock, connected, auth, rc, taken, mapping, served, at, faults>>
    BY <1>2 DEF OnHeartbeat, forward, listen
  <2>7. Claimed' => Claimed
    BY <2>4, <2>6 DEF Claimed, Settled
  <2>8. QED
    BY <2>4, <2>5, <2>6, <2>7, NothingClaimed DEF LineInv, LineTyped, ClaimsAreTrue
<1>3. ASSUME NEW m \in net, OnData(m)
      PROVE  LineInv'
  <2>1. m.sock \in Socks
    BY DEF LineInv, LineTyped, Messages
  <2>2. net' \subseteq Messages /\ (\A k \in net' : k.fresh => k \in net)
        /\ (\A k \in net' : k \in net \/ k.sock = m.sock)
    BY <1>3, AfterKeeps DEF OnData, LineInv
  <2>3. UNCHANGED <<config, sock, connected, auth, rc, taken, at, faults>> /\ at = Idle /\ at.stage = "idle"
    BY <1>3 DEF OnData, forward, Idle, At
  <2>4. Claimed' => Claimed
    BY <2>2, <2>3 DEF Claimed, Settled
  <2>5. faults = 0 => \A k \in net' : k.sock = sock
    BY <2>2 DEF LineInv, ClaimsAreTrue
  <2>6. CASE mapping[m.sock] # "none"
    BY <1>3, <2>2, <2>3, <2>4, <2>5, <2>6, NothingClaimed
    DEF OnData, LineInv, LineTyped, ClaimsAreTrue
  <2>7. CASE mapping[m.sock] = "none"
    <3>1. mapping' = [Replaced(mapping, m.sock) EXCEPT ![m.sock] = "auth"] /\ served' = Mapped(mapping')
      BY <1>3, <2>7 DEF OnData
    <3>2. LineTyped'
      BY <2>1, <2>2, <2>3, <3>1 DEF LineInv, LineTyped, Replaced
    <3>3. SnapshotIsExact' /\ AnsweredIsMapped'
      BY <2>3, <3>1 DEF SnapshotIsExact, AnsweredIsMapped, Mapped
    <3>4. faults = 0 => ~Trusted
      BY <2>3, <2>7 DEF LineInv, ClaimsAreTrue, Trusted, At
    <3>5. ClaimsAreTrue'
      BY <2>3, <2>4, <2>5, <3>4 DEF LineInv, ClaimsAreTrue
    <3>6. QED
      BY <3>2, <3>3, <3>5 DEF LineInv
  <2>8. QED
    BY <2>6, <2>7
<1>4. QED
  BY <1>1, <1>2, <1>3

\* Losses and delays of datagrams, and what befalls the listener's mappings.
LEMMA WorldSteps ==
  ASSUME LineInv,
         Restart \/ (\E s \in Socks : Expire(s)) \/ (\E m \in net : Lose(m) \/ Delay(m))
  PROVE  LineInv'
<1>1. CASE Restart
  <2>1. faults' # 0 /\ faults' \in Nat
    BY <1>1 DEF Restart, Fault, LineInv, LineTyped
  <2>2. ASSUME NEW m \in net
        PROVE  (IF m.type = "challenge" THEN [m EXCEPT !.fresh = TRUE] ELSE m) \in Messages
    BY DEF LineInv, LineTyped, Messages
  <2>3. net' \subseteq Messages
    BY <1>1, <2>2 DEF Restart
  <2>4. Idle \in [stage : {"idle"}, sock : Socks] /\ Idle.stage = "idle"
    BY LineAssumption DEF Idle, At
  <2>5. LineTyped'
    BY <1>1, <2>1, <2>3, <2>4 DEF Restart, LineInv, LineTyped, forward
  <2>6. SnapshotIsExact' /\ AnsweredIsMapped'
    BY <1>1, <2>4 DEF Restart, SnapshotIsExact, AnsweredIsMapped, Mapped
  <2>7. QED
    BY <2>1, <2>5, <2>6 DEF LineInv, ClaimsAreTrue
<1>2. ASSUME NEW s \in Socks, Expire(s)
      PROVE  LineInv'
  <2>1. faults' \in Nat /\ (faults' = 0 => faults = 0 /\ s # sock)
    BY <1>2 DEF Expire, Fault, LineInv, LineTyped
  <2>2. UNCHANGED <<config, sock, connected, auth, rc, taken, at, net>> /\ at = Idle /\ at.stage = "idle"
        /\ mapping' = [mapping EXCEPT ![s] = "none"] /\ served' = Mapped(mapping')
    BY <1>2 DEF Expire, forward, Idle, At
  <2>3. LineTyped'
    BY <2>1, <2>2 DEF LineInv, LineTyped
  <2>4. SnapshotIsExact' /\ AnsweredIsMapped'
    BY <2>2 DEF SnapshotIsExact, AnsweredIsMapped, Mapped
  <2>5. faults' = 0 /\ Trusted => Trusted'
    BY <2>1, <2>2 DEF Trusted, Mapped, At, LineInv, LineTyped
  <2>6. faults' = 0 => (Claimed' => Claimed)
    BY <2>1, <2>2 DEF Claimed, Settled
  <2>7. ClaimsAreTrue'
    BY <2>1, <2>2, <2>5, <2>6 DEF LineInv, ClaimsAreTrue
  <2>8. QED
    BY <2>3, <2>4, <2>7 DEF LineInv
<1>3. ASSUME NEW m \in net, Lose(m) \/ Delay(m)
      PROVE  LineInv'
  <2>1. m \in Messages
    BY DEF LineInv, LineTyped
  <2>2. net' \subseteq net \cup {[m EXCEPT !.fresh = FALSE]}
    BY <1>3 DEF Lose, Delay
  <2>3. [m EXCEPT !.fresh = FALSE] \in Messages /\ ~[m EXCEPT !.fresh = FALSE].fresh
        /\ [m EXCEPT !.fresh = FALSE].sock = m.sock
    BY <2>1 DEF Messages
  <2>4. UNCHANGED <<config, forward, listen, faults>>
    BY <1>3 DEF Lose, Delay
  <2>5. Claimed' => Claimed
    BY <2>2, <2>3, <2>4 DEF Claimed, Settled, forward
  <2>6. net' \subseteq Messages /\ (faults = 0 => \A k \in net' : k.sock = sock)
    BY <2>2, <2>3 DEF LineInv, LineTyped, ClaimsAreTrue
  <2>7. QED
    BY <2>4, <2>5, <2>6, NothingClaimed DEF LineInv, LineTyped, ClaimsAreTrue, forward, listen
<1>4. QED
  BY <1>1, <1>2, <1>3

\* The invariant is inductive.
LEMMA LineInductive == LineInv /\ [Next]_vars => LineInv'
<1> SUFFICES ASSUME LineInv, [Next]_vars PROVE LineInv'
  OBVIOUS
<1>1. CASE Next
  BY <1>1, ForwardSends, ForwardReconnects, ForwardReceives, LateResponses, ChallengeSteps,
    ListenerSteps, WorldSteps DEF Next, Receive, Tick
<1>2. CASE UNCHANGED vars
  <2>1. Claimed' => Claimed
    BY <1>2 DEF vars, forward, Claimed, Settled
  <2>2. QED
    BY <1>2, <2>1, NothingClaimed DEF vars, forward, listen, LineInv, LineTyped, ClaimsAreTrue
<1>3. QED
  BY <1>1, <1>2

\* Replies reach a forwarder that thinks it is authenticated, and with
\* replace_old_mapping no address it has given up, in whatever order mappings are
\* made, answered, replaced and expire while it reconnects (syncMapping).
THEOREM RepliesReachLine == Spec => []RepliesFollowLine
<1>1. QED
  BY LineInvIsEnough, LineInit, LineInductive, PTL DEF Spec

\* Whatever is lost, duplicated, delayed or reordered, a forwarder that thinks it is
\* authenticated on its socket has been accepted by the listener on this very socket,
\* but for tryReconnect's own steps and faults (handleAuthMessage, tryReconnect).
THEOREM BothEndsAgree == Spec => []AuthIsMutual
<1>1. QED
  BY LineInvIsEnough, LineInit, LineInductive, PTL DEF Spec

-----------------------------------------------------------------------------
(* The send side of a UDP forward connection: where packets are.           *)

\* The types that matter: of the queues, the references and the send loops.
ForwardTyped ==
  /\ f_prio \in Seq(Forward!Packets) /\ f_queue \in Seq(Forward!Packets)
  /\ f_pushing \in Forward!Packets \cup {None}
  /\ f_refs \in [Forward!Packets -> Int]
  /\ f_pc \in [Loops -> {"off", "wait", "flush", "failed", "leaving"}]
  /\ f_held \in [Loops -> SUBSET Forward!Packets]
  /\ f_out \in [Loops -> SUBSET Forward!Packets]

Queued == ToSet(f_prio) \cup ToSet(f_queue)

QueuesApart ==
  /\ Distinct(f_prio) /\ Distinct(f_queue)
  /\ ToSet(f_prio) \cap ToSet(f_queue) = {}

\* What loop l would release if it ended now.
Carried(l) == f_held[l] \cup f_out[l]

\* No packet is in two places.
PlacesApart ==
  /\ f_pushing \notin Queued
  /\ \A l \in Loops : \A p \in Carried(l) : p # f_pushing /\ p \notin Queued
  /\ \A l \in Loops : \A p \in f_held[l] : p \notin f_out[l]
  /\ \A l, m \in Loops : \A p \in Carried(l) : p \in Carried(m) => l = m

Owned(p) == p = f_pushing \/ p \in Queued \/ \E l \in Loops : p \in Carried(l)

RefsAreOwned == \A p \in Forward!Packets : f_refs[p] = IF Owned(p) THEN 1 ELSE 0

\* A loop that waits or has ended writes nothing, so what it takes next does not
\* overwrite a batch.
NothingOverwritten == \A l \in Loops : f_pc[l] \in {"off", "wait"} => f_out[l] = {}

PacketsInv ==
  ForwardTyped /\ QueuesApart /\ PlacesApart /\ RefsAreOwned /\ NothingOverwritten

\* The sets that the components' own ToSet and Cardinality denote.
LEMMA ForwardToSet == \A s : Forward!ToSet(s) = ToSet(s)
  BY DEF Forward!ToSet, ToSet

LEMMA ForwardCardinality == \A S : Forward!Cardinality(S) = Cardinality(S)
  BY DEF Forward!Cardinality, Cardinality, Forward!IsFiniteSet, IsFiniteSet

\* A connection starts with no packets.
LEMMA PacketsInit ==
  ASSUME Forward!ForwardAssumption, Forward!Init
  PROVE  PacketsInv
<1> USE DEF Forward!Init
<1>1. ForwardTyped
  <2>1. f_pc \in [Loops -> {"off", "wait", "flush", "failed", "leaving"}]
    OBVIOUS
  <2>2. QED
    BY <2>1 DEF ForwardTyped
<1>2. Queued = {}
  BY DEF Queued, ToSet
<1>3. QueuesApart
  BY DEF QueuesApart, Distinct, ToSet
<1>4. f_pushing \notin Forward!Packets
  BY DEF Forward!ForwardAssumption
<1>5. PlacesApart
  BY <1>2, <1>4 DEF PlacesApart, Carried
<1>6. RefsAreOwned
  BY <1>2, <1>4 DEF RefsAreOwned, Owned, Carried
<1>7. NothingOverwritten
  BY DEF NothingOverwritten
<1>8. QED
  BY <1>1, <1>3, <1>5, <1>6, <1>7 DEF PacketsInv

\* What one loop does with its packets and with those it takes from the queues:
\* it holds H, writes O and releases R.
Moves(l, H, O, R) ==
  /\ H \in SUBSET Forward!Packets /\ O \in SUBSET Forward!Packets
  /\ f_held' = [f_held EXCEPT ![l] = H] /\ f_out' = [f_out EXCEPT ![l] = O]
  /\ f_refs' = Forward!Released(R) /\ f_pushing' = f_pushing
  /\ Queued' \subseteq Queued
  /\ \A p \in H : p \notin O /\ p \notin R
  /\ \A p \in O : p \notin R
  /\ \A p : p \in H \cup O \cup R <=> p \in Carried(l) \/ (p \in Queued /\ p \notin Queued')

LEMMA LoopMoves ==
  ASSUME PacketsInv, ForwardTyped', NEW l \in Loops, NEW H, NEW O, NEW R, Moves(l, H, O, R)
  PROVE  PlacesApart' /\ RefsAreOwned'
<1> USE DEF PacketsInv, ForwardTyped, Moves
<1>1. /\ Carried(l)' = H \cup O
      /\ \A m \in Loops \ {l} : Carried(m)' = Carried(m)
  BY DEF Carried
<1>2. \A p \in Carried(l) \cup Queued : p # f_pushing
  BY DEF PlacesApart
<1>3. \A p \in H \cup O : p # f_pushing /\ p \notin Queued'
  BY <1>2 DEF PlacesApart
<1>4. \A m \in Loops \ {l} : \A p \in Carried(m) : p \notin H \cup O \cup R
  BY DEF PlacesApart
<1>5. PlacesApart'
  <2>1. f_pushing' \notin Queued'
    BY DEF PlacesApart
  <2>2. ASSUME NEW m \in Loops, NEW p \in Carried(m)'
        PROVE  p # f_pushing' /\ p \notin Queued'
    <3>1. CASE m = l
      BY <3>1, <1>1, <1>3
    <3>2. CASE m # l
      <4>1. p \in Carried(m)
        BY <3>2, <1>1
      <4>2. QED
        BY <4>1 DEF PlacesApart
    <3>3. QED
      BY <3>1, <3>2
  <2>3. ASSUME NEW m \in Loops, NEW p \in f_held'[m]
        PROVE  p \notin f_out'[m]
    BY DEF PlacesApart
  <2>4. ASSUME NEW m \in Loops, NEW k \in Loops, NEW p \in Carried(m)', p \in Carried(k)'
        PROVE  m = k
    <3>1. CASE m = l /\ k # l
      BY <2>4, <3>1, <1>1, <1>4
    <3>2. CASE m # l /\ k = l
      BY <2>4, <3>2, <1>1, <1>4
    <3>3. CASE m # l /\ k # l
      <4>1. p \in Carried(m) /\ p \in Carried(k)
        BY <2>4, <3>3, <1>1
      <4>2. QED
        BY <4>1 DEF PlacesApart
    <3>4. QED
      BY <3>1, <3>2, <3>3
  <2>5. QED
    BY <2>1, <2>2, <2>3, <2>4 DEF PlacesApart
<1>6. ASSUME NEW p \in Forward!Packets
      PROVE  f_refs'[p] = IF Owned(p)' THEN 1 ELSE 0
  <2>1. f_refs[p] = IF Owned(p) THEN 1 ELSE 0
    BY DEF RefsAreOwned
  <2>2. CASE p \in R
    <3>1. Owned(p) /\ f_refs'[p] = f_refs[p] - 1
      BY <2>2 DEF Owned, Forward!Released
    <3>2. p \in Carried(l) \/ (p \in Queued /\ p \notin Queued')
      BY <2>2
    <3>3. p # f_pushing' /\ p \notin Queued'
      BY <3>2, <1>2 DEF PlacesApart
    <3>4. ASSUME NEW m \in Loops
          PROVE  p \notin Carried(m)'
      <4>1. CASE m = l
        BY <4>1, <2>2, <1>1
      <4>2. CASE m # l
        BY <4>2, <2>2, <1>1, <1>4
      <4>3. QED
        BY <4>1, <4>2
    <3>5. QED
      BY <2>1, <3>1, <3>3, <3>4 DEF Owned
  <2>3. CASE p \notin R
    <3>1. f_refs'[p] = f_refs[p]
      BY <2>3 DEF Forward!Released
    <3>2. p \in H \cup O <=> p \in Carried(l) \/ (p \in Queued /\ p \notin Queued')
      BY <2>3
    <3>3. (\E m \in Loops : p \in Carried(m)')
            <=> p \in H \cup O \/ \E m \in Loops \ {l} : p \in Carried(m)
      <4>1. ASSUME NEW m \in Loops, p \in Carried(m)'
            PROVE  p \in H \cup O \/ \E k \in Loops \ {l} : p \in Carried(k)
        <5>1. CASE m = l
          BY <4>1, <5>1, <1>1
        <5>2. CASE m # l
          <6>1. m \in Loops \ {l} /\ p \in Carried(m)
            BY <4>1, <5>2, <1>1
          <6>2. QED
            BY <6>1
        <5>3. QED
          BY <5>1, <5>2
      <4>2. ASSUME p \in H \cup O
            PROVE  \E m \in Loops : p \in Carried(m)'
        BY <4>2, <1>1
      <4>3. ASSUME NEW k \in Loops \ {l}, p \in Carried(k)
            PROVE  \E m \in Loops : p \in Carried(m)'
        BY <4>3, <1>1
      <4>4. QED
        BY <4>1, <4>2, <4>3
    <3>4. p \in Queued' => p \in Queued
      OBVIOUS
    <3>5. Owned(p)' <=> Owned(p)
      BY <3>2, <3>3, <3>4 DEF Owned
    <3>6. QED
      BY <2>1, <3>1, <3>5
  <2>4. QED
    BY <2>2, <2>3
<1>7. QED
  BY <1>5, <1>6 DEF RefsAreOwned

\* Emptied queues hold nothing.
LEMMA Drained ==
  ASSUME f_prio' = <<>>, f_queue' = <<>>
  PROVE  Queued' = {} /\ QueuesApart'
  BY DEF Queued, QueuesApart, Distinct, ToSet

LEMMA QueuedAll ==
  ASSUME ForwardTyped
  PROVE  ToSet(f_prio \o f_queue) = Queued /\ Queued \subseteq Forward!Packets
<1>1. /\ Len(f_prio) \in 0 .. Len(f_prio) /\ 0 \in 0 .. Len(f_queue)
      /\ f_prio \in Seq(Forward!Packets) /\ f_queue \in Seq(Forward!Packets)
  BY DEF ForwardTyped
<1>2. ToSet(f_prio \o f_queue) = ToSet(f_prio) \cup ToSet(f_queue)
  BY <1>1, TakeFirst
<1>3. ToSet(f_prio) \subseteq Forward!Packets /\ ToSet(f_queue) \subseteq Forward!Packets
  BY <1>1, ToSetFinite
<1>4. QED
  BY <1>2, <1>3 DEF Queued

\* Packets, queues and loops that stay as they are keep what they are.
LEMMA QueuesStay ==
  ASSUME f_prio' = f_prio, f_queue' = f_queue
  PROVE  Queued' = Queued /\ (QueuesApart => QueuesApart')
  BY DEF Queued, QueuesApart, Distinct

\* Enqueue: a packet without a reference is nowhere, and its producer has it now.
LEMMA EnqueueKeeps ==
  ASSUME Forward!ForwardAssumption, PacketsInv, NEW p \in Forward!Packets, Forward!Enqueue(p)
  PROVE  PacketsInv'
<1> USE DEF PacketsInv
<1>1. /\ f_pushing = None /\ f_refs[p] = 0 /\ f_pushing' = p
      /\ f_refs' = [f_refs EXCEPT ![p] = @ + 1]
      /\ f_prio' = f_prio /\ f_queue' = f_queue
      /\ f_pc' = f_pc /\ f_held' = f_held /\ f_out' = f_out
  BY DEF Forward!Enqueue, Forward!loops
<1>2. Queued' = Queued /\ QueuesApart' /\ \A l : Carried(l)' = Carried(l)
  BY <1>1, QueuesStay DEF Carried
<1>3. ~Owned(p)
  BY <1>1 DEF RefsAreOwned
<1>4. ForwardTyped'
  BY <1>1 DEF ForwardTyped
<1>5. PlacesApart'
  <2>1. p \notin Queued /\ \A l \in Loops : p \notin Carried(l)
    BY <1>3 DEF Owned
  <2>2. QED
    BY <1>1, <1>2, <2>1 DEF PlacesApart
<1>6. RefsAreOwned'
  <2>1. f_pushing \notin Forward!Packets
    BY <1>1 DEF Forward!ForwardAssumption
  <2>2. \A k \in Forward!Packets : Owned(k)' <=> k = p \/ Owned(k)
    BY <1>1, <1>2, <2>1 DEF Owned
  <2>3. QED
    BY <1>1, <1>3, <2>2 DEF RefsAreOwned, ForwardTyped
<1>7. NothingOverwritten'
  BY <1>1 DEF NothingOverwritten
<1>8. QED
  BY <1>2, <1>4, <1>5, <1>6, <1>7

\* Push: the packet goes to one of the queues, or is released.
LEMMA PushKeeps ==
  ASSUME Forward!ForwardAssumption, PacketsInv, NEW p \in Forward!Packets, Forward!Push(p)
  PROVE  PacketsInv'
<1> USE DEF PacketsInv
<1>1. /\ f_pushing = p /\ f_pushing' = None
      /\ f_pc' = f_pc /\ f_held' = f_held /\ f_out' = f_out
      /\ \/ f_prio' = Append(f_prio, p) /\ f_queue' = f_queue /\ f_refs' = f_refs
         \/ f_prio' = f_prio /\ f_queue' = Append(f_queue, p) /\ f_refs' = f_refs
         \/ f_prio' = f_prio /\ f_queue' = f_queue /\ f_refs' = Forward!Released({p})
  BY DEF Forward!Push, Forward!loops
<1>2. /\ None \notin Forward!Packets /\ p # None
      /\ \A l : Carried(l)' = Carried(l)
      /\ p \notin Queued /\ p \notin ToSet(f_prio) /\ p \notin ToSet(f_queue)
      /\ \A l \in Loops : p \notin Carried(l)
      /\ f_prio \in Seq(Forward!Packets) /\ f_queue \in Seq(Forward!Packets)
      /\ Queued \subseteq Forward!Packets
  BY <1>1, QueuedAll DEF Forward!ForwardAssumption, PlacesApart, Carried, Queued, ForwardTyped
<1>3. NothingOverwritten'
  BY <1>1 DEF NothingOverwritten
<1>4. CASE f_refs' = f_refs /\ ~(f_prio' = f_prio /\ f_queue' = f_queue)
  <2>1. ASSUME f_prio' = Append(f_prio, p) /\ f_queue' = f_queue
        PROVE  Queued' = Queued \cup {p} /\ QueuesApart' /\ ForwardTyped'
    <3>1. /\ f_prio' \in Seq(Forward!Packets) /\ Distinct(f_prio')
          /\ ToSet(f_prio') = ToSet(f_prio) \cup {p}
      BY <1>2, <2>1, AppendDistinct DEF QueuesApart
    <3>2. Queued' = Queued \cup {p} /\ QueuesApart'
      BY <1>2, <2>1, <3>1 DEF Queued, QueuesApart
    <3>3. ForwardTyped'
      BY <1>1, <1>4, <2>1, <3>1 DEF ForwardTyped
    <3>4. QED
      BY <3>2, <3>3
  <2>2. ASSUME f_prio' = f_prio /\ f_queue' = Append(f_queue, p)
        PROVE  Queued' = Queued \cup {p} /\ QueuesApart' /\ ForwardTyped'
    <3>1. /\ f_queue' \in Seq(Forward!Packets) /\ Distinct(f_queue')
          /\ ToSet(f_queue') = ToSet(f_queue) \cup {p}
      BY <1>2, <2>2, AppendDistinct DEF QueuesApart
    <3>2. Queued' = Queued \cup {p} /\ QueuesApart'
      BY <1>2, <2>2, <3>1 DEF Queued, QueuesApart
    <3>3. ForwardTyped'
      BY <1>1, <1>4, <2>2, <3>1 DEF ForwardTyped
    <3>4. QED
      BY <3>2, <3>3
  <2>3. Queued' = Queued \cup {p} /\ QueuesApart' /\ ForwardTyped'
    BY <1>1, <1>4, <2>1, <2>2
  <2>4. PlacesApart'
    <3>1. None \notin Queued'
      BY <1>2, <2>3
    <3>2. ASSUME NEW l \in Loops, NEW k \in Carried(l)'
          PROVE  k # None /\ k \notin Queued'
      BY <1>2, <2>3 DEF PlacesApart, ForwardTyped, Carried
    <3>3. QED
      BY <1>1, <1>2, <3>1, <3>2 DEF PlacesApart
  <2>5. RefsAreOwned'
    <3>1. \A k \in Forward!Packets : Owned(k)' <=> Owned(k)
      BY <1>1, <1>2, <2>3 DEF Owned
    <3>2. QED
      BY <1>4, <3>1 DEF RefsAreOwned
  <2>6. QED
    BY <1>3, <2>3, <2>4, <2>5
<1>5. CASE f_prio' = f_prio /\ f_queue' = f_queue /\ f_refs' = Forward!Released({p})
  <2>1. Queued' = Queued /\ QueuesApart'
    BY <1>5, QueuesStay
  <2>2. ForwardTyped'
    BY <1>1, <1>5 DEF ForwardTyped, Forward!Released
  <2>3. PlacesApart'
    <3>1. None \notin Queued'
      BY <1>2, <2>1
    <3>2. ASSUME NEW l \in Loops, NEW k \in Carried(l)'
          PROVE  k # None /\ k \notin Queued'
      BY <1>2, <2>1 DEF PlacesApart, ForwardTyped, Carried
    <3>3. QED
      BY <1>1, <1>2, <3>1, <3>2 DEF PlacesApart
  <2>4. RefsAreOwned'
    <3>1. \A k \in Forward!Packets : Owned(k)' <=> k # p /\ Owned(k)
      BY <1>1, <1>2, <2>1 DEF Owned
    <3>2. Owned(p)
      BY <1>1 DEF Owned
    <3>3. \A k \in Forward!Packets : f_refs'[k] = IF k = p THEN f_refs[k] - 1 ELSE f_refs[k]
      BY <1>5 DEF Forward!Released
    <3>4. QED
      BY <3>1, <3>2, <3>3 DEF RefsAreOwned, ForwardTyped
  <2>5. QED
    BY <1>3, <2>1, <2>2, <2>3, <2>4
<1>6. QED
  <2>1. f_prio' = Append(f_prio, p) => f_prio' # f_prio
    BY <1>2
  <2>2. f_queue' = Append(f_queue, p) => f_queue' # f_queue
    BY <1>2
  <2>3. QED
    BY <1>1, <1>4, <1>5, <2>1, <2>2

\* Collect: a batch of the queued packets.
LEMMA CollectKeeps ==
  ASSUME Forward!ForwardAssumption, PacketsInv, NEW l \in Loops, Forward!Collect(l)
  PROVE  PacketsInv'
<1> USE DEF PacketsInv
<1> DEFINE a == f_prio
           b == f_queue
           all == a \o b
           n == IF Len(all) < Batch THEN Len(all) ELSE Batch
           k == IF n < Len(a) THEN n ELSE Len(a)
           m == n - k
           batch == ToSet(SubSeq(a, 1, k)) \cup ToSet(SubSeq(b, 1, m))
<1>1. /\ a \in Seq(Forward!Packets) /\ b \in Seq(Forward!Packets) /\ Batch \in Nat
      /\ Len(a) \in Nat /\ Len(b) \in Nat
  BY DEF ForwardTyped, Forward!ForwardAssumption
<1>2. /\ f_pc[l] = "wait" /\ f_pc' = [f_pc EXCEPT ![l] = "flush"]
      /\ f_out' = [f_out EXCEPT ![l] = ToSet(SubSeq(all, 1, n))]
      /\ f_prio' = SubSeq(a, k + 1, Len(a))
      /\ f_queue' = SubSeq(b, m + 1, Len(b))
      /\ f_held' = f_held /\ f_pushing' = f_pushing /\ f_refs' = f_refs
  BY ForwardToSet DEF Forward!Collect, Forward!ToFlush
<1>3. Len(all) = Len(a) + Len(b)
  BY <1>1
<1>4. k \in 0 .. Len(a) /\ m \in 0 .. Len(b) /\ n = k + m /\ (k < Len(a) => m = 0)
  BY <1>1, <1>3
<1> HIDE DEF n, k, m
<1>5. ToSet(SubSeq(all, 1, n)) = batch
  BY <1>1, <1>4, TakeFirst
<1>6. /\ f_prio' \in Seq(Forward!Packets) /\ Distinct(f_prio')
      /\ ToSet(SubSeq(a, 1, k)) \subseteq ToSet(a)
      /\ ToSet(f_prio') = ToSet(a) \ ToSet(SubSeq(a, 1, k))
  BY <1>1, <1>2, <1>4, SplitDistinct DEF QueuesApart
<1>7. /\ f_queue' \in Seq(Forward!Packets) /\ Distinct(f_queue')
      /\ ToSet(SubSeq(b, 1, m)) \subseteq ToSet(b)
      /\ ToSet(f_queue') = ToSet(b) \ ToSet(SubSeq(b, 1, m))
  BY <1>1, <1>2, <1>4, SplitDistinct DEF QueuesApart
<1>8. QueuesApart' /\ Queued' = Queued \ batch /\ batch \subseteq Queued
  BY <1>6, <1>7 DEF QueuesApart, Queued
<1> HIDE DEF batch
<1>9. batch \subseteq Forward!Packets
  BY <1>8, QueuedAll
<1>10. ForwardTyped'
  BY <1>2, <1>5, <1>6, <1>7, <1>9 DEF ForwardTyped
<1>11. NothingOverwritten'
  BY <1>2 DEF NothingOverwritten, ForwardTyped
<1>12. f_out[l] = {} /\ Carried(l) = f_held[l]
  BY <1>2 DEF NothingOverwritten, Carried
<1>13. \A p \in f_held[l] : p \notin batch
  BY <1>8 DEF PlacesApart, Carried
<1>14. f_held' = [f_held EXCEPT ![l] = f_held[l]] /\ f_held[l] \in SUBSET Forward!Packets
  BY <1>2 DEF ForwardTyped
<1>15. f_refs' = Forward!Released({})
  BY <1>2 DEF Forward!Released, ForwardTyped
<1>16. Moves(l, f_held[l], batch, {})
  BY <1>2, <1>5, <1>8, <1>9, <1>12, <1>13, <1>14, <1>15 DEF Moves
<1>17. PlacesApart' /\ RefsAreOwned'
  BY <1>10, <1>16, LoopMoves
<1>18. QED
  BY <1>8, <1>10, <1>11, <1>17

\* Shape: the shaper takes everything queued, keeps, drops and hands out.
LEMMA ShapeKeeps ==
  ASSUME PacketsInv, NEW l \in Loops, Forward!Shape(l)
  PROVE  PacketsInv'
<1> USE DEF PacketsInv
<1>1. PICK keep \in SUBSET (f_held[l] \cup Queued),
           drop \in SUBSET (f_held[l] \cup Queued) :
        /\ \A p \in drop : p \notin keep
        /\ f_held' = [f_held EXCEPT ![l] = keep]
        /\ f_refs' = Forward!Released(drop)
        /\ \/ /\ f_held[l] \cup Queued = keep \cup drop
              /\ f_pc' = [f_pc EXCEPT ![l] = "wait"] /\ f_out' = [f_out EXCEPT ![l] = {}]
           \/ /\ f_pc' = [f_pc EXCEPT ![l] = "flush"]
              /\ f_out' = [f_out EXCEPT ![l] = (f_held[l] \cup Queued) \ (keep \cup drop)]
  <2>1. Forward!ToSet(f_prio \o f_queue) = Queued
    BY QueuedAll, ForwardToSet
  <2>2. QED
    BY <2>1 DEF Forward!Shape, Forward!Wait, Forward!ToFlush
<1>2. f_pc[l] = "wait" /\ f_prio' = <<>> /\ f_queue' = <<>> /\ f_pushing' = f_pushing
  BY DEF Forward!Shape
<1>3. Queued' = {} /\ QueuesApart'
  BY <1>2, Drained
<1>4. PICK O : O = (f_held[l] \cup Queued) \ (keep \cup drop)
  OBVIOUS
<1>5. f_out' = [f_out EXCEPT ![l] = O]
  BY <1>1, <1>4
<1>6. keep \in SUBSET Forward!Packets /\ drop \in SUBSET Forward!Packets /\ O \in SUBSET Forward!Packets
  BY <1>1, <1>4, QueuedAll DEF ForwardTyped
<1>7. ForwardTyped'
  <2>1. f_refs' \in [Forward!Packets -> Int]
    BY <1>1 DEF ForwardTyped, Forward!Released
  <2>2. f_pc' \in [Loops -> {"off", "wait", "flush", "failed", "leaving"}]
    BY <1>1 DEF ForwardTyped
  <2>3. f_prio' \in Seq(Forward!Packets) /\ f_queue' \in Seq(Forward!Packets)
    BY <1>2
  <2>4. QED
    BY <1>1, <1>2, <1>5, <1>6, <2>1, <2>2, <2>3 DEF ForwardTyped
<1>8. NothingOverwritten'
  BY <1>1 DEF NothingOverwritten, ForwardTyped
<1>9. Carried(l) = f_held[l]
  BY <1>2 DEF NothingOverwritten, Carried
<1>10. \A p : p \in keep \cup O \cup drop <=> p \in Carried(l) \/ (p \in Queued /\ p \notin Queued')
  BY <1>1, <1>3, <1>4, <1>9
<1>11. Moves(l, keep, O, drop)
  BY <1>1, <1>2, <1>3, <1>4, <1>5, <1>6, <1>10 DEF Moves
<1>12. PlacesApart' /\ RefsAreOwned'
  BY <1>7, <1>11, LoopMoves
<1>13. QED
  BY <1>3, <1>7, <1>8, <1>12

\* A loop that releases what it writes, or all it has, with the queues or without.
LEMMA ReleaseKeeps ==
  ASSUME PacketsInv, NEW l \in Loops, NEW H \in SUBSET f_held[l],
         NEW R \in SUBSET Forward!Packets, NEW s \in {"off", "wait"},
         f_pc' = [f_pc EXCEPT ![l] = s], f_held' = [f_held EXCEPT ![l] = H],
         f_out' = [f_out EXCEPT ![l] = {}], f_refs' = Forward!Released(R),
         f_pushing' = f_pushing,
         \/ f_prio' = f_prio /\ f_queue' = f_queue /\ R = Carried(l) \ H
         \/ f_prio' = <<>> /\ f_queue' = <<>> /\ R = (Carried(l) \ H) \cup Queued
  PROVE  PacketsInv'
<1> USE DEF PacketsInv
<1>1. Queued' \subseteq Queued /\ QueuesApart' /\ R = (Carried(l) \ H) \cup (Queued \ Queued')
  <2>1. CASE f_prio' = f_prio /\ f_queue' = f_queue /\ R = Carried(l) \ H
    BY <2>1, QueuesStay
  <2>2. CASE f_prio' = <<>> /\ f_queue' = <<>> /\ R = (Carried(l) \ H) \cup Queued
    BY <2>2, Drained
  <2>3. QED
    BY <2>1, <2>2
<1>2. ForwardTyped'
  <2>1. f_refs' \in [Forward!Packets -> Int]
    <3>1. f_refs' = Forward!Released(R) /\ f_refs \in [Forward!Packets -> Int]
      BY DEF ForwardTyped
    <3>2. QED
      BY <3>1 DEF Forward!Released
  <2>2. f_prio' \in Seq(Forward!Packets) /\ f_queue' \in Seq(Forward!Packets)
    <3>1. /\ f_prio \in Seq(Forward!Packets) /\ f_queue \in Seq(Forward!Packets)
          /\ <<>> \in Seq(Forward!Packets)
      BY DEF ForwardTyped
    <3>2. QED
      BY <3>1
  <2>3. f_pc' \in [Loops -> {"off", "wait", "flush", "failed", "leaving"}]
    BY DEF ForwardTyped
  <2>4. f_held' \in [Loops -> SUBSET Forward!Packets] /\ f_out' \in [Loops -> SUBSET Forward!Packets]
    <3>1. H \in SUBSET Forward!Packets /\ {} \in SUBSET Forward!Packets
      BY DEF ForwardTyped
    <3>2. QED
      BY <3>1 DEF ForwardTyped
  <2>5. f_pushing' \in Forward!Packets \cup {None}
    BY DEF ForwardTyped
  <2>6. QED
    BY <2>1, <2>2, <2>3, <2>4, <2>5 DEF ForwardTyped
<1>3. NothingOverwritten'
  BY DEF NothingOverwritten, ForwardTyped
<1>4. H \subseteq Carried(l) /\ H \in SUBSET Forward!Packets
  BY DEF Carried, ForwardTyped
<1>5. \A p \in H : p \notin R
  BY <1>1, <1>4 DEF PlacesApart
<1>6. Moves(l, H, {}, R)
  BY <1>1, <1>4, <1>5 DEF Moves
<1>7. PlacesApart' /\ RefsAreOwned'
  BY <1>2, <1>6, LoopMoves
<1>8. QED
  BY <1>1, <1>2, <1>3, <1>7

\* The other steps leave packets and loops alone.
LEMMA OthersKeep ==
  ASSUME PacketsInv, UNCHANGED <<f_prio, f_queue, f_pushing, f_refs, f_pc, f_held, f_out>>
  PROVE  PacketsInv'
<1>1. Queued' = Queued /\ \A l : Carried(l)' = Carried(l)
  BY DEF Queued, Carried
<1>2. \A p : Owned(p)' = Owned(p)
  BY <1>1 DEF Owned
<1>3. ForwardTyped' /\ QueuesApart' /\ NothingOverwritten'
  BY DEF PacketsInv, ForwardTyped, QueuesApart, Distinct, NothingOverwritten
<1>4. PlacesApart'
  BY <1>1 DEF PacketsInv, PlacesApart
<1>5. RefsAreOwned'
  BY <1>2 DEF PacketsInv, RefsAreOwned
<1>6. QED
  BY <1>3, <1>4, <1>5 DEF PacketsInv

\* What a send loop does.
LEMMA LoopKeepsPackets ==
  ASSUME Forward!ForwardAssumption, PacketsInv, NEW l \in Loops, Forward!LoopNext(l)
  PROVE  PacketsInv'
<1>1. f_held[l] \subseteq Forward!Packets /\ f_out[l] \subseteq Forward!Packets
  BY DEF PacketsInv, ForwardTyped
<1>2. f_held' = f_held => f_held' = [f_held EXCEPT ![l] = f_held[l]]
  BY DEF PacketsInv, ForwardTyped
<1>3. \A p \in f_held[l] : p \notin f_out[l]
  BY DEF PacketsInv, PlacesApart
<1>4. Forward!ToSet(f_prio \o f_queue) = Queued /\ Queued \subseteq Forward!Packets
  BY QueuedAll, ForwardToSet DEF PacketsInv
<1>5. CASE Forward!Collect(l)
  BY <1>5, CollectKeeps
<1>6. CASE Forward!Shape(l)
  BY <1>6, ShapeKeeps
<1>7. CASE Forward!Written(l)
  <2>1. Carried(l) \ f_held[l] = f_out[l]
    BY <1>3 DEF Carried
  <2>2. PICK H, R : H = f_held[l] /\ R = f_out[l]
    OBVIOUS
  <2>3. /\ f_pc' = [f_pc EXCEPT ![l] = "wait"] /\ f_held' = [f_held EXCEPT ![l] = H]
        /\ f_out' = [f_out EXCEPT ![l] = {}] /\ f_refs' = Forward!Released(R)
        /\ f_pushing' = f_pushing /\ f_prio' = f_prio /\ f_queue' = f_queue
        /\ R = Carried(l) \ H
    BY <1>2, <1>7, <2>1, <2>2 DEF Forward!Written, Forward!Wait
  <2>4. H \in SUBSET f_held[l] /\ R \in SUBSET Forward!Packets
    BY <1>1, <2>2
  <2>5. QED
    BY <2>3, <2>4, ReleaseKeeps
<1>8. CASE Forward!WriteFails(l) \/ Forward!GiveUp(l)
  <2>1. /\ UNCHANGED <<f_prio, f_queue, f_pushing, f_refs, f_held, f_out>>
        /\ \E s \in {"failed", "leaving"} : f_pc' = [f_pc EXCEPT ![l] = s]
    BY <1>8 DEF Forward!WriteFails, Forward!GiveUp, Forward!packets
  <2>2. Queued' = Queued /\ \A k : Carried(k)' = Carried(k)
    BY <2>1 DEF Queued, Carried
  <2>3. \A p : Owned(p)' = Owned(p)
    BY <2>1, <2>2 DEF Owned
  <2>4. ForwardTyped' /\ QueuesApart' /\ NothingOverwritten'
    BY <2>1 DEF PacketsInv, ForwardTyped, QueuesApart, Distinct, NothingOverwritten
  <2>5. PlacesApart' /\ RefsAreOwned'
    BY <2>1, <2>2, <2>3 DEF PacketsInv, PlacesApart, RefsAreOwned
  <2>6. QED
    BY <2>4, <2>5 DEF PacketsInv
<1>9. CASE Forward!Leave(l)
  <2>1. PICK R : R = f_out[l] \cup f_held[l]
    OBVIOUS
  <2>2. /\ f_pc' = [f_pc EXCEPT ![l] = "off"] /\ f_held' = [f_held EXCEPT ![l] = {}]
        /\ f_out' = [f_out EXCEPT ![l] = {}] /\ f_refs' = Forward!Released(R)
        /\ f_pushing' = f_pushing /\ f_prio' = f_prio /\ f_queue' = f_queue
        /\ R = Carried(l) \ {}
    BY <1>9, <2>1 DEF Forward!Leave, Forward!End, Carried
  <2>3. {} \in SUBSET f_held[l] /\ R \in SUBSET Forward!Packets
    BY <1>1, <2>1
  <2>4. QED
    BY <2>2, <2>3, ReleaseKeeps
<1>10. CASE Forward!Quit(l)
  <2>1. PICK R : R = Queued \cup f_held[l]
    OBVIOUS
  <2>2. f_out[l] = {}
    BY <1>10 DEF Forward!Quit, PacketsInv, NothingOverwritten
  <2>3. /\ f_pc' = [f_pc EXCEPT ![l] = "off"] /\ f_held' = [f_held EXCEPT ![l] = {}]
        /\ f_out' = [f_out EXCEPT ![l] = {}] /\ f_refs' = Forward!Released(R)
        /\ f_pushing' = f_pushing /\ f_prio' = <<>> /\ f_queue' = <<>>
        /\ R = (Carried(l) \ {}) \cup Queued
    BY <1>4, <1>10, <2>1, <2>2 DEF Forward!Quit, Forward!End, Carried
  <2>4. {} \in SUBSET f_held[l] /\ R \in SUBSET Forward!Packets
    BY <1>1, <1>4, <2>1
  <2>5. QED
    BY <2>3, <2>4, ReleaseKeeps
<1>11. QED
  BY <1>5, <1>6, <1>7, <1>8, <1>9, <1>10 DEF Forward!LoopNext

\* tryReconnect drains the queues before it starts a loop.
LEMMA StartKeepsPackets ==
  ASSUME PacketsInv, NEW l \in Loops, Forward!ReconnectStarts(l)
  PROVE  PacketsInv'
<1>1. Forward!ToSet(f_prio \o f_queue) = Queued /\ Queued \subseteq Forward!Packets
  BY QueuedAll, ForwardToSet DEF PacketsInv
<1>2. /\ f_pc[l] = "off" /\ f_pc' = [f_pc EXCEPT ![l] = "wait"]
      /\ f_held' = f_held /\ f_out' = f_out /\ f_pushing' = f_pushing
      /\ f_prio' = <<>> /\ f_queue' = <<>> /\ f_refs' = Forward!Released(Queued)
  BY <1>1 DEF Forward!ReconnectStarts, Forward!IsNew
<1>3. f_out[l] = {}
  BY <1>2 DEF PacketsInv, NothingOverwritten
<1>4. f_held' = [f_held EXCEPT ![l] = f_held[l]] /\ f_out' = [f_out EXCEPT ![l] = {}]
  BY <1>2, <1>3 DEF PacketsInv, ForwardTyped
<1>5. Queued = (Carried(l) \ f_held[l]) \cup Queued
  BY <1>3 DEF Carried
<1>6. PICK H, R : H = f_held[l] /\ R = Queued
  OBVIOUS
<1>7. /\ f_pc' = [f_pc EXCEPT ![l] = "wait"] /\ f_held' = [f_held EXCEPT ![l] = H]
      /\ f_out' = [f_out EXCEPT ![l] = {}] /\ f_refs' = Forward!Released(R)
      /\ f_pushing' = f_pushing /\ f_prio' = <<>> /\ f_queue' = <<>>
      /\ R = (Carried(l) \ H) \cup Queued
  BY <1>2, <1>4, <1>5, <1>6
<1>8. H \in SUBSET f_held[l] /\ R \in SUBSET Forward!Packets
  BY <1>1, <1>6
<1>9. QED
  BY <1>7, <1>8, ReleaseKeeps

\* The inductive step.
LEMMA PacketsStep ==
  ASSUME Forward!ForwardAssumption, PacketsInv, [Forward!Next]_(Forward!vars)
  PROVE  PacketsInv'
<1>1. CASE UNCHANGED Forward!vars
  BY <1>1, OthersKeep DEF Forward!vars, Forward!packets, Forward!loops
<1>2. CASE \E p \in Forward!Packets : Forward!Enqueue(p) \/ Forward!Push(p)
  BY <1>2, EnqueueKeeps, PushKeeps
<1>3. CASE \E l \in Loops : Forward!LoopNext(l)
  BY <1>3, LoopKeepsPackets
<1>4. CASE \E l \in Loops : Forward!ReconnectStarts(l)
  BY <1>4, StartKeepsPackets
<1>5. CASE \/ Forward!Disconnect \/ Forward!DisconnectCloses \/ Forward!CheckFindsDown
           \/ Forward!ReconnectReturns \/ Forward!ReconnectCloses \/ Forward!DialFails
           \/ (\E s \in Conns : Forward!DialSucceeds(s))
           \/ Forward!ReconnectSignals \/ Forward!ReconnectClears
           \/ (\E ch \in Chans : Forward!ReconnectMakes(ch))
           \/ Forward!Stop \/ Forward!StopCloses \/ Forward!StopSignals
  <2>1. UNCHANGED <<f_prio, f_queue, f_pushing, f_refs, f_pc, f_held, f_out>>
    BY <1>5 DEF Forward!Disconnect, Forward!DisconnectCloses, Forward!CheckFindsDown,
         Forward!ReconnectReturns, Forward!ReconnectCloses, Forward!DialFails,
         Forward!DialSucceeds, Forward!ReconnectSignals, Forward!ReconnectClears,
         Forward!ReconnectMakes, Forward!Stop, Forward!StopCloses, Forward!StopSignals,
         Forward!packets, Forward!loops
  <2>2. QED
    BY <2>1, OthersKeep
<1>6. QED
  BY <1>1, <1>2, <1>3, <1>4, <1>5 DEF Forward!Next, Forward!ReconnectNext

\* At most one index, and one loop, has the packet, so Places counts up to one.
LEMMA PlacesCount ==
  ASSUME Forward!ForwardAssumption, PacketsInv, NEW p \in Forward!Packets
  PROVE  Forward!Places(p) = IF Owned(p) THEN 1 ELSE 0
<1> DEFINE one(b) == IF b THEN 1 ELSE 0
           A == {i \in DOMAIN f_prio : f_prio[i] = p}
           B == {i \in DOMAIN f_queue : f_queue[i] = p}
           H == {l \in Loops : p \in f_held[l]}
           O == {l \in Loops : p \in f_out[l]}
<1> USE DEF PacketsInv
<1>1. ASSUME NEW S, \A x, y \in S : x = y
      PROVE  Forward!Cardinality(S) = one(S # {})
  <2>1. CASE S = {}
    BY <2>1, FS_EmptySet, ForwardCardinality
  <2>2. CASE S # {}
    <3>1. PICK x : x \in S
      BY <2>2
    <3>2. S = {x}
      BY <1>1, <3>1
    <3>3. Cardinality({x}) = 1
      BY FS_Singleton
    <3>4. QED
      BY <2>2, <3>2, <3>3, ForwardCardinality
  <2>3. QED
    BY <2>1, <2>2
<1>2. /\ DOMAIN f_prio = 1 .. Len(f_prio) /\ DOMAIN f_queue = 1 .. Len(f_queue)
  BY DEF ForwardTyped
<1>3. Forward!Cardinality(A) = one(p \in ToSet(f_prio))
  <2>1. \A x, y \in A : x = y
    BY <1>2 DEF QueuesApart, Distinct
  <2>2. A # {} <=> p \in ToSet(f_prio)
    BY DEF ToSet
  <2>3. QED
    BY <1>1, <2>1, <2>2
<1>4. Forward!Cardinality(B) = one(p \in ToSet(f_queue))
  <2>1. \A x, y \in B : x = y
    BY <1>2 DEF QueuesApart, Distinct
  <2>2. B # {} <=> p \in ToSet(f_queue)
    BY DEF ToSet
  <2>3. QED
    BY <1>1, <2>1, <2>2
<1>5. Forward!Cardinality(H) = one(H # {})
  <2>1. \A x, y \in H : x = y
    BY DEF PlacesApart, Carried
  <2>2. QED
    BY <1>1, <2>1
<1>6. Forward!Cardinality(O) = one(O # {})
  <2>1. \A x, y \in O : x = y
    BY DEF PlacesApart, Carried
  <2>2. QED
    BY <1>1, <2>1
<1>7. /\ p = f_pushing => p \notin ToSet(f_prio) /\ p \notin ToSet(f_queue) /\ H = {} /\ O = {}
      /\ p \in ToSet(f_prio) => p \notin ToSet(f_queue) /\ H = {} /\ O = {}
      /\ p \in ToSet(f_queue) => H = {} /\ O = {}
      /\ H # {} => O = {}
  <2>1. \A l \in Loops : p \in Carried(l) => p # f_pushing /\ p \notin Queued
    BY DEF PlacesApart
  <2>2. \A l \in Loops : p \in f_held[l] \/ p \in f_out[l] => p \in Carried(l)
    BY DEF Carried
  <2>3. p = f_pushing => p \notin Queued
    BY DEF PlacesApart
  <2>4. p \in ToSet(f_prio) => p \notin ToSet(f_queue)
    BY DEF QueuesApart
  <2>5. H # {} => O = {}
    BY <2>2 DEF PlacesApart
  <2>6. QED
    BY <2>1, <2>2, <2>3, <2>4, <2>5 DEF Queued
<1>8. Owned(p) <=> p = f_pushing \/ p \in ToSet(f_prio) \/ p \in ToSet(f_queue) \/ H # {} \/ O # {}
  BY DEF Owned, Queued, Carried
<1>9. Forward!Places(p) = one(p = f_pushing) + one(p \in ToSet(f_prio))
                            + one(p \in ToSet(f_queue)) + one(H # {}) + one(O # {})
  BY <1>3, <1>4, <1>5, <1>6 DEF Forward!Places
<1>10. QED
  BY <1>7, <1>8, <1>9

\* Each packet that a UDP forward connection owns is in one place and is released
\* once, whichever loop, drain or failed write has it (drainForwardQueue, flush,
\* tryReconnect).
THEOREM ForwardPacketsOnce ==
  Forward!Spec => []RefsHeldOnce
<1>1. Forward!ForwardAssumption
  BY PartsAssumption
<1>2. Forward!Init => PacketsInv
  BY <1>1, PacketsInit
<1>3. PacketsInv /\ [Forward!Next]_(Forward!vars) => PacketsInv'
  BY <1>1, PacketsStep
<1>4. PacketsInv => RefsHeldOnce
  <2>1. ASSUME PacketsInv, NEW p \in Forward!Packets
        PROVE  f_refs[p] = Forward!Places(p) /\ f_refs[p] <= 1
    <3>1. f_refs[p] = IF Owned(p) THEN 1 ELSE 0
      BY <2>1 DEF PacketsInv, RefsAreOwned
    <3>2. Forward!Places(p) = IF Owned(p) THEN 1 ELSE 0
      BY <1>1, <2>1, PlacesCount
    <3>3. QED
      BY <3>1, <3>2
  <2>2. QED
    BY <2>1 DEF RefsHeldOnce, Forward!RefsHeldOnce
<1>5. QED
  BY <1>2, <1>3, <1>4, PTL DEF Forward!Spec

-----------------------------------------------------------------------------
(* The send side of a UDP forward connection: its send loops.              *)

\* A reconnect leaves a channel that is open, however it interleaves with Stop, and
\* the connection has no socket while it dials.
ReconnectInv ==
  /\ f_pc \in [Loops -> {"off", "wait", "flush", "failed", "leaving"}]
  /\ DOMAIN f_watch = Loops
  /\ f_rc \in {"off", "dial", "signal", "clear", "make", "start"}
  /\ f_rc \in {"off", "dial", "signal", "start"} /\ ~Forward!Stopped => f_closeCh \notin f_closedChs
  /\ f_rc = "dial" => f_sock = None

\* Loop l will look at the queues.
Alive(l) == f_pc[l] \notin {"off", "leaving"} /\ ~(f_pc[l] = "wait" /\ f_watch[l] \in f_closedChs)

LoopsInv == ReconnectInv /\ SendLoopAlive

\* setupForwarder starts the first loop.
LEMMA LoopsInit ==
  ASSUME Forward!ForwardAssumption, Forward!Init
  PROVE  LoopsInv
<1>1. PICK l \in Loops : l = CHOOSE x \in Loops : TRUE
  BY DEF Forward!ForwardAssumption
<1>2. f_pc[l] = "wait"
  BY <1>1 DEF Forward!Init, Forward!IsNew
<1>3. ReconnectInv
  BY DEF Forward!Init, ReconnectInv
<1>4. Alive(l)
  BY <1>2 DEF Forward!Init, Alive
<1>5. QED
  BY <1>3, <1>4 DEF LoopsInv, SendLoopAlive, Forward!SendLoopAlive, Alive

\* A loop that does not end stays alive, and one that gives up has marked the
\* connection first.
LEMMA LoopKeepsLoops ==
  ASSUME LoopsInv, NEW l \in Loops, Forward!LoopNext(l), ~f_crashed
  PROVE  LoopsInv'
<1> USE DEF LoopsInv
<1>1. /\ f_closedChs' = f_closedChs /\ f_closeCh' = f_closeCh /\ f_rc' = f_rc
      /\ f_stopping' = f_stopping /\ f_crashed' = f_crashed /\ f_sock' = f_sock
  BY DEF Forward!LoopNext, Forward!Collect, Forward!Shape, Forward!Written, Forward!WriteFails,
         Forward!GiveUp, Forward!Leave, Forward!Quit, Forward!MarkDown, Forward!CloseCurrent,
         Forward!closing, Forward!socket
<1>2. \/ f_pc' = [f_pc EXCEPT ![l] = "wait"] /\ f_watch' = [f_watch EXCEPT ![l] = f_closeCh]
         /\ f_up' = f_up
      \/ (\E s \in {"flush", "failed"} : f_pc' = [f_pc EXCEPT ![l] = s])
         /\ (\A k \in Loops \ {l} : f_watch'[k] = f_watch[k]) /\ DOMAIN f_watch' = Loops
         /\ f_up' = f_up
      \/ f_pc' = [f_pc EXCEPT ![l] = "leaving"] /\ f_watch' = f_watch /\ f_up' = FALSE
      \/ f_pc' = [f_pc EXCEPT ![l] = "off"] /\ f_watch' = [f_watch EXCEPT ![l] = None]
         /\ f_up' = f_up /\ (Forward!Stopped \/ ~Alive(l))
  <2>1. CASE Forward!Collect(l) \/ Forward!Shape(l)
    BY <2>1 DEF Forward!Collect, Forward!Shape, Forward!socket, Forward!Wait, Forward!ToFlush,
         ReconnectInv
  <2>2. CASE Forward!Written(l) \/ Forward!WriteFails(l)
    BY <2>2 DEF Forward!Written, Forward!WriteFails, Forward!socket, Forward!Wait, ReconnectInv
  <2>3. CASE Forward!GiveUp(l) \/ Forward!Leave(l)
    BY <2>3 DEF Forward!GiveUp, Forward!Leave, Forward!End, Forward!MarkDown,
         Forward!CloseCurrent, Alive
  <2>4. CASE Forward!Quit(l)
    BY <2>4 DEF Forward!Quit, Forward!End, Forward!socket, Alive
  <2>5. QED
    BY <2>1, <2>2, <2>3, <2>4 DEF Forward!LoopNext
<1>3. Forward!Stopped' = Forward!Stopped
  BY <1>1 DEF Forward!Stopped
<1>4. ReconnectInv'
  BY <1>1, <1>2, <1>3 DEF ReconnectInv
<1>5. SendLoopAlive'
  <2>1. SUFFICES ASSUME f_up', f_sock # None, f_rc = "off", ~Forward!Stopped
                 PROVE  \E k \in Loops : Alive(k)'
    BY <1>1, <1>3 DEF SendLoopAlive, Forward!SendLoopAlive, Forward!IsConnected, Alive
  <2>2. f_closeCh \notin f_closedChs
    BY <2>1 DEF ReconnectInv
  <2>3. CASE f_up' = f_up
    <3>1. PICK k \in Loops : Alive(k)
      BY <2>1, <2>3 DEF SendLoopAlive, Forward!SendLoopAlive, Forward!IsConnected, Alive
    <3>2. CASE f_pc' = [f_pc EXCEPT ![l] = "wait"] /\ f_watch' = [f_watch EXCEPT ![l] = f_closeCh]
      <4>1. Alive(l)'
        BY <1>1, <2>2, <3>2 DEF Alive, ReconnectInv
      <4>2. QED
        BY <4>1
    <3>3. CASE \E s \in {"flush", "failed"} : f_pc' = [f_pc EXCEPT ![l] = s]
      <4>1. Alive(l)'
        BY <3>3 DEF Alive, ReconnectInv
      <4>2. QED
        BY <4>1
    <3>4. CASE f_pc' = [f_pc EXCEPT ![l] = "off"] /\ f_watch' = [f_watch EXCEPT ![l] = None] /\ ~Alive(l)
      <4>1. k # l
        BY <3>1, <3>4
      <4>2. Alive(k)'
        BY <1>1, <3>1, <3>4, <4>1 DEF Alive, ReconnectInv
      <4>3. QED
        BY <4>2
    <3>5. QED
      BY <1>2, <2>1, <3>2, <3>3, <3>4
  <2>4. CASE f_up' = FALSE
    BY <2>1, <2>4
  <2>5. QED
    BY <1>2, <2>3, <2>4
<1>6. QED
  BY <1>4, <1>5

\* The steps of a reconnect; the last one starts a loop that waits for the new channel.
LEMMA ReconnectKeepsLoops ==
  ASSUME Forward!ForwardAssumption, LoopsInv, Forward!ReconnectNext
  PROVE  LoopsInv'
<1> USE DEF LoopsInv
<1>9. CASE Forward!CheckFindsDown \/ Forward!ReconnectReturns
  <2>1. UNCHANGED <<f_pc, f_watch, f_rc, f_stopping, f_closeCh, f_closedChs, f_crashed, f_sock, f_up>>
    BY <1>9 DEF Forward!CheckFindsDown, Forward!ReconnectReturns, Forward!socket,
         Forward!closing, Forward!loops
  <2>2. QED
    BY <2>1 DEF ReconnectInv, SendLoopAlive, Forward!SendLoopAlive, Forward!Stopped,
         Forward!IsConnected
<1>1. CASE Forward!ReconnectCloses
  <2>1. f_rc' = "dial" /\ f_sock' = None /\ UNCHANGED <<f_pc, f_watch, f_stopping, f_closeCh, f_closedChs>>
    BY <1>1 DEF Forward!ReconnectCloses, Forward!CloseSocket, Forward!closing, Forward!loops
  <2>2. f_rc = "off"
    BY <1>1 DEF Forward!ReconnectCloses
  <2>3. QED
    BY <2>1, <2>2 DEF ReconnectInv, SendLoopAlive, Forward!SendLoopAlive, Forward!Stopped
<1>2. CASE Forward!DialFails
  <2>1. f_rc = "dial" /\ f_rc' = "off"
        /\ UNCHANGED <<f_pc, f_watch, f_stopping, f_closeCh, f_closedChs, f_sock>>
    BY <1>2 DEF Forward!DialFails, Forward!closing, Forward!loops, Forward!socket
  <2>2. QED
    BY <2>1 DEF ReconnectInv, SendLoopAlive, Forward!SendLoopAlive, Forward!Stopped, Forward!IsConnected
<1>3. CASE \E s \in Conns : Forward!DialSucceeds(s)
  <2>1. f_rc = "dial" /\ f_rc' = "signal"
        /\ UNCHANGED <<f_pc, f_watch, f_stopping, f_closeCh, f_closedChs>>
    BY <1>3 DEF Forward!DialSucceeds, Forward!closing, Forward!loops
  <2>2. QED
    BY <2>1 DEF ReconnectInv, SendLoopAlive, Forward!SendLoopAlive, Forward!Stopped
<1>4. CASE Forward!ReconnectSignals
  <2>1. f_rc' = "clear" /\ UNCHANGED <<f_pc, f_watch>>
    BY <1>4 DEF Forward!ReconnectSignals, Forward!loops
  <2>2. QED
    BY <2>1 DEF ReconnectInv, SendLoopAlive, Forward!SendLoopAlive
<1>5. CASE Forward!ReconnectClears
  <2>1. f_rc' = "make" /\ UNCHANGED <<f_pc, f_watch>>
    BY <1>5 DEF Forward!ReconnectClears, Forward!loops
  <2>2. QED
    BY <2>1 DEF ReconnectInv, SendLoopAlive, Forward!SendLoopAlive
<1>6. CASE \E ch \in Chans : Forward!ReconnectMakes(ch)
  <2>1. PICK ch \in Chans : Forward!ReconnectMakes(ch)
    BY <1>6
  <2>2. /\ f_rc' = "start" /\ UNCHANGED <<f_pc, f_watch>>
        /\ f_closeCh' = ch /\ f_closedChs' = f_closedChs \ {ch}
    BY <2>1 DEF Forward!ReconnectMakes, Forward!loops
  <2>3. QED
    BY <2>2 DEF ReconnectInv, SendLoopAlive, Forward!SendLoopAlive
<1>7. CASE \E l \in Loops : Forward!ReconnectStarts(l)
  <2>1. PICK l \in Loops : Forward!ReconnectStarts(l)
    BY <1>7
  <2>2. /\ f_rc = "start" /\ f_rc' = "off"
        /\ f_pc' = [f_pc EXCEPT ![l] = "wait"] /\ f_watch' = [f_watch EXCEPT ![l] = f_closeCh]
        /\ UNCHANGED <<f_stopping, f_closeCh, f_closedChs, f_sock, f_up, f_crashed>>
    BY <2>1 DEF Forward!ReconnectStarts, Forward!closing, Forward!socket
  <2>3. ReconnectInv'
    BY <2>2 DEF ReconnectInv, Forward!Stopped
  <2>4. ~Forward!Stopped' => Alive(l)'
    BY <2>2 DEF ReconnectInv, Alive, Forward!Stopped
  <2>5. SendLoopAlive'
    BY <2>4 DEF SendLoopAlive, Forward!SendLoopAlive, Alive
  <2>6. QED
    BY <2>3, <2>5
<1>8. QED
  BY <1>1, <1>2, <1>3, <1>4, <1>5, <1>6, <1>7, <1>9 DEF Forward!ReconnectNext

\* The inductive step.
LEMMA LoopsStep ==
  ASSUME Forward!ForwardAssumption, LoopsInv, [Forward!Next]_(Forward!vars)
  PROVE  LoopsInv'
<1> USE DEF LoopsInv
<1>1. CASE \/ \E p \in Forward!Packets : Forward!Enqueue(p) \/ Forward!Push(p)
           \/ UNCHANGED Forward!vars
  <2>1. UNCHANGED <<f_pc, f_watch, f_rc, f_stopping, f_closeCh, f_closedChs, f_crashed, f_sock, f_up>>
    BY <1>1 DEF Forward!Enqueue, Forward!Push, Forward!vars, Forward!socket, Forward!closing,
         Forward!loops
  <2>2. QED
    BY <2>1 DEF ReconnectInv, SendLoopAlive, Forward!SendLoopAlive, Forward!Stopped,
         Forward!IsConnected
<1>2. CASE ~f_crashed /\ \E l \in Loops : Forward!LoopNext(l)
  BY <1>2, LoopKeepsLoops
<1>3. CASE Forward!ReconnectNext
  BY <1>3, ReconnectKeepsLoops
<1>4. CASE Forward!Disconnect \/ Forward!DisconnectCloses
  <2>1. /\ f_up' = FALSE \/ f_up' = f_up
        /\ UNCHANGED <<f_pc, f_watch, f_rc, f_stopping, f_closeCh, f_closedChs, f_crashed, f_sock>>
    BY <1>4 DEF Forward!Disconnect, Forward!DisconnectCloses, Forward!MarkDown,
         Forward!CloseCurrent, Forward!closing, Forward!loops
  <2>2. QED
    BY <2>1 DEF ReconnectInv, SendLoopAlive, Forward!SendLoopAlive, Forward!Stopped,
         Forward!IsConnected
<1>5. CASE Forward!Stop \/ Forward!StopCloses \/ Forward!StopSignals
  <2>1. Forward!Stopped' /\ UNCHANGED <<f_pc, f_watch, f_rc>>
    BY <1>5 DEF Forward!Stop, Forward!StopCloses, Forward!StopSignals, Forward!Stopped, Forward!loops
  <2>2. f_sock' = f_sock \/ f_sock' = None
    BY <1>5 DEF Forward!Stop, Forward!StopCloses, Forward!StopSignals, Forward!CloseSocket,
         Forward!socket
  <2>3. QED
    BY <2>1, <2>2 DEF ReconnectInv, SendLoopAlive, Forward!SendLoopAlive
<1>6. QED
  BY <1>1, <1>2, <1>3, <1>4, <1>5 DEF Forward!Next

\* A connected UDP forwarder that is not stopped has a send loop that will look at
\* its queue, although the loops of earlier connections end in any order (tryReconnect,
\* forwardConnSendLoop).
THEOREM ForwardLoopAlive ==
  Forward!Spec => []SendLoopAlive
<1>1. Forward!ForwardAssumption
  BY PartsAssumption
<1>2. Forward!Init => LoopsInv
  BY <1>1, LoopsInit
<1>3. LoopsInv /\ [Forward!Next]_(Forward!vars) => LoopsInv'
  BY <1>1, LoopsStep
<1>4. LoopsInv => SendLoopAlive
  BY DEF LoopsInv
<1>5. QED
  BY <1>2, <1>3, <1>4, PTL DEF Forward!Spec

-----------------------------------------------------------------------------
(* The sending half of a UDP listener.                                     *)

\* What may wait to be sent: a queued packet for a client, or a client's probe.
AllJobs == Send!Jobs \cup ({Probe} \X Clients)

\* The types that matter: of the channels, the shapers, what is written and the counts.
SendTyped ==
  /\ q_prio \in Seq(Send!Jobs) /\ q_queue \in Seq(Send!Jobs)
  /\ q_pushing \in Send!Jobs \cup {None}
  /\ q_held \subseteq AllJobs /\ IsFiniteSet(q_held)
  /\ q_out \subseteq AllJobs /\ IsFiniteSet(q_out)
  /\ q_refs \in [Replies -> Int] /\ q_probes \in [Clients -> Int]
  /\ q_pc # "write" => q_out = {}

JobsQueued == ToSet(q_prio) \cup ToSet(q_queue)

\* Jobs that own a reference.
Owners == q_held \cup q_out \cup JobsQueued \cup ({q_pushing} \ {None})

\* No job is in two places.
JobsApart ==
  /\ Distinct(q_prio) /\ Distinct(q_queue) /\ ToSet(q_prio) \cap ToSet(q_queue) = {}
  /\ \A j \in q_held : j \notin q_out /\ j \notin JobsQueued /\ j # q_pushing
  /\ \A j \in q_out : j \notin JobsQueued /\ j # q_pushing
  /\ \A j \in JobsQueued : j # q_pushing

OfPacket(S, p) == {j \in S : j[1] = p}
OfProbe(S, c) == {j \in S : j = <<Probe, c>>}

JobsCounted ==
  /\ \A p \in Replies : q_refs[p] = Cardinality(OfPacket(Owners, p))
  /\ \A c \in Clients : q_probes[c] = Cardinality(OfProbe(Owners, c))

SendInv == SendTyped /\ JobsApart /\ JobsCounted

\* The sets that the component's own ToSet and Cardinality denote.
LEMMA SendToSet == \A s : Send!ToSet(s) = ToSet(s)
  BY DEF Send!ToSet, ToSet

LEMMA SendCardinality == \A S : Send!Cardinality(S) = Cardinality(S)
  BY DEF Send!Cardinality, Cardinality, Send!IsFiniteSet, IsFiniteSet

\* What is queued is finite and no probe.
LEMMA OwnersFinite ==
  ASSUME Send!SendAssumption, SendTyped
  PROVE  /\ JobsQueued \subseteq Send!Jobs /\ IsFiniteSet(JobsQueued)
         /\ Owners \subseteq AllJobs /\ IsFiniteSet(Owners)
         /\ \A S \in SUBSET Owners : \A p, c :
              /\ IsFiniteSet(S)
              /\ OfPacket(S, p) \subseteq S /\ IsFiniteSet(OfPacket(S, p))
              /\ OfProbe(S, c) \subseteq S /\ IsFiniteSet(OfProbe(S, c))
<1>1. /\ IsFiniteSet(ToSet(q_prio)) /\ ToSet(q_prio) \subseteq Send!Jobs
      /\ IsFiniteSet(ToSet(q_queue)) /\ ToSet(q_queue) \subseteq Send!Jobs
  BY ToSetFinite DEF SendTyped
<1>2. JobsQueued \subseteq Send!Jobs /\ IsFiniteSet(JobsQueued)
  BY <1>1, FS_Union DEF JobsQueued
<1>3. IsFiniteSet(q_held \cup q_out)
  BY FS_Union DEF SendTyped
<1>4. IsFiniteSet(q_held \cup q_out \cup JobsQueued)
  BY <1>2, <1>3, FS_Union
<1>5. IsFiniteSet({q_pushing} \ {None})
  BY FS_Singleton, FS_Subset
<1>6. IsFiniteSet(Owners)
  BY <1>4, <1>5, FS_Union DEF Owners
<1>7. Owners \subseteq AllJobs
  BY <1>2 DEF Owners, SendTyped, AllJobs
<1>8. ASSUME NEW S \in SUBSET Owners, NEW p, NEW c
      PROVE  /\ IsFiniteSet(S)
             /\ OfPacket(S, p) \subseteq S /\ IsFiniteSet(OfPacket(S, p))
             /\ OfProbe(S, c) \subseteq S /\ IsFiniteSet(OfProbe(S, c))
  <2>1. IsFiniteSet(S)
    BY <1>6, FS_Subset
  <2>2. OfPacket(S, p) \subseteq S /\ OfProbe(S, c) \subseteq S
    BY DEF OfPacket, OfProbe
  <2>3. QED
    BY <2>1, <2>2, FS_Subset
<1>9. QED
  BY <1>2, <1>6, <1>7, <1>8

\* Nothing is queued at the start.
LEMMA SendInit ==
  ASSUME Send!Init
  PROVE  SendInv
<1> USE DEF Send!Init
<1>1. SendTyped
  BY FS_EmptySet DEF SendTyped
<1>2. JobsQueued = {} /\ Owners = {}
  BY DEF JobsQueued, Owners, ToSet
<1>3. JobsApart
  BY <1>2 DEF JobsApart, Distinct, ToSet
<1>4. \A p, c : OfPacket(Owners, p) = {} /\ OfProbe(Owners, c) = {}
  BY <1>2 DEF OfPacket, OfProbe
<1>5. JobsCounted
  BY <1>4, FS_EmptySet DEF JobsCounted
<1>6. QED
  BY <1>1, <1>3, <1>5 DEF SendInv

\* Releasing jobs takes their references off (Release).
LEMMA ReleaseCounts ==
  ASSUME Send!SendAssumption, SendTyped, JobsCounted, NEW S \in SUBSET Owners,
         Send!Release(S), Owners' = Owners \ S
  PROVE  JobsCounted' /\ q_refs' \in [Replies -> Int] /\ q_probes' \in [Clients -> Int]
<1>1. ASSUME NEW T \in SUBSET Owners, IsFiniteSet(T), NEW U \in SUBSET T
      PROVE  Cardinality(T \ U) = Cardinality(T) - Cardinality(U) /\ Cardinality(U) \in Nat
  <2>1. IsFiniteSet(U) /\ T \cap U = U
    BY <1>1, FS_Subset
  <2>2. QED
    BY <1>1, <2>1, FS_Difference, FS_CardinalityType
<1>2. ASSUME NEW p \in Replies
      PROVE  q_refs'[p] = Cardinality(OfPacket(Owners', p))
  <2>1. q_refs'[p] = q_refs[p] - Cardinality(OfPacket(S, p))
    BY SendCardinality DEF Send!Release, OfPacket
  <2>2. OfPacket(Owners', p) = OfPacket(Owners, p) \ OfPacket(S, p)
    BY DEF OfPacket
  <2>3. /\ OfPacket(Owners, p) \in SUBSET Owners /\ IsFiniteSet(OfPacket(Owners, p))
        /\ OfPacket(S, p) \in SUBSET OfPacket(Owners, p)
    BY OwnersFinite DEF OfPacket
  <2>4. q_refs[p] = Cardinality(OfPacket(Owners, p))
    BY DEF JobsCounted
  <2>5. QED
    BY <1>1, <2>1, <2>2, <2>3, <2>4
<1>3. ASSUME NEW c \in Clients
      PROVE  q_probes'[c] = Cardinality(OfProbe(Owners', c))
  <2>1. q_probes'[c] = q_probes[c] - Cardinality(OfProbe(S, c))
    BY SendCardinality DEF Send!Release, OfProbe
  <2>2. OfProbe(Owners', c) = OfProbe(Owners, c) \ OfProbe(S, c)
    BY DEF OfProbe
  <2>3. /\ OfProbe(Owners, c) \in SUBSET Owners /\ IsFiniteSet(OfProbe(Owners, c))
        /\ OfProbe(S, c) \in SUBSET OfProbe(Owners, c)
    BY OwnersFinite DEF OfProbe
  <2>4. q_probes[c] = Cardinality(OfProbe(Owners, c))
    BY DEF JobsCounted
  <2>5. QED
    BY <1>1, <2>1, <2>2, <2>3, <2>4
<1>4. \A p \in Replies : Cardinality(OfPacket(S, p)) \in Nat
  BY OwnersFinite, FS_CardinalityType
<1>5. \A c \in Clients : Cardinality(OfProbe(S, c)) \in Nat
  BY OwnersFinite, FS_CardinalityType
<1>6. q_refs' = [p \in Replies |-> q_refs[p] - Cardinality(OfPacket(S, p))]
  BY SendCardinality DEF Send!Release, OfPacket
<1>7. q_probes' = [c \in Clients |-> q_probes[c] - Cardinality(OfProbe(S, c))]
  BY SendCardinality DEF Send!Release, OfProbe
<1>8. q_refs' \in [Replies -> Int] /\ q_probes' \in [Clients -> Int]
  BY <1>4, <1>5, <1>6, <1>7 DEF SendTyped
<1>9. QED
  BY <1>2, <1>3, <1>8 DEF JobsCounted

LEMMA NoneIsNoJob ==
  ASSUME Send!SendAssumption
  PROVE  None \notin AllJobs /\ None \notin Send!Jobs
  BY DEF Send!SendAssumption, AllJobs, Send!Jobs

\* queueSendWithPriority: a job that is nowhere gets its reference.
LEMMA QueueSendKeeps ==
  ASSUME Send!SendAssumption, SendInv, NEW j \in Send!Jobs, NEW h \in BOOLEAN, Send!QueueSend(j, h)
  PROVE  SendInv'
<1> USE DEF SendInv
<1>1. /\ q_pushing = None /\ q_pushing' = j /\ q_refs' = [q_refs EXCEPT ![j[1]] = @ + 1]
      /\ j \notin q_held /\ j \notin q_out /\ j \notin JobsQueued
      /\ UNCHANGED <<q_prio, q_queue, q_held, q_out, q_pc, q_probes>>
  BY SendToSet DEF Send!QueueSend, Send!channels, Send!shapers, JobsQueued
<1>2. /\ j # None /\ j[1] \in Replies /\ j[1] # Probe
  BY NoneIsNoJob DEF Send!SendAssumption, Send!Jobs
<1>3. JobsQueued' = JobsQueued /\ Owners' = Owners \cup {j} /\ j \notin Owners
  BY <1>1, <1>2 DEF JobsQueued, Owners
<1>4. SendTyped'
  BY <1>1, <1>2 DEF SendTyped
<1>5. JobsApart'
  BY <1>1, <1>3 DEF JobsApart, Distinct
<1>6. ASSUME NEW p \in Replies
      PROVE  q_refs'[p] = Cardinality(OfPacket(Owners', p))
  <2>1. q_refs[p] = Cardinality(OfPacket(Owners, p)) /\ IsFiniteSet(OfPacket(Owners, p))
    BY OwnersFinite DEF JobsCounted
  <2>2. CASE p = j[1]
    <3>1. OfPacket(Owners', p) = OfPacket(Owners, p) \cup {j} /\ j \notin OfPacket(Owners, p)
      BY <1>3, <2>2 DEF OfPacket
    <3>2. Cardinality(OfPacket(Owners', p)) = Cardinality(OfPacket(Owners, p)) + 1
      BY <2>1, <3>1, FS_AddElement
    <3>3. q_refs'[p] = q_refs[p] + 1
      BY <1>1, <2>2 DEF SendTyped
    <3>4. QED
      BY <2>1, <3>2, <3>3
  <2>3. CASE p # j[1]
    <3>1. OfPacket(Owners', p) = OfPacket(Owners, p)
      BY <1>3, <2>3 DEF OfPacket
    <3>2. q_refs'[p] = q_refs[p]
      BY <1>1, <2>3 DEF SendTyped
    <3>3. QED
      BY <2>1, <3>1, <3>2
  <2>4. QED
    BY <2>2, <2>3
<1>7. ASSUME NEW c \in Clients
      PROVE  q_probes'[c] = Cardinality(OfProbe(Owners', c))
  <2>1. j # <<Probe, c>>
    BY <1>2
  <2>2. OfProbe(Owners', c) = OfProbe(Owners, c)
    BY <1>3, <2>1 DEF OfProbe
  <2>3. QED
    BY <1>1, <2>2 DEF JobsCounted
<1>8. QED
  BY <1>4, <1>5, <1>6, <1>7 DEF JobsCounted

\* The job goes to one of the channels, or is released.
LEMMA PushJobKeeps ==
  ASSUME Send!SendAssumption, SendInv, Send!Push
  PROVE  SendInv'
<1> USE DEF SendInv
<1> PICK j : j = q_pushing
  OBVIOUS
<1>1. /\ j \in Send!Jobs /\ q_pushing' = None
      /\ UNCHANGED <<q_held, q_out, q_pc>>
      /\ \/ q_prio' = Append(q_prio, j) /\ q_queue' = q_queue /\ Send!Release({})
         \/ q_prio' = q_prio /\ q_queue' = Append(q_queue, j) /\ Send!Release({})
         \/ q_prio' = q_prio /\ q_queue' = q_queue /\ Send!Release({j})
  BY DEF Send!Push, Send!shapers, SendTyped
<1>2. /\ j # None
      /\ j \notin JobsQueued /\ j \notin ToSet(q_prio) /\ j \notin ToSet(q_queue)
      /\ j \notin q_held /\ j \notin q_out
      /\ q_prio \in Seq(Send!Jobs) /\ q_queue \in Seq(Send!Jobs)
  BY <1>1, NoneIsNoJob DEF JobsApart, JobsQueued, SendTyped, AllJobs
<1>3. None \notin q_held /\ None \notin q_out /\ None \notin JobsQueued
  BY NoneIsNoJob, OwnersFinite DEF SendTyped, AllJobs
<1>4. ASSUME q_prio' = Append(q_prio, j), q_queue' = q_queue
      PROVE  /\ q_prio' \in Seq(Send!Jobs) /\ q_queue' \in Seq(Send!Jobs)
             /\ Distinct(q_prio') /\ Distinct(q_queue') /\ ToSet(q_prio') \cap ToSet(q_queue') = {}
             /\ JobsQueued' = JobsQueued \cup {j}
  <2>1. q_prio' \in Seq(Send!Jobs) /\ Distinct(q_prio') /\ ToSet(q_prio') = ToSet(q_prio) \cup {j}
    BY <1>1, <1>2, <1>4, AppendDistinct DEF JobsApart
  <2>2. QED
    BY <1>2, <1>4, <2>1 DEF JobsApart, JobsQueued
<1>5. ASSUME q_prio' = q_prio, q_queue' = Append(q_queue, j)
      PROVE  /\ q_prio' \in Seq(Send!Jobs) /\ q_queue' \in Seq(Send!Jobs)
             /\ Distinct(q_prio') /\ Distinct(q_queue') /\ ToSet(q_prio') \cap ToSet(q_queue') = {}
             /\ JobsQueued' = JobsQueued \cup {j}
  <2>1. q_queue' \in Seq(Send!Jobs) /\ Distinct(q_queue') /\ ToSet(q_queue') = ToSet(q_queue) \cup {j}
    BY <1>1, <1>2, <1>5, AppendDistinct DEF JobsApart
  <2>2. QED
    BY <1>2, <1>5, <2>1 DEF JobsApart, JobsQueued
<1>6. ASSUME q_prio' = q_prio, q_queue' = q_queue
      PROVE  /\ q_prio' \in Seq(Send!Jobs) /\ q_queue' \in Seq(Send!Jobs)
             /\ Distinct(q_prio') /\ Distinct(q_queue') /\ ToSet(q_prio') \cap ToSet(q_queue') = {}
             /\ JobsQueued' = JobsQueued
  BY <1>2, <1>6 DEF JobsApart, JobsQueued, Distinct
<1>7. PICK S : /\ Send!Release(S)
               /\ \/ S = {} /\ JobsQueued' = JobsQueued \cup {j}
                  \/ S = {j} /\ JobsQueued' = JobsQueued
  BY <1>1, <1>4, <1>5, <1>6
<1>8. S \in SUBSET Owners /\ Owners' = Owners \ S
  BY <1>1, <1>2, <1>3, <1>7 DEF Owners
<1>9. JobsCounted' /\ q_refs' \in [Replies -> Int] /\ q_probes' \in [Clients -> Int]
  BY <1>7, <1>8, ReleaseCounts
<1>10. SendTyped'
  BY <1>1, <1>4, <1>5, <1>6, <1>9 DEF SendTyped
<1>11. JobsApart'
  <2>1. /\ \A k \in q_held : k \notin q_out /\ k \notin JobsQueued' /\ k # None
        /\ \A k \in q_out : k \notin JobsQueued' /\ k # None
        /\ \A k \in JobsQueued' : k # None
    BY <1>2, <1>3, <1>7 DEF JobsApart
  <2>2. QED
    BY <1>1, <1>4, <1>5, <1>6, <2>1 DEF JobsApart
<1>12. QED
  BY <1>9, <1>10, <1>11

\* What the send loop does: jobs move between the channels, the shapers and what is
\* written, and those of S are released.
LEMMA JobsMove ==
  ASSUME Send!SendAssumption, SendInv, NEW S \in SUBSET Owners, Send!Release(S),
         q_pushing' = q_pushing, S \subseteq q_held \cup q_out \cup JobsQueued,
         q_prio' \in Seq(Send!Jobs), q_queue' \in Seq(Send!Jobs),
         Distinct(q_prio'), Distinct(q_queue'), ToSet(q_prio') \cap ToSet(q_queue') = {},
         q_held' \cup q_out' \cup JobsQueued' = (q_held \cup q_out \cup JobsQueued) \ S,
         \A j \in q_held' : j \notin q_out' /\ j \notin JobsQueued',
         \A j \in q_out' : j \notin JobsQueued',
         q_pc' # "write" => q_out' = {}
  PROVE  SendInv'
<1> USE DEF SendInv
<1>1. \A j \in q_held \cup q_out \cup JobsQueued : j # q_pushing
  BY DEF JobsApart
<1>2. Owners' = Owners \ S
  BY <1>1 DEF Owners
<1>3. JobsCounted' /\ q_refs' \in [Replies -> Int] /\ q_probes' \in [Clients -> Int]
  BY <1>2, ReleaseCounts
<1>4. q_held' \subseteq Owners /\ q_out' \subseteq Owners
  BY DEF Owners
<1>5. /\ q_held' \subseteq AllJobs /\ IsFiniteSet(q_held')
      /\ q_out' \subseteq AllJobs /\ IsFiniteSet(q_out')
  BY <1>4, OwnersFinite
<1>6. SendTyped'
  BY <1>3, <1>5 DEF SendTyped
<1>7. \A j \in q_held' \cup q_out' \cup JobsQueued' : j # q_pushing'
  BY <1>1
<1>8. JobsApart'
  BY <1>7 DEF JobsApart
<1>9. QED
  BY <1>3, <1>6, <1>8

\* Counts that stay as they are: no job is released.
LEMMA NothingReleased ==
  ASSUME SendTyped, q_refs' = q_refs, q_probes' = q_probes
  PROVE  Send!Release({})
<1>1. \A p : {j \in {} : j[1] = p} = {} /\ \A c : {j \in {} : j = <<Probe, c>>} = {}
  OBVIOUS
<1>2. Send!Cardinality({}) = 0
  BY SendCardinality, FS_EmptySet
<1>3. /\ q_refs' = [p \in Replies |-> q_refs[p] - 0]
      /\ q_probes' = [c \in Clients |-> q_probes[c] - 0]
  BY DEF SendTyped
<1>4. /\ \A p : Send!Cardinality({j \in {} : j[1] = p}) = 0
      /\ \A c : Send!Cardinality({j \in {} : j = <<Probe, c>>}) = 0
  BY <1>1, <1>2
<1>5. QED
  BY <1>3, <1>4 DEF Send!Release

\* Collect takes the first jobs of the two channels.
LEMMA CollectJobsKeeps ==
  ASSUME Send!SendAssumption, SendInv, NEW n \in 1 .. Batch, Send!Collect(n)
  PROVE  SendInv'
<1> USE DEF SendInv
<1> DEFINE a == q_prio
           b == q_queue
           k == IF n < Len(a) THEN n ELSE Len(a)
           m == n - k
           batch == ToSet(SubSeq(a, 1, k)) \cup ToSet(SubSeq(b, 1, m))
<1>1. /\ a \in Seq(Send!Jobs) /\ b \in Seq(Send!Jobs) /\ Batch \in Nat /\ n \in Nat
      /\ Len(a) \in Nat /\ Len(b) \in Nat /\ Len(a \o b) = Len(a) + Len(b)
  BY DEF SendTyped, Send!SendAssumption
<1>2. /\ q_pc = "wait" /\ q_pc' = "write" /\ n <= Len(a \o b)
      /\ q_out' = ToSet(SubSeq(a \o b, 1, n))
      /\ q_prio' = SubSeq(a, n + 1, Len(a))
      /\ q_queue' = SubSeq(b, IF n > Len(a) THEN n - Len(a) + 1 ELSE 1, Len(b))
      /\ q_held' = q_held /\ q_pushing' = q_pushing /\ q_refs' = q_refs /\ q_probes' = q_probes
  BY SendToSet DEF Send!Collect, Send!shapers, Send!counts
<1>3. k \in 0 .. Len(a) /\ m \in 0 .. Len(b) /\ n = k + m /\ (k < Len(a) => m = 0)
  BY <1>1, <1>2
<1>4. k = IF n < Len(a) THEN n ELSE Len(a)
  OBVIOUS
<1>5. m = IF n > Len(a) THEN n - Len(a) ELSE 0
  <2>1. CASE n < Len(a)
    BY <1>1, <2>1
  <2>2. CASE ~(n < Len(a))
    <3>1. k = Len(a)
      BY <2>2
    <3>2. m = n - Len(a)
      BY <3>1
    <3>3. QED
      BY <1>1, <2>2, <3>2
  <2>3. QED
    BY <2>1, <2>2
<1> HIDE DEF k, m
<1>16. q_prio' = SubSeq(a, k + 1, Len(a))
  <2>1. CASE n <= Len(a)
    <3>1. k = n
      BY <1>1, <1>4, <2>1
    <3>2. QED
      BY <1>2, <3>1
  <2>2. CASE n > Len(a)
    <3>1. SubSeq(a, n + 1, Len(a)) = <<>> /\ SubSeq(a, Len(a) + 1, Len(a)) = <<>>
      BY <1>1, <2>2
    <3>2. k = Len(a)
      BY <1>1, <1>4, <2>2
    <3>3. QED
      BY <1>2, <3>1, <3>2
  <2>3. QED
    BY <1>1, <2>1, <2>2
<1>17. q_queue' = SubSeq(b, m + 1, Len(b))
  <2>1. m + 1 = IF n > Len(a) THEN n - Len(a) + 1 ELSE 1
    BY <1>1, <1>5
  <2>2. QED
    BY <1>2, <2>1
<1>6. q_out' = batch
  BY <1>1, <1>2, <1>3, TakeFirst
<1>7. /\ q_prio' \in Seq(Send!Jobs) /\ Distinct(q_prio')
      /\ ToSet(SubSeq(a, 1, k)) \subseteq ToSet(a)
      /\ ToSet(q_prio') = ToSet(a) \ ToSet(SubSeq(a, 1, k))
  BY <1>1, <1>3, <1>16, SplitDistinct DEF JobsApart
<1>8. /\ q_queue' \in Seq(Send!Jobs) /\ Distinct(q_queue')
      /\ ToSet(SubSeq(b, 1, m)) \subseteq ToSet(b)
      /\ ToSet(q_queue') = ToSet(b) \ ToSet(SubSeq(b, 1, m))
  BY <1>1, <1>3, <1>17, SplitDistinct DEF JobsApart
<1>9. /\ ToSet(q_prio') \cap ToSet(q_queue') = {}
      /\ JobsQueued' = JobsQueued \ batch /\ batch \subseteq JobsQueued
  BY <1>7, <1>8 DEF JobsApart, JobsQueued
<1> HIDE DEF batch
<1>10. q_out = {} /\ Send!Release({})
  BY <1>2, NothingReleased DEF SendTyped
<1>11. q_held' \cup q_out' \cup JobsQueued' = (q_held \cup q_out \cup JobsQueued) \ {}
  BY <1>2, <1>6, <1>9, <1>10
<1>12. /\ \A j \in q_held' : j \notin q_out' /\ j \notin JobsQueued'
       /\ \A j \in q_out' : j \notin JobsQueued'
  BY <1>2, <1>6, <1>9 DEF JobsApart
<1>13. {} \in SUBSET Owners /\ {} \subseteq q_held \cup q_out \cup JobsQueued
  OBVIOUS
<1>14. q_pc' # "write" => q_out' = {}
  BY <1>2
<1>15. QED
  BY <1>2, <1>7, <1>8, <1>9, <1>10, <1>11, <1>12, <1>13, <1>14, JobsMove

\* A job that leaves a channel for its shaper may push out or be dropped.
LEMMA ShapeJobKeeps ==
  ASSUME Send!SendAssumption, SendInv, NEW j \in JobsQueued, NEW drops \in SUBSET (q_held \cup {j}),
         q_held' = (q_held \cup {j}) \ drops, Send!Release(drops),
         UNCHANGED <<q_out, q_pc, q_pushing>>,
         q_prio' \in Seq(Send!Jobs), q_queue' \in Seq(Send!Jobs),
         Distinct(q_prio'), Distinct(q_queue'), ToSet(q_prio') \cap ToSet(q_queue') = {},
         JobsQueued' = JobsQueued \ {j}
  PROVE  SendInv'
<1> USE DEF SendInv
<1>1. drops \in SUBSET Owners /\ drops \subseteq q_held \cup q_out \cup JobsQueued
  BY DEF Owners
<1>2. j \notin q_held /\ j \notin q_out
  BY DEF JobsApart
<1>3. q_held' \cup q_out' \cup JobsQueued' = (q_held \cup q_out \cup JobsQueued) \ drops
  BY <1>2 DEF JobsApart
<1>4. /\ \A i \in q_held' : i \notin q_out' /\ i \notin JobsQueued'
      /\ \A i \in q_out' : i \notin JobsQueued'
      /\ q_pc' # "write" => q_out' = {}
  BY <1>2 DEF JobsApart, SendTyped
<1>5. QED
  BY <1>1, <1>3, <1>4, JobsMove

LEMMA MoveKeeps ==
  ASSUME Send!SendAssumption, SendInv, Send!MovePrio \/ Send!MoveQueue
  PROVE  SendInv'
<1> USE DEF SendInv
<1>1. q_prio \in Seq(Send!Jobs) /\ q_queue \in Seq(Send!Jobs)
  BY DEF SendTyped
<1>2. CASE Send!MovePrio
  <2>1. q_prio # <<>> /\ q_prio' = Tail(q_prio) /\ UNCHANGED <<q_queue, q_out, q_pc, q_pushing>>
    BY <1>2 DEF Send!MovePrio
  <2>2. PICK drops \in SUBSET (q_held \cup {Head(q_prio)}) :
          q_held' = (q_held \cup {Head(q_prio)}) \ drops /\ Send!Release(drops)
    BY <1>2 DEF Send!MovePrio, Send!Shape
  <2>3. /\ q_prio' \in Seq(Send!Jobs) /\ Distinct(q_prio') /\ Head(q_prio) \in ToSet(q_prio)
        /\ ToSet(q_prio') = ToSet(q_prio) \ {Head(q_prio)}
    BY <1>1, <2>1, TailDistinct DEF JobsApart
  <2>4. PICK j \in JobsQueued : j = Head(q_prio)
    BY <2>3 DEF JobsQueued
  <2>5. /\ JobsQueued' = JobsQueued \ {j} /\ q_queue' \in Seq(Send!Jobs) /\ Distinct(q_queue')
        /\ ToSet(q_prio') \cap ToSet(q_queue') = {}
    BY <1>1, <2>1, <2>3, <2>4 DEF JobsApart, JobsQueued
  <2>6. QED
    BY <2>1, <2>2, <2>3, <2>4, <2>5, ShapeJobKeeps
<1>3. CASE Send!MoveQueue
  <2>1. q_queue # <<>> /\ q_queue' = Tail(q_queue) /\ UNCHANGED <<q_prio, q_out, q_pc, q_pushing>>
    BY <1>3 DEF Send!MoveQueue
  <2>2. PICK drops \in SUBSET (q_held \cup {Head(q_queue)}) :
          q_held' = (q_held \cup {Head(q_queue)}) \ drops /\ Send!Release(drops)
    BY <1>3 DEF Send!MoveQueue, Send!Shape
  <2>3. /\ q_queue' \in Seq(Send!Jobs) /\ Distinct(q_queue') /\ Head(q_queue) \in ToSet(q_queue)
        /\ ToSet(q_queue') = ToSet(q_queue) \ {Head(q_queue)}
    BY <1>1, <2>1, TailDistinct DEF JobsApart
  <2>4. PICK j \in JobsQueued : j = Head(q_queue)
    BY <2>3 DEF JobsQueued
  <2>5. /\ JobsQueued' = JobsQueued \ {j} /\ q_prio' \in Seq(Send!Jobs) /\ Distinct(q_prio')
        /\ ToSet(q_prio') \cap ToSet(q_queue') = {}
    BY <1>1, <2>1, <2>3, <2>4 DEF JobsApart, JobsQueued
  <2>6. QED
    BY <2>1, <2>2, <2>3, <2>4, <2>5, ShapeJobKeeps
<1>4. QED
  BY <1>2, <1>3

\* A new probe of a client that has none.
LEMMA ProbeKeeps ==
  ASSUME Send!SendAssumption, SendInv, NEW c \in Clients, Send!SendProbe(c)
  PROVE  SendInv'
<1> USE DEF SendInv
<1> PICK j : j = <<Probe, c>>
  OBVIOUS
<1>1. /\ q_probes[c] = 0 /\ q_probes' = [q_probes EXCEPT ![c] = 1] /\ q_held' = q_held \cup {j}
      /\ UNCHANGED <<q_prio, q_queue, q_pushing, q_refs, q_pc, q_out>>
  BY DEF Send!SendProbe, Send!channels
<1>2. j \in AllJobs /\ j[1] = Probe /\ Probe \notin Replies /\ j \notin Send!Jobs
  BY DEF AllJobs, Send!Jobs, Send!SendAssumption
<1>3. OfProbe(Owners, c) = {}
  BY <1>1, OwnersFinite, FS_EmptySet DEF JobsCounted
<1>4. j \notin Owners
  BY <1>3 DEF OfProbe
<1>5. JobsQueued' = JobsQueued /\ Owners' = Owners \cup {j}
  BY <1>1 DEF JobsQueued, Owners
<1>6. j \notin q_out /\ j \notin JobsQueued /\ j # q_pushing
  <2>1. j # None
    BY <1>2, NoneIsNoJob
  <2>2. QED
    BY <1>4, <2>1 DEF Owners
<1>7. IsFiniteSet(q_held')
  BY <1>1, FS_AddElement DEF SendTyped
<1>8. SendTyped'
  <2>1. q_held' \subseteq AllJobs
    BY <1>1, <1>2 DEF SendTyped
  <2>3. q_probes' \in [Clients -> Int]
    <3>1. q_probes \in [Clients -> Int] /\ 1 \in Int
      BY DEF SendTyped
    <3>2. QED
      BY <1>1, <3>1
  <2>2. QED
    BY <1>1, <1>7, <2>1, <2>3 DEF SendTyped
<1>9. JobsApart'
  BY <1>1, <1>5, <1>6 DEF JobsApart, Distinct
<1>10. ASSUME NEW p \in Replies
       PROVE  q_refs'[p] = Cardinality(OfPacket(Owners', p))
  <2>1. OfPacket(Owners', p) = OfPacket(Owners, p)
    BY <1>2, <1>5 DEF OfPacket
  <2>2. QED
    BY <1>1, <2>1 DEF JobsCounted
<1>11. ASSUME NEW d \in Clients
       PROVE  q_probes'[d] = Cardinality(OfProbe(Owners', d))
  <2>1. CASE d = c
    <3>1. OfProbe(Owners', d) = {j}
      BY <1>3, <1>5, <2>1 DEF OfProbe
    <3>2. QED
      BY <1>1, <2>1, <3>1, FS_Singleton DEF SendTyped
  <2>2. CASE d # c
    <3>1. j # <<Probe, d>>
      BY <2>2
    <3>2. OfProbe(Owners', d) = OfProbe(Owners, d)
      BY <1>5, <3>1 DEF OfProbe
    <3>3. QED
      BY <1>1, <2>2, <3>2 DEF JobsCounted, SendTyped
  <2>3. QED
    BY <2>1, <2>2
<1>12. QED
  BY <1>8, <1>9, <1>10, <1>11 DEF JobsCounted

\* Steps that leave the channels alone: a batch leaves the shapers or has been
\* written, paths come and go.
LEMMA ShapersKeep ==
  ASSUME Send!SendAssumption, SendInv, UNCHANGED <<q_prio, q_queue, q_pushing>>,
         NEW S \in SUBSET (q_held \cup q_out), Send!Release(S),
         q_held' \cup q_out' = (q_held \cup q_out) \ S,
         \A j \in q_held' : j \notin q_out', q_pc' # "write" => q_out' = {}
  PROVE  SendInv'
<1> USE DEF SendInv
<1>1. JobsQueued' = JobsQueued
  BY DEF JobsQueued
<1>2. S \in SUBSET Owners /\ S \subseteq q_held \cup q_out \cup JobsQueued
  BY DEF Owners
<1>3. \A j \in q_held \cup q_out : j \notin JobsQueued
  BY DEF JobsApart
<1>4. q_held' \cup q_out' \cup JobsQueued' = (q_held \cup q_out \cup JobsQueued) \ S
  BY <1>1, <1>3
<1>5. /\ q_prio' \in Seq(Send!Jobs) /\ q_queue' \in Seq(Send!Jobs)
      /\ Distinct(q_prio') /\ Distinct(q_queue') /\ ToSet(q_prio') \cap ToSet(q_queue') = {}
  BY DEF SendTyped, JobsApart
<1>6. \A j \in q_held' \cup q_out' : j \notin JobsQueued'
  BY <1>1, <1>3
<1>7. QED
  BY <1>2, <1>4, <1>5, <1>6, JobsMove

\* The loop ends: it releases what is queued and what the shapers hold.
LEMMA EndKeeps ==
  ASSUME Send!SendAssumption, SendInv, Send!End
  PROVE  SendInv'
<1> USE DEF SendInv
<1> PICK S : S = JobsQueued \cup q_held
  OBVIOUS
<1>1. /\ q_pc = "wait" /\ q_pc' = "ended" /\ q_prio' = <<>> /\ q_queue' = <<>> /\ q_held' = {}
      /\ Send!Release(S) /\ q_pushing' = q_pushing /\ q_out' = q_out
  BY SendToSet DEF Send!End, JobsQueued
<1>2. q_out = {}
  BY <1>1 DEF SendTyped
<1>3. JobsQueued' = {} /\ Distinct(q_prio') /\ Distinct(q_queue') /\ ToSet(q_prio') \cap ToSet(q_queue') = {}
  BY <1>1 DEF JobsQueued, ToSet, Distinct
<1>4. q_prio' \in Seq(Send!Jobs) /\ q_queue' \in Seq(Send!Jobs)
  BY <1>1
<1>5. S \in SUBSET Owners /\ S \subseteq q_held \cup q_out \cup JobsQueued
  BY DEF Owners
<1>6. q_held' \cup q_out' \cup JobsQueued' = (q_held \cup q_out \cup JobsQueued) \ S
  BY <1>1, <1>2, <1>3
<1>7. /\ \A j \in q_held' : j \notin q_out' /\ j \notin JobsQueued'
      /\ \A j \in q_out' : j \notin JobsQueued'
      /\ q_pc' # "write" => q_out' = {}
  BY <1>1, <1>2
<1>8. QED
  BY <1>1, <1>3, <1>4, <1>5, <1>6, <1>7, JobsMove

\* The inductive step.
LEMMA SendStep ==
  ASSUME Send!SendAssumption, SendInv, [Send!Next]_(Send!vars)
  PROVE  SendInv'
<1> USE DEF SendInv
<1>1. CASE \E j \in Send!Jobs, h \in BOOLEAN : Send!QueueSend(j, h)
  BY <1>1, QueueSendKeeps
<1>2. CASE Send!Push
  BY <1>2, PushJobKeeps
<1>3. CASE Send!Write
  <2>1. PICK S : S = q_out
    OBVIOUS
  <2>2. /\ q_out' = {} /\ Send!Release(S) /\ UNCHANGED <<q_prio, q_queue, q_pushing, q_held>>
    BY <1>3, <2>1 DEF Send!Write, Send!channels, Send!shapers
  <2>3. /\ S \in SUBSET (q_held \cup q_out) /\ q_held' \cup q_out' = (q_held \cup q_out) \ S
        /\ (\A j \in q_held' : j \notin q_out') /\ (q_pc' # "write" => q_out' = {})
    BY <2>1, <2>2 DEF JobsApart
  <2>4. QED
    BY <2>2, <2>3, ShapersKeep
<1>4. CASE Send!MovePrio \/ Send!MoveQueue
  BY <1>4, MoveKeeps
<1>5. CASE Send!End
  BY <1>5, EndKeeps
<1>6. CASE \E n \in 1 .. Batch : Send!Collect(n)
  BY <1>6, CollectJobsKeeps
<1>7. CASE \E batch, drops \in SUBSET q_held : Send!Send(batch, drops)
  <2>1. PICK batch \in SUBSET q_held, drops \in SUBSET q_held : Send!Send(batch, drops)
    BY <1>7
  <2>2. /\ q_pc = "wait" /\ q_pc' = "write" /\ q_held' = q_held \ (batch \cup drops) /\ q_out' = batch
        /\ \A j \in drops : j \notin batch
        /\ Send!Release(drops) /\ UNCHANGED <<q_prio, q_queue, q_pushing>>
    BY <2>1 DEF Send!Send, Send!channels
  <2>3. q_out = {}
    BY <2>2 DEF SendTyped
  <2>4. /\ drops \in SUBSET (q_held \cup q_out)
        /\ q_held' \cup q_out' = (q_held \cup q_out) \ drops
        /\ (\A j \in q_held' : j \notin q_out') /\ (q_pc' # "write" => q_out' = {})
    BY <2>2, <2>3
  <2>5. QED
    BY <2>2, <2>4, ShapersKeep
<1>8. CASE \E c \in Clients : Send!SendProbe(c)
  BY <1>8, ProbeKeeps
<1>9. CASE \/ \E c \in Clients : Send!Quieten(c)
           \/ Send!Sweep \/ Send!Stop \/ UNCHANGED Send!vars
  <2>1. UNCHANGED <<q_prio, q_queue, q_pushing, q_refs, q_probes, q_pc, q_held, q_out>>
    BY <1>9 DEF Send!Quieten, Send!Sweep, Send!Stop, Send!vars, Send!channels, Send!counts, Send!shapers
  <2>2. Send!Release({})
    BY <2>1, NothingReleased
  <2>3. /\ {} \in SUBSET (q_held \cup q_out) /\ q_held' \cup q_out' = (q_held \cup q_out) \ {}
        /\ (\A j \in q_held' : j \notin q_out') /\ (q_pc' # "write" => q_out' = {})
    BY <2>1 DEF JobsApart, SendTyped
  <2>4. QED
    BY <2>1, <2>2, <2>3, ShapersKeep
<1>10. QED
  BY <1>1, <1>2, <1>3, <1>4, <1>5, <1>6, <1>7, <1>8, <1>9 DEF Send!Next

\* Every job of a UDP listener's packets owns one reference from before its producer
\* checks for the stop until it is written, dropped or drained (queueSendWithPriority,
\* runSendLoop, runShapedSendLoop).
THEOREM JobsCountReferences ==
  Send!Spec => []JobsOwnReferences
<1>1. Send!SendAssumption
  BY PartsAssumption
<1>2. Send!Init => SendInv
  BY SendInit
<1>3. SendInv /\ [Send!Next]_(Send!vars) => SendInv'
  BY <1>1, SendStep
<1>4. SendInv => JobsOwnReferences
  <2> SUFFICES ASSUME SendInv PROVE JobsOwnReferences
    OBVIOUS
  <2>1. ASSUME NEW p \in Replies
        PROVE  q_refs[p] = Send!Cardinality(Send!Holders(p))
    <3>1. /\ None \notin q_held /\ None \notin q_out /\ None \notin JobsQueued
      BY <1>1, NoneIsNoJob, OwnersFinite DEF SendInv, SendTyped
    <3>2. Send!Holders(p) = OfPacket(Owners, p)
      BY <3>1, SendToSet DEF Send!Holders, OfPacket, Owners, JobsQueued
    <3>3. QED
      BY <3>2, SendCardinality DEF SendInv, JobsCounted
  <2>2. ASSUME NEW c \in Clients
        PROVE  q_probes[c] = Send!Cardinality({<<Probe, c>>} \cap (q_held \cup q_out))
    <3>1. <<Probe, c>> \notin Send!Jobs
      BY <1>1 DEF Send!Jobs, Send!SendAssumption
    <3>2. <<Probe, c>> \notin JobsQueued /\ <<Probe, c>> \notin {q_pushing} \ {None}
      BY <1>1, <3>1, OwnersFinite DEF SendInv, SendTyped
    <3>3. {<<Probe, c>>} \cap (q_held \cup q_out) = OfProbe(Owners, c)
      BY <3>2 DEF OfProbe, Owners
    <3>4. QED
      BY <3>3, SendCardinality DEF SendInv, JobsCounted
  <2>3. QED
    BY <2>1, <2>2 DEF JobsOwnReferences, Send!JobsOwnReferences
<1>5. QED
  BY <1>2, <1>3, <1>4, PTL DEF Send!Spec

-----------------------------------------------------------------------------
(* A behaviour of UdpParts is one of each part, two of which rest.         *)

\* A step of UdpParts is a step of the part that runs and leaves the others alone.
LEMMA UdpPartSteps ==
  ASSUME [PartNext]_partVars
  PROVE  [Next]_vars /\ [Forward!Next]_(Forward!vars) /\ [Send!Next]_(Send!vars)
<1>1. [Next]_vars
  <2>1. CASE UNCHANGED vars
    BY <2>1, Zenon
  <2>2. CASE ~UNCHANGED vars
    BY <2>2, Zenon DEF PartNext, partVars
  <2>3. QED
    BY <2>1, <2>2
<1>2. [Forward!Next]_(Forward!vars)
  <2>1. CASE UNCHANGED forwardVars
    BY <2>1, Zenon
       DEF forwardVars, Forward!vars, Forward!socket, Forward!closing, Forward!packets,
           Forward!loops, Forward!checks
  <2>2. CASE ~UNCHANGED forwardVars
    BY <2>2, Zenon DEF PartNext, partVars
  <2>3. QED
    BY <2>1, <2>2
<1>3. [Send!Next]_(Send!vars)
  <2>1. CASE UNCHANGED sendVars
    BY <2>1, Zenon
       DEF sendVars, Send!vars, Send!channels, Send!counts, Send!shapers
  <2>2. CASE ~UNCHANGED sendVars
    BY <2>2, Zenon DEF PartNext, partVars
  <2>3. QED
    BY <2>1, <2>2
<1>4. QED
  BY <1>1, <1>2, <1>3

\* Whichever part runs, the invariants of all three hold in UdpParts: of the replies
\* and the authentication (OnAuthChallenge), of a forwarder's packets and send
\* loop (flush, tryReconnect) and of a listener's jobs (queueSendWithPriority).
THEOREM UdpPartsAreRight ==
  PartSpec => /\ []RepliesFollowLine /\ []AuthIsMutual
              /\ []RefsHeldOnce /\ []SendLoopAlive /\ []JobsOwnReferences
<1>1. PartInit => Init /\ Forward!Init /\ Send!Init
  BY Zenon DEF PartInit
<1>2. PartSpec => Spec /\ Forward!Spec /\ Send!Spec
  BY <1>1, UdpPartSteps, PTL DEF PartSpec, Spec, Forward!Spec, Send!Spec
<1>3. QED
  BY <1>2, RepliesReachLine, BothEndsAgree, ForwardPacketsOnce, ForwardLoopAlive,
     JobsCountReferences, PTL
=============================================================================
