---------------------------- MODULE MCTcpTunnels ----------------------------
(* The TCP tunnel under fairness: the pools of the forward side, without     *)
(* data, and the queue of one connection.  They do not interact here: a      *)
(* behaviour is one of the part that part names.                             *)
EXTENDS TcpTunnelForward, TLC

CONSTANTS
  p1, p2, s1, s2, b1

\* One pool of two connections, or two of one connection each.
MCConfigs == {p1 :> 2 @@ p2 :> 0, p1 :> 1 @@ p2 :> 1}

\* Two small packets and a large one.
MCWire == s1 :> 1 @@ s2 :> 1 @@ b1 :> 2

VARIABLES
  part, q_lane, q_stamp, q_credit, q_queued, q_qclosed, q_ready, q_pusher,
  q_refs, q_wr, q_batch, q_unsent, q_done, q_closed, q_stopped

Queue == INSTANCE TcpTunnelConn WITH
  Packets <- {s1, s2, b1}, Control <- {}, NoDrop <- {}, Wire <- MCWire,
  PrioritySize <- 1, Limit <- 3, Codel <- TRUE, Standing <- 2, MaxCredit <- 2,
  Earn <- 1, WriteBatch <- 1, MayFail <- TRUE, lane <- q_lane,
  stamp <- q_stamp, credit <- q_credit, queued <- q_queued,
  qclosed <- q_qclosed, ready <- q_ready, pusher <- q_pusher, refs <- q_refs,
  wr <- q_wr, batch <- q_batch, unsent <- q_unsent, done <- q_done, closed <- q_closed,
  stopped <- q_stopped

queueVars ==
  <<q_lane, q_stamp, q_credit, q_queued, q_qclosed, q_ready, q_pusher, q_refs,
    q_wr, q_batch, q_unsent, q_done, q_closed, q_stopped>>

partVars ==
  <<part, vars, queueVars>>

\* Each part rests in one of its initial states unless it is the one that runs.
PartInit ==
  /\ part \in {"tunnel forward", "tunnel queue"}
  /\ Init /\ (part # "tunnel forward" => connCount = (p1 :> 1 @@ p2 :> 1))
  /\ Queue!Init

PartNext ==
  \/ part = "tunnel forward" /\ Next
     /\ UNCHANGED <<part, queueVars>>
  \/ part = "tunnel queue" /\ Queue!Next
     /\ UNCHANGED <<part, vars>>

\* The fairness of TcpTunnelForward and TcpTunnelConn, for the part that runs.
PartFairness ==
  /\ \A p \in Pools :
       /\ WF_vars(part = "tunnel forward" /\ CheckTick(p))
       /\ SF_vars(part = "tunnel forward" /\ \E c \in Conns : DialSucceeds(p, c))
       /\ SF_vars(part = "tunnel forward" /\ fresh[p] \in open /\ SendChallenge(p))
       /\ WF_vars(part = "tunnel forward" /\ SendChallenge(p))
       /\ WF_vars(part = "tunnel forward" /\ AddConnection(p))
  /\ \A c \in Conns :
       /\ WF_vars(part = "tunnel forward" /\ RememberConnID(c))
       /\ WF_vars(part = "tunnel forward" /\ (stopped \/ c \notin open) /\ ReadEnds(c))
       /\ WF_vars(part = "tunnel forward" /\ ForgetPool(c))
       /\ WF_vars(part = "tunnel forward" /\ DeleteEntry(c))
       /\ WF_vars(part = "tunnel forward" /\ BumpGeneration(c))
  /\ \A p \in {s1, s2, b1} : WF_queueVars(part = "tunnel queue" /\ Queue!Producer(p))
  /\ WF_queueVars(part = "tunnel queue"
       /\ (Queue!Pop \/ Queue!Write \/ Queue!Wake \/ Queue!WaitEnd \/ Queue!DisconnectDone))
  /\ WF_queueVars(part = "tunnel queue" /\ (q_wr = "disconnect" \/ q_stopped) /\ Queue!CloseBegin)
  /\ WF_queueVars(part = "tunnel queue" /\ Queue!QueueClose)

PartSpec == PartInit /\ [][PartNext]_partVars /\ PartFairness

-----------------------------------------------------------------------------

\* A flood of small packets does not starve a tunnel connection's bulk (pop).
NoStarvation == Queue!NoStarvation

\* Close ends writeLoop and leaves no reference behind (TcpTunnelConn.Close).
CloseReleasesAll == Queue!CloseReleasesAll
=============================================================================
