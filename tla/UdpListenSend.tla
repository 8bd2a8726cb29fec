---------------------------- MODULE UdpListenSend ----------------------------
(***************************************************************************)
(* The sending half of the UDP listener (src/listen.go): producers that    *)
(* queue a packet for a client (or one packet for several, when it is      *)
(* broadcast), and the send loop, plain or with a shaper per client, which *)
(* the loop creates, probes, sweeps when idle and throws away at the end.  *)
(*                                                                         *)
(* A job is a packet and the client it is for.  Which packets a shaper     *)
(* releases or drops, and when, is left open here (see PathShaper).        *)
(***************************************************************************)
EXTENDS Integers, Sequences, FiniteSets, SequencesExt

CONSTANTS
  Packets,
  Probe,      \* the probe packet of a path
  Clients,
  PrioSize, QueueSize,  \* capacities of the two channels
  Batch,      \* packets that are written at once
  None

VARIABLES
  mode,       \* "plain", "shaped", or "autorate": shaped and with probes
  stopped,    \* the stop channel is closed
  prio, queue,  \* sendQueuePrio and sendQueue
  pushing,    \* job whose producer is past the checks
  high,       \* whether that job has priority
  refs,       \* [Packets -> references that the jobs own]
  probes,     \* [Clients -> references of its probe packet]
  pc,         \* where the send loop is: "wait", "write" or "ended"
  paths,      \* clients that have a shaper
  held,       \* jobs in the shapers
  quiet,      \* clients whose path has carried no data for shaperIdleTimeout
  out         \* jobs that are being written

channels == <<prio, queue>>
counts == <<refs, probes>>
shapers == <<paths, held, quiet>>
vars == <<mode, stopped, channels, pushing, high, counts, pc, shapers, out>>

Jobs == Packets \X Clients

\* A probe is not a packet that somebody queued.
SendAssumption ==
  /\ None \notin (Packets \cup {Probe}) \X Clients /\ Probe \notin Packets
  /\ Batch \in Nat \ {0}

Init ==
  /\ mode \in {"plain", "shaped", "autorate"} /\ stopped = FALSE
  /\ prio = <<>> /\ queue = <<>> /\ pushing = None /\ high = FALSE
  /\ refs = [p \in Packets |-> 0] /\ probes = [c \in Clients |-> 0]
  /\ pc = "wait" /\ paths = {} /\ held = {} /\ quiet = {} /\ out = {}

\* The jobs of S, each with one reference, are released.
Release(S) ==
  /\ refs' = [p \in Packets |-> refs[p] - Cardinality({j \in S : j[1] = p})]
  /\ probes' = [c \in Clients |-> probes[c] - Cardinality({j \in S : j = <<Probe, c>>})]

-----------------------------------------------------------------------------
(* queueSendWithPriority.                                                  *)

\* The job has its own reference before the stop channel is checked; a job is
\* only queued again once it is gone, which bounds the model.
QueueSend(j, h) ==
  /\ pushing = None /\ ~stopped
  /\ j \notin held \cup out \cup ToSet(prio) \cup ToSet(queue)
  /\ pushing' = j /\ high' = h
  /\ refs' = [refs EXCEPT ![j[1]] = @ + 1]
  /\ UNCHANGED <<mode, stopped, channels, probes, pc, shapers, out>>

\* Mutant: a job that found no room keeps its reference.
PushKeeps ==
  /\ pushing # None /\ pushing' = None /\ high' = FALSE
  /\ LET toPrio == high /\ Len(prio) < PrioSize
         toQueue == ~toPrio /\ Len(queue) < QueueSize
     IN /\ prio' = IF toPrio THEN Append(prio, pushing) ELSE prio
        /\ queue' = IF toQueue THEN Append(queue, pushing) ELSE queue
  /\ UNCHANGED <<mode, stopped, counts, pc, shapers, out>>

\* The priority channel falls back to the other; with both full the job is
\* dropped.
Push ==
  /\ pushing # None /\ pushing' = None /\ high' = FALSE
  /\ LET toPrio == high /\ Len(prio) < PrioSize
         toQueue == ~toPrio /\ Len(queue) < QueueSize
     IN /\ prio' = IF toPrio THEN Append(prio, pushing) ELSE prio
        /\ queue' = IF toQueue THEN Append(queue, pushing) ELSE queue
        /\ Release(IF toPrio \/ toQueue THEN {} ELSE {pushing})
  /\ UNCHANGED <<mode, stopped, pc, shapers, out>>

-----------------------------------------------------------------------------
(* runSendLoop.                                                            *)

\* A batch: priority jobs first, then the others.
Collect(n) ==
  /\ mode = "plain" /\ pc = "wait"
  /\ LET jobs == prio \o queue IN
     /\ n \in 1..Batch /\ n <= Len(jobs)
     /\ n < Batch => n = Len(jobs)
     /\ out' = ToSet(SubSeq(jobs, 1, n))
     /\ prio' = SubSeq(prio, n + 1, Len(prio))
     /\ queue' = SubSeq(queue, IF n > Len(prio) THEN n - Len(prio) + 1 ELSE 1, Len(queue))
  /\ pc' = "write"
  /\ UNCHANGED <<mode, stopped, pushing, high, counts, shapers>>

\* flush: a datagram that cannot be sent is skipped; all are released.
Write ==
  /\ pc = "write" /\ pc' = "wait" /\ out' = {}
  /\ Release(out)
  /\ UNCHANGED <<mode, stopped, channels, pushing, high, shapers>>

-----------------------------------------------------------------------------
(* runShapedSendLoop.                                                      *)

\* A job goes to the shaper of its client, which is created if there is none.
\* Data may push out older data there; whatever has no room is dropped.
Shape(j, isControl, drops) ==
  /\ paths' = paths \cup {j[2]}
  /\ drops \subseteq IF isControl THEN {j} ELSE {k \in held \cup {j} : k[2] = j[2]}
  /\ held' = (held \cup {j}) \ drops
  /\ quiet' = IF isControl \/ j \in drops THEN quiet ELSE quiet \ {j[2]}
  /\ Release(drops)

\* drain and select take from either channel.
MovePrio ==
  /\ mode # "plain" /\ pc = "wait" /\ prio # <<>>
  /\ prio' = Tail(prio)
  /\ \E drops \in SUBSET (held \cup {Head(prio)}) : Shape(Head(prio), TRUE, drops)
  /\ UNCHANGED <<mode, stopped, queue, pushing, high, pc, out>>

MoveQueue ==
  /\ mode # "plain" /\ pc = "wait" /\ queue # <<>>
  /\ queue' = Tail(queue)
  /\ \E drops \in SUBSET (held \cup {Head(queue)}) : Shape(Head(queue), FALSE, drops)
  /\ UNCHANGED <<mode, stopped, prio, pushing, high, pc, out>>

\* probe: a new packet, which the control queue takes or drops.
SendProbe(c) ==
  /\ mode = "autorate" /\ pc = "wait" /\ c \in paths
  /\ probes[c] = 0 /\ probes' = [probes EXCEPT ![c] = 1]
  /\ held' = held \cup {<<Probe, c>>}
  /\ UNCHANGED <<mode, stopped, channels, pushing, high, refs, pc, paths, quiet, out>>

\* send: what the shapers let go is written, what CoDel drops is released.
Send(batch, drops) ==
  /\ mode # "plain" /\ pc = "wait" /\ batch # {}
  /\ batch \subseteq held /\ Cardinality(batch) <= Batch
  /\ drops \subseteq {j \in held \ batch : j[1] # Probe}
  /\ held' = held \ (batch \cup drops) /\ out' = batch
  /\ pc' = "write"
  /\ Release(drops)
  /\ UNCHANGED <<mode, stopped, channels, pushing, high, paths, quiet>>

\* Time passes without data for a client.
Quieten(c) ==
  /\ c \in paths \ quiet
  /\ quiet' = quiet \cup {c}
  /\ UNCHANGED <<mode, stopped, channels, pushing, high, counts, pc, paths, held, out>>

\* idle: nothing queued and no data for a while.
IdlePaths == {c \in paths \cap quiet : \A j \in held : j[2] # c}

Sweep ==
  /\ mode # "plain" /\ pc = "wait" /\ IdlePaths # {}
  /\ paths' = paths \ IdlePaths /\ quiet' = quiet \ IdlePaths
  /\ UNCHANGED <<mode, stopped, channels, pushing, high, counts, pc, held, out>>

-----------------------------------------------------------------------------

\* The loop sees the stop channel: drainSendQueue, and every shaper is reset.
End ==
  /\ stopped /\ pc = "wait" /\ pc' = "ended"
  /\ prio' = <<>> /\ queue' = <<>>
  /\ paths' = {} /\ held' = {} /\ quiet' = {}
  /\ Release(ToSet(prio) \cup ToSet(queue) \cup held)
  /\ UNCHANGED <<mode, stopped, pushing, high, out>>

Stop ==
  /\ ~stopped /\ stopped' = TRUE
  /\ UNCHANGED <<mode, channels, pushing, high, counts, pc, shapers, out>>

Next ==
  \/ \E j \in Jobs, h \in BOOLEAN : QueueSend(j, h)
  \/ Push \/ Write \/ MovePrio \/ MoveQueue \/ Sweep \/ End \/ Stop
  \/ \E n \in 1..Batch : Collect(n)
  \/ \E batch, drops \in SUBSET held : Send(batch, drops)
  \/ \E c \in Clients : SendProbe(c) \/ Quieten(c)

Spec == Init /\ [][Next]_vars

-----------------------------------------------------------------------------

\* Where a job of packet p, or the probe of client c, is.
Holders(p) == {j \in held \cup out \cup ToSet(prio) \cup ToSet(queue) \cup {pushing} :
                 j # None /\ j[1] = p}

\* However a packet is queued for several clients, dropped by a full channel or a
\* shaper, written, swept or drained at Stop, each of its jobs owns exactly one
\* reference: no buffer is freed while a client still waits for it, and none leaks
\* with a path that is thrown away (queueSendWithPriority, enqueue, flush, reset).
JobsOwnReferences ==
  /\ \A p \in Packets : refs[p] = Cardinality(Holders(p))
  /\ \A c \in Clients : probes[c] = Cardinality({<<Probe, c>>} \cap (held \cup out))
=============================================================================
