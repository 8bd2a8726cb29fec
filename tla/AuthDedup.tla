------------------------------- MODULE AuthDedup -------------------------------
(***************************************************************************)
(* Deduplication of encrypted data (src/auth_protocol.go): nonces of a     *)
(* random frame ID and a sequence number, a bitmap per frame, the cleanup  *)
(* of frames, and the order in which UnwrapData checks the bitmap, the     *)
(* timestamp and marks the nonce.  One end sends over lines that copy and  *)
(* delay; a copy may come back to the sender.  Several readers of one end  *)
(* share its manager (one per forwarder connection, or per TCP connection).*)
(*                                                                         *)
(* Frame IDs are random and never repeat here; decryption never fails.     *)
(***************************************************************************)
EXTENDS Integers, FiniteSets

CONSTANTS
  FrameCount,   \* bound on the frames a sender uses
  BitmapSize,   \* sequence numbers of a frame (65535)
  DataTimeout,  \* age at which a message is refused (65 s)
  FrameTimeout, \* time after which an unused frame is dropped (120 s)
  Skews,        \* how far the sender's clock may be ahead of the receiver's
  MaxTime,      \* bound on time
  Readers,      \* readers of the receiving end
  None

VARIABLES
  now,        \* the receiver's clock
  skew,       \* the sender's clock minus the receiver's
  active,     \* the readers that run
  frame, seq, \* currentFrame and currentSeq of the sender
  sent,       \* messages sent; the network may deliver each any number of times
  bitmap,     \* [Ends -> [Frames -> marked sequence numbers]]
  access,     \* [Ends -> [Frames -> lastAccess, None: no tracker]]
  handling,   \* [Readers -> message that passed isDuplicate, None]
  delivered   \* [Nonces -> how often it was delivered]

network == <<now, skew, active, sent>>
nonce == <<frame, seq>>
tracker == <<bitmap, access>>
vars == <<network, nonce, tracker, handling, delivered>>

\* What the constants of the code satisfy (auth_protocol.go:50-58).
DedupAssumption ==
  /\ FrameCount \in Nat \ {0} /\ BitmapSize \in Nat \ {0}
  /\ DataTimeout \in Nat /\ FrameTimeout \in Nat /\ DataTimeout <= FrameTimeout
  /\ Skews \subseteq Int /\ IsFiniteSet(Readers)
  /\ None \notin Int /\ None \notin [nonce : Nat \X Nat, time : Int]

Ends == {"sender", "receiver"}
Frames == 1..FrameCount
Nonces == Frames \X (0..BitmapSize)

Init ==
  /\ now = 0 /\ skew \in Skews
  /\ active \in {S \in SUBSET Readers : S # {}}
  /\ frame = 1 /\ seq = 0 /\ sent = {}
  /\ bitmap = [e \in Ends |-> [f \in Frames |-> {}]]
  /\ access = [e \in Ends |-> [f \in Frames |-> None]]
  /\ handling = [r \in Readers |-> None]
  /\ delivered = [n \in Nonces |-> 0]

-----------------------------------------------------------------------------

\* Mutant: a frame has one sequence number more than the bitmap has bits.
ExhaustedLate == seq > BitmapSize

Exhausted == seq > BitmapSize - 1

\* The nonce that generateNextNonce returns.
NextNonce == IF Exhausted THEN <<frame + 1, 0>> ELSE <<frame, seq>>

\* markAsUsed at an end; a sequence number beyond the bitmap is not marked.
MarkAsUsed(e, n) ==
  /\ access' = [access EXCEPT ![e][n[1]] = now]
  /\ bitmap' = IF n[2] >= BitmapSize THEN bitmap
               ELSE [bitmap EXCEPT ![e][n[1]] = @ \cup {n[2]}]

IsDuplicate(e, n) == n[2] < BitmapSize /\ n[2] \in bitmap[e][n[1]]

\* WrapData: the sender also marks the nonce as used, so that a copy that
\* comes back to it is a duplicate.
WrapData ==
  /\ NextNonce[1] <= FrameCount
  /\ frame' = NextNonce[1] /\ seq' = NextNonce[2] + 1
  /\ sent' = sent \cup {[nonce |-> NextNonce, time |-> now + skew]}
  /\ MarkAsUsed("sender", NextNonce)
  /\ UNCHANGED <<now, skew, active, handling, delivered>>

\* UnwrapData up to the duplicate check.
Check(r, m) ==
  /\ r \in active /\ handling[r] = None
  /\ ~IsDuplicate("receiver", m.nonce)
  /\ now - m.time <= DataTimeout
  /\ handling' = [handling EXCEPT ![r] = m]
  /\ UNCHANGED <<network, nonce, tracker, delivered>>

\* Mutant: the nonce is never marked.
AcceptUnmarked(r) ==
  /\ handling[r] # None
  /\ delivered' = [delivered EXCEPT ![handling[r].nonce] = @ + 1]
  /\ handling' = [handling EXCEPT ![r] = None]
  /\ UNCHANGED <<network, nonce, tracker>>

\* The rest: the message is decrypted, young enough, and marked; it is
\* delivered.  (One that has become too old is dropped by Refuse.)
Accept(r) ==
  /\ handling[r] # None /\ now - handling[r].time <= DataTimeout
  /\ MarkAsUsed("receiver", handling[r].nonce)
  /\ delivered' = [delivered EXCEPT ![handling[r].nonce] = @ + 1]
  /\ handling' = [handling EXCEPT ![r] = None]
  /\ UNCHANGED <<network, nonce>>

\* The timestamp has expired.
Refuse(r) ==
  /\ handling[r] # None /\ now - handling[r].time > DataTimeout
  /\ handling' = [handling EXCEPT ![r] = None]
  /\ UNCHANGED <<network, nonce, tracker, delivered>>

Old(e, f) == access[e][f] # None /\ access[e][f] < now - FrameTimeout

\* cleanupExpiredFrames.
Cleanup(e) ==
  /\ \E f \in Frames : Old(e, f)
  /\ bitmap' = [bitmap EXCEPT ![e] = [f \in Frames |-> IF Old(e, f) THEN {} ELSE @[f]]]
  /\ access' = [access EXCEPT ![e] = [f \in Frames |-> IF Old(e, f) THEN None ELSE @[f]]]
  /\ UNCHANGED <<network, nonce, handling, delivered>>

Tick ==
  /\ now < MaxTime /\ now' = now + 1
  /\ UNCHANGED <<skew, active, sent, nonce, tracker, handling, delivered>>

Next ==
  \/ WrapData \/ Tick
  \/ \E e \in Ends : Cleanup(e)
  \/ \E r \in Readers : Accept(r) \/ Refuse(r) \/ \E m \in sent : Check(r, m)

Spec == Init /\ [][Next]_vars

-----------------------------------------------------------------------------

Promise == INSTANCE Delivery WITH
  Messages <- Nonces, readers <- Cardinality(active), delivered <- delivered

\* However copies are delayed or meet the cleanup of frames, and while clocks
\* differ by no more than FrameTimeout - DataTimeout, no message is delivered
\* more often than there are concurrent readers: at most once by a single one
\* (UnwrapData, markAsUsed, cleanupExpiredFrames).
ImplementsDelivery == Promise!Spec

\* A copy that comes back to its sender is never taken for a message of the
\* peer: until it has expired, the sender's own mark is there, whatever the
\* cleanup dropped (WrapData marks what it sends).
ReflectionIsDropped ==
  \A m \in sent : now + skew - m.time <= DataTimeout => IsDuplicate("sender", m.nonce)
=============================================================================
