---------------------------- MODULE AuthDedupProofs ----------------------------
(***************************************************************************)
(* Deduplication delivers no message more often than there are concurrent  *)
(* readers while clocks differ little enough, and never takes a reflected  *)
(* message for one of the peer, for any frames, bitmaps, readers and       *)
(* time-outs.                                                              *)
(***************************************************************************)
EXTENDS AuthDedup, FiniteSetTheorems, TLAPS

\* No clock is so far ahead that a message outlives the frame that marks it (65 s
\* and 120 s in the code).
SkewsAreSmall == \A s \in Skews : s <= FrameTimeout - DataTimeout

\* The sender is at a sequence number the bitmap has a bit for, or just beyond, and
\* only readers that run handle messages.
DedupTyped ==
  /\ now \in Nat /\ skew \in Skews
  /\ active \subseteq Readers
  /\ frame \in Frames /\ seq \in 0 .. BitmapSize
  /\ sent \subseteq [nonce : Frames \X (0 .. BitmapSize - 1), time : Int]
  /\ bitmap \in [Ends -> [Frames -> SUBSET Nat]]
  /\ access \in [Ends -> [Frames -> Int \cup {None}]]
  /\ handling \in [Readers -> sent \cup {None}]
  /\ \A r \in Readers : handling[r] # None => r \in active
  /\ delivered \in [Nonces -> Nat]

\* Nonces of the messages sent precede the next one, and no message was sent later
\* than now.
SentBefore ==
  \A m \in sent :
    /\ m.nonce[1] < frame \/ (m.nonce[1] = frame /\ m.nonce[2] < seq)
    /\ m.time <= now + skew

\* End e has marked message m since it was sent.
Marked(e, m) ==
  /\ m.nonce[2] \in bitmap[e][m.nonce[1]]
  /\ access[e][m.nonce[1]] # None
  /\ m.time - skew <= access[e][m.nonce[1]]

\* The sender's own mark outlasts the message (WrapData).
SentIsMarked ==
  \A m \in sent : now + skew - m.time <= DataTimeout => Marked("sender", m)

\* A message that was delivered was sent, and the receiver keeps its mark until
\* FrameTimeout has passed since then.
DeliveredIsMarked ==
  /\ \A n \in Nonces : delivered[n] # 0 => \E m \in sent : m.nonce = n
  /\ \A m \in sent :
       delivered[m.nonce] # 0 /\ now + skew - m.time <= FrameTimeout =>
         Marked("receiver", m)

\* The readers that handle a copy of the message with nonce n.
Handlers(n) == {r \in Readers : handling[r] # None /\ handling[r].nonce = n}

\* Each reader that handles a copy may still deliver it.
CopiesAreBounded ==
  \A n \in Nonces : delivered[n] + Cardinality(Handlers(n)) <= Cardinality(active)

\* Marks are kept whatever the clocks show; that they are kept long enough to bound
\* the deliveries needs small skews.
DedupInv ==
  /\ DedupTyped /\ SentBefore /\ SentIsMarked /\ DeliveredIsMarked
  /\ SkewsAreSmall => CopiesAreBounded

-----------------------------------------------------------------------------
(* One lemma per action.                                                   *)

\* Nothing is sent or marked at first.
LEMMA DedupInit ==
  ASSUME DedupAssumption, Init
  PROVE  DedupInv
<1>1. DedupTyped /\ SentBefore /\ SentIsMarked
  BY DEF DedupAssumption, Init, DedupTyped, SentBefore, SentIsMarked, Frames,
         Nonces
<1>2. DeliveredIsMarked
  BY DEF Init, DeliveredIsMarked
<1>3. IsFiniteSet(active) /\ Cardinality(active) \in Nat
  BY FS_Subset, FS_CardinalityType DEF DedupAssumption, Init
<1>4. \A n \in Nonces : Handlers(n) = {} /\ delivered[n] = 0
  BY DEF Init, Handlers
<1>5. CopiesAreBounded
  BY <1>3, <1>4, FS_EmptySet DEF CopiesAreBounded
<1>6. QED
  BY <1>1, <1>2, <1>5 DEF DedupInv

\* What markAsUsed does to the tracker of end e, and that it keeps older marks.
LEMMA MarkingKeeps ==
  ASSUME DedupAssumption, DedupTyped, NEW e \in Ends,
         NEW n \in Frames \X (0 .. BitmapSize - 1), MarkAsUsed(e, n)
  PROVE  /\ bitmap' \in [Ends -> [Frames -> SUBSET Nat]]
         /\ access' \in [Ends -> [Frames -> Int \cup {None}]]
         /\ n[2] \in bitmap'[e][n[1]] /\ access'[e][n[1]] = now
         /\ \A d \in Ends \ {e} : bitmap'[d] = bitmap[d] /\ access'[d] = access[d]
         /\ \A f \in Frames :
              /\ bitmap[e][f] \subseteq bitmap'[e][f]
              /\ access'[e][f] = IF f = n[1] THEN now ELSE access[e][f]
<1>1. n[1] \in Frames /\ n[2] \in Nat /\ n[2] < BitmapSize
  BY DEF DedupAssumption, Frames
<1>2. /\ bitmap' = [bitmap EXCEPT ![e][n[1]] = @ \cup {n[2]}]
      /\ access' = [access EXCEPT ![e][n[1]] = now]
  BY <1>1 DEF MarkAsUsed, DedupAssumption
<1>3. QED
  BY <1>1, <1>2 DEF DedupTyped

\* A mark stays when its end marks something else.
LEMMA MarkStays ==
  ASSUME DedupAssumption, DedupTyped, SentBefore, skew' = skew,
         NEW e \in Ends, NEW d \in Ends,
         NEW n \in Frames \X (0 .. BitmapSize - 1), MarkAsUsed(e, n),
         NEW m \in sent, Marked(d, m)
  PROVE  Marked(d, m)'
<1>1. /\ m.nonce[1] \in Frames /\ m.time \in Int /\ m.time - skew <= now
      /\ now \in Int /\ skew \in Int
  BY DEF DedupAssumption, DedupTyped, SentBefore
<1>2. None \notin Int
  BY DEF DedupAssumption
<1>3. CASE d = e
  BY <1>1, <1>2, <1>3, MarkingKeeps DEF Marked
<1>4. CASE d # e
  BY <1>1, <1>4, MarkingKeeps DEF Marked
<1>5. QED
  BY <1>3, <1>4

\* WrapData uses a new nonce and marks it at the sender.
LEMMA StepWrap ==
  ASSUME DedupAssumption, DedupInv, WrapData
  PROVE  DedupInv'
<1> USE DEF DedupInv
<1>n. PICK n : n = NextNonce
  OBVIOUS
<1>new. PICK new : new = [nonce |-> n, time |-> now + skew]
  OBVIOUS
<1>1. /\ now \in Nat /\ skew \in Int /\ BitmapSize \in Nat \ {0} /\ FrameCount \in Nat
      /\ frame \in Nat /\ 1 <= frame /\ frame <= FrameCount
      /\ seq \in Nat /\ seq <= BitmapSize
  BY DEF DedupAssumption, DedupTyped, Frames
<1>2. /\ n \in Frames \X (0 .. BitmapSize - 1) /\ n[1] \in Frames
      /\ n[2] \in 0 .. BitmapSize - 1
      /\ frame < n[1] \/ (frame = n[1] /\ seq <= n[2])
  BY <1>1, <1>n DEF WrapData, NextNonce, Exhausted, Frames
<1>3. /\ new \in [nonce : Frames \X (0 .. BitmapSize - 1), time : Int]
      /\ new.nonce = n /\ new.time = now + skew
  BY <1>1, <1>2, <1>new
<1>4. /\ frame' = n[1] /\ seq' = n[2] + 1 /\ sent' = sent \cup {new}
      /\ MarkAsUsed("sender", n) /\ now' = now /\ skew' = skew /\ active' = active
      /\ handling' = handling /\ delivered' = delivered
  BY <1>n, <1>new DEF WrapData
<1>5. /\ "sender" \in Ends /\ "receiver" \in Ends
  BY DEF Ends
<1>6. \A m \in sent : m.nonce # n
  <2>1. \A m \in sent : m.nonce[1] \in Nat /\ m.nonce[2] \in Nat
    BY <1>1 DEF DedupTyped, Frames
  <2>2. \A m \in sent : \/ m.nonce[1] < frame
                        \/ m.nonce[1] = frame /\ m.nonce[2] < seq
    BY DEF SentBefore
  <2>3. n[1] \in Nat /\ n[2] \in Nat
    BY <1>1, <1>2 DEF Frames
  <2>4. QED
    BY <1>1, <1>2, <2>1, <2>2, <2>3
<1>7. n \in Nonces /\ delivered[n] = 0
  BY <1>1, <1>2, <1>6 DEF DeliveredIsMarked, Nonces
<1>8. DedupTyped'
  <2>1. sent' \subseteq [nonce : Frames \X (0 .. BitmapSize - 1), time : Int]
    BY <1>3, <1>4 DEF DedupTyped
  <2>2. frame' \in Frames /\ seq' \in 0 .. BitmapSize
    BY <1>1, <1>2, <1>4
  <2>3. /\ bitmap' \in [Ends -> [Frames -> SUBSET Nat]]
        /\ access' \in [Ends -> [Frames -> Int \cup {None}]]
    BY <1>2, <1>4, <1>5, MarkingKeeps
  <2>4. handling' \in [Readers -> sent' \cup {None}]
    BY <1>4 DEF DedupTyped
  <2>5. QED
    BY <1>4, <2>1, <2>2, <2>3, <2>4 DEF DedupTyped
<1>9. SentBefore'
  <2>1. ASSUME NEW m \in sent'
        PROVE  /\ \/ m.nonce[1] < frame'
                  \/ m.nonce[1] = frame' /\ m.nonce[2] < seq'
               /\ m.time <= now' + skew'
    <3>1. CASE m = new
      BY <1>1, <1>2, <1>3, <1>4, <3>1
    <3>2. CASE m \in sent
      <4>1. m.nonce[1] \in Nat /\ m.nonce[2] \in Nat
        BY <1>1, <3>2 DEF DedupTyped, Frames
      <4>2. QED
        BY <1>1, <1>2, <1>4, <3>2, <4>1 DEF SentBefore, Frames
    <3>3. QED
      BY <1>4, <3>1, <3>2
  <2>2. QED
    BY <2>1 DEF SentBefore
<1>10. ASSUME NEW m \in sent, NEW d \in Ends, Marked(d, m)
       PROVE  Marked(d, m)'
  BY <1>2, <1>4, <1>5, <1>10, MarkStays
<1>11. Marked("sender", new)'
  <2>1. /\ n[2] \in bitmap'["sender"][n[1]] /\ access'["sender"][n[1]] = now
    BY <1>2, <1>4, <1>5, MarkingKeeps
  <2>2. now # None /\ new.time - skew' <= now
    BY <1>1, <1>3, <1>4 DEF DedupAssumption
  <2>3. /\ new.nonce[2] \in bitmap'["sender"][new.nonce[1]]
        /\ access'["sender"][new.nonce[1]] = now
    BY <1>3, <2>1
  <2>4. QED
    BY <2>2, <2>3, Zenon DEF Marked
<1>12. SentIsMarked'
  <2>1. ASSUME NEW m \in sent', now' + skew' - m.time <= DataTimeout
        PROVE  Marked("sender", m)'
    <3>1. CASE m = new
      BY <1>11, <3>1
    <3>2. CASE m \in sent
      BY <1>4, <1>5, <1>10, <2>1, <3>2 DEF SentIsMarked
    <3>3. QED
      BY <1>4, <3>1, <3>2
  <2>2. QED
    BY <2>1 DEF SentIsMarked
<1>13. DeliveredIsMarked'
  <2>1. \A x \in Nonces : delivered'[x] # 0 => \E m \in sent' : m.nonce = x
    BY <1>4 DEF DeliveredIsMarked
  <2>2. ASSUME NEW m \in sent', delivered'[m.nonce] # 0,
               now' + skew' - m.time <= FrameTimeout
        PROVE  Marked("receiver", m)'
    <3>1. m # new
      BY <1>3, <1>4, <1>7, <2>2
    <3>2. m \in sent /\ Marked("receiver", m)
      BY <1>4, <2>2, <3>1 DEF DeliveredIsMarked
    <3>3. QED
      BY <1>5, <1>10, <3>2
  <2>3. QED
    BY <2>1, <2>2 DEF DeliveredIsMarked
<1>14. CopiesAreBounded => CopiesAreBounded'
  BY <1>4 DEF CopiesAreBounded, Handlers
<1>15. QED
  BY <1>8, <1>9, <1>12, <1>13, <1>14
\* A message is young enough to be delivered only while its marks are kept.
LEMMA MarksLast ==
  ASSUME DedupAssumption, DedupTyped, NEW e \in Ends, NEW m \in sent, Marked(e, m),
         now + skew - m.time <= FrameTimeout
  PROVE  ~Old(e, m.nonce[1])
<1>1. /\ m.nonce[1] \in Frames /\ m.time \in Int
      /\ now \in Int /\ skew \in Int /\ FrameTimeout \in Int
      /\ access[e][m.nonce[1]] \in Int \cup {None}
  BY DEF DedupAssumption, DedupTyped
<1>2. access[e][m.nonce[1]] \in Int /\ m.time - skew <= access[e][m.nonce[1]]
  BY <1>1 DEF Marked
<1>3. QED
  BY <1>1, <1>2 DEF Old

\* cleanupExpiredFrames forgets marks of expired messages only.
LEMMA StepCleanup ==
  ASSUME DedupAssumption, DedupInv, NEW e \in Ends, Cleanup(e)
  PROVE  DedupInv'
<1> USE DEF DedupInv
<1>1. /\ now' = now /\ skew' = skew /\ active' = active /\ sent' = sent
      /\ frame' = frame /\ seq' = seq /\ handling' = handling
      /\ delivered' = delivered
  BY DEF Cleanup, network, nonce
<1>2. /\ bitmap' \in [Ends -> [Frames -> SUBSET Nat]]
      /\ access' \in [Ends -> [Frames -> Int \cup {None}]]
      /\ \A d \in Ends : \A f \in Frames :
           ~Old(d, f) => bitmap'[d][f] = bitmap[d][f] /\ access'[d][f] = access[d][f]
  BY DEF Cleanup, DedupTyped
<1>3. DedupTyped'
  BY <1>1, <1>2 DEF DedupTyped
<1>4. SentBefore'
  BY <1>1 DEF SentBefore
<1>5. ASSUME NEW d \in Ends, NEW m \in sent, Marked(d, m),
             now + skew - m.time <= FrameTimeout
      PROVE  Marked(d, m)'
  <2>1. m.nonce[1] \in Frames
    BY DEF DedupTyped
  <2>2. /\ bitmap'[d][m.nonce[1]] = bitmap[d][m.nonce[1]]
        /\ access'[d][m.nonce[1]] = access[d][m.nonce[1]]
    BY <1>2, <1>5, <2>1, MarksLast
  <2>3. QED
    BY <1>1, <1>5, <2>2 DEF Marked
<1>6. /\ now \in Int /\ skew \in Int /\ \A m \in sent : m.time \in Int
      /\ DataTimeout \in Nat /\ FrameTimeout \in Nat /\ DataTimeout <= FrameTimeout
  <2>1. now \in Int /\ skew \in Int /\ \A m \in sent : m.time \in Int
    BY DEF DedupAssumption, DedupTyped
  <2>2. QED
    BY <2>1 DEF DedupAssumption
<1>7. SentIsMarked'
  <2>1. ASSUME NEW m \in sent, now + skew - m.time <= DataTimeout
        PROVE  Marked("sender", m)'
    <3>1. now + skew - m.time <= FrameTimeout
      BY <1>6, <2>1
    <3>2. QED
      BY <1>5, <2>1, <3>1 DEF SentIsMarked, Ends
  <2>2. QED
    BY <1>1, <2>1 DEF SentIsMarked
<1>8. DeliveredIsMarked'
  BY <1>1, <1>5 DEF DeliveredIsMarked, Ends
<1>9. CopiesAreBounded => CopiesAreBounded'
  BY <1>1 DEF CopiesAreBounded, Handlers
<1>10. QED
  BY <1>3, <1>4, <1>7, <1>8, <1>9

\* The clock only makes messages older.
LEMMA StepTick ==
  ASSUME DedupAssumption, DedupInv, Tick
  PROVE  DedupInv'
<1> USE DEF DedupInv
<1>1. /\ now' = now + 1 /\ skew' = skew /\ active' = active /\ sent' = sent
      /\ frame' = frame /\ seq' = seq /\ bitmap' = bitmap /\ access' = access
      /\ handling' = handling /\ delivered' = delivered
  BY DEF Tick, nonce, tracker
<1>2. /\ now \in Nat /\ skew \in Int /\ DataTimeout \in Nat /\ FrameTimeout \in Nat
      /\ \A m \in sent : m.time \in Int
  BY DEF DedupAssumption, DedupTyped
<1>3. DedupTyped'
  BY <1>1, <1>2 DEF DedupTyped
<1>4. SentBefore'
  BY <1>1, <1>2 DEF SentBefore
<1>5. \A d \in Ends : \A m \in sent : Marked(d, m) => Marked(d, m)'
  BY <1>1 DEF Marked
<1>6. SentIsMarked'
  BY <1>1, <1>2, <1>5 DEF SentIsMarked, Ends
<1>7. DeliveredIsMarked'
  BY <1>1, <1>2, <1>5 DEF DeliveredIsMarked, Ends
<1>8. CopiesAreBounded => CopiesAreBounded'
  BY <1>1 DEF CopiesAreBounded, Handlers
<1>9. QED
  BY <1>3, <1>4, <1>6, <1>7, <1>8

\* The handlers of a message are finitely many.
LEMMA HandlersFinite ==
  ASSUME DedupAssumption, DedupTyped, NEW n \in Nonces
  PROVE  /\ IsFiniteSet(active) /\ Cardinality(active) \in Nat
         /\ IsFiniteSet(Handlers(n)) /\ Cardinality(Handlers(n)) \in Nat
         /\ Handlers(n) \subseteq active
         /\ Cardinality(Handlers(n)) <= Cardinality(active)
         /\ delivered[n] \in Nat
<1>1. IsFiniteSet(active)
  BY FS_Subset DEF DedupAssumption, DedupTyped
<1>2. Handlers(n) \in SUBSET active
  BY DEF Handlers, DedupTyped
<1>3. IsFiniteSet(Handlers(n)) /\ Cardinality(Handlers(n)) <= Cardinality(active)
  BY <1>1, <1>2, FS_Subset
<1>4. QED
  BY <1>1, <1>2, <1>3, FS_CardinalityType DEF DedupTyped

\* A message that passes isDuplicate was never delivered, so one more copy of it may
\* be.
LEMMA StepCheck ==
  ASSUME DedupAssumption, DedupInv, NEW r \in Readers, NEW m \in sent, Check(r, m)
  PROVE  DedupInv'
<1> USE DEF DedupInv
<1>1. /\ now' = now /\ skew' = skew /\ active' = active /\ sent' = sent
      /\ frame' = frame /\ seq' = seq /\ bitmap' = bitmap /\ access' = access
      /\ delivered' = delivered
      /\ handling' = [handling EXCEPT ![r] = m]
      /\ r \in active /\ handling[r] = None
  BY DEF Check, network, nonce, tracker
<1>2. /\ m.nonce \in Nonces /\ m.nonce[2] \in Nat /\ m.nonce[2] < BitmapSize
      /\ m # None
  <2>1. /\ m \in [nonce : Frames \X (0 .. BitmapSize - 1), time : Int]
        /\ BitmapSize \in Nat
    BY DEF DedupAssumption, DedupTyped
  <2>2. m \in [nonce : Nat \X Nat, time : Int]
    BY <2>1 DEF Frames
  <2>3. QED
    BY <2>1, <2>2 DEF DedupAssumption, Nonces
<1>3. DedupTyped'
  BY <1>1 DEF DedupTyped
<1>4. SentBefore' /\ SentIsMarked' /\ DeliveredIsMarked'
  BY <1>1 DEF SentBefore, SentIsMarked, DeliveredIsMarked, Marked
<1>5. ASSUME SkewsAreSmall, CopiesAreBounded
      PROVE  CopiesAreBounded'
  <2>1. delivered[m.nonce] = 0
    <3>1. m.nonce[2] \notin bitmap["receiver"][m.nonce[1]] /\ now - m.time <= DataTimeout
      BY <1>2 DEF Check, IsDuplicate
    <3>2. /\ skew <= FrameTimeout - DataTimeout /\ now \in Int /\ skew \in Int
          /\ m.time \in Int /\ FrameTimeout \in Int /\ DataTimeout \in Int
      BY <1>5 DEF SkewsAreSmall, DedupTyped, DedupAssumption
    <3>3. now + skew - m.time <= FrameTimeout
      BY <3>1, <3>2
    <3>4. QED
      BY <1>2, <3>1, <3>3 DEF DeliveredIsMarked, Marked
  <2>2. ASSUME NEW n \in Nonces
        PROVE  delivered[n] + Cardinality(Handlers(n)') <= Cardinality(active)
    <3>1. CASE n = m.nonce
      <4>1. Handlers(n)' = Handlers(n) \cup {r}
        BY <1>1, <1>2, <3>1 DEF Handlers, DedupTyped
      <4>2. Handlers(n)' \in SUBSET active
        BY <1>1, <4>1, HandlersFinite
      <4>3. Cardinality(Handlers(n)') <= Cardinality(active)
        BY <4>2, HandlersFinite, FS_Subset
      <4>4. Cardinality(Handlers(n)') \in Nat
        BY <4>2, HandlersFinite, FS_Subset, FS_CardinalityType
      <4>5. QED
        BY <2>1, <3>1, <4>3, <4>4
    <3>2. CASE n # m.nonce
      <4>1. Handlers(n)' = Handlers(n)
        BY <1>1, <3>2 DEF Handlers, DedupTyped
      <4>2. QED
        BY <1>5, <4>1 DEF CopiesAreBounded
    <3>3. QED
      BY <3>1, <3>2
  <2>3. QED
    BY <1>1, <2>2 DEF CopiesAreBounded
<1>6. QED
  BY <1>3, <1>4, <1>5

\* Refusing a copy that has become too old leaves one reader fewer that handles it.
LEMMA StepRefuse ==
  ASSUME DedupAssumption, DedupInv, NEW r \in Readers, Refuse(r)
  PROVE  DedupInv'
<1> USE DEF DedupInv
<1>1. /\ now' = now /\ skew' = skew /\ active' = active /\ sent' = sent
      /\ frame' = frame /\ seq' = seq /\ bitmap' = bitmap /\ access' = access
      /\ delivered' = delivered
      /\ handling' = [handling EXCEPT ![r] = None]
  BY DEF Refuse, network, nonce, tracker
<1>2. DedupTyped'
  BY <1>1 DEF DedupTyped
<1>3. SentBefore' /\ SentIsMarked' /\ DeliveredIsMarked'
  BY <1>1 DEF SentBefore, SentIsMarked, DeliveredIsMarked, Marked
<1>4. ASSUME CopiesAreBounded, NEW n \in Nonces
      PROVE  delivered[n] + Cardinality(Handlers(n)') <= Cardinality(active)
  <2>1. Handlers(n)' \in SUBSET Handlers(n)
    BY <1>1 DEF Handlers, DedupTyped
  <2>2. /\ Cardinality(Handlers(n)') <= Cardinality(Handlers(n))
        /\ Cardinality(Handlers(n)') \in Nat
    BY <2>1, HandlersFinite, FS_Subset, FS_CardinalityType
  <2>3. QED
    BY <1>4, <2>2, HandlersFinite DEF CopiesAreBounded
<1>5. CopiesAreBounded => CopiesAreBounded'
  BY <1>1, <1>4 DEF CopiesAreBounded
<1>6. QED
  BY <1>2, <1>3, <1>5

\* A reader that accepts a copy marks it, delivers it once, and handles it no more.
LEMMA StepAccept ==
  ASSUME DedupAssumption, DedupInv, NEW r \in Readers, Accept(r)
  PROVE  /\ DedupInv'
         /\ SkewsAreSmall => Promise!Next
<1> USE DEF DedupInv
<1>n. PICK n : n = handling[r].nonce
  OBVIOUS
<1>1. /\ handling[r] \in sent /\ n \in Frames \X (0 .. BitmapSize - 1)
      /\ n \in Nonces /\ n[1] \in Frames /\ now \in Int /\ skew \in Int
      /\ \A m \in sent : m.time \in Int /\ m.nonce[1] \in Frames
  <2>1. handling[r] \in sent
    BY DEF Accept, DedupTyped
  <2>2. BitmapSize \in Nat
    BY DEF DedupAssumption
  <2>3. now \in Int /\ skew \in Int
    BY DEF DedupAssumption, DedupTyped
  <2>4. QED
    BY <1>n, <2>1, <2>2, <2>3 DEF DedupTyped, Nonces
<1>2. /\ now' = now /\ skew' = skew /\ active' = active /\ sent' = sent
      /\ frame' = frame /\ seq' = seq
      /\ delivered' = [delivered EXCEPT ![n] = @ + 1]
      /\ handling' = [handling EXCEPT ![r] = None]
      /\ MarkAsUsed("receiver", n) /\ handling[r] # None
  BY <1>n DEF Accept, network, nonce
<1>3. "receiver" \in Ends /\ "sender" \in Ends
  BY DEF Ends
<1>4. /\ bitmap' \in [Ends -> [Frames -> SUBSET Nat]]
      /\ access' \in [Ends -> [Frames -> Int \cup {None}]]
      /\ n[2] \in bitmap'["receiver"][n[1]] /\ access'["receiver"][n[1]] = now
  BY <1>1, <1>2, <1>3, MarkingKeeps
<1>5. ASSUME NEW m \in sent, NEW d \in Ends, Marked(d, m)
      PROVE  Marked(d, m)'
  BY <1>1, <1>2, <1>3, <1>5, MarkStays
<1>6. DedupTyped'
  <2>1. delivered' \in [Nonces -> Nat]
    BY <1>1, <1>2 DEF DedupTyped
  <2>2. handling' \in [Readers -> sent' \cup {None}]
    BY <1>2 DEF DedupTyped
  <2>3. QED
    BY <1>2, <1>4, <2>1, <2>2 DEF DedupTyped
<1>7. SentBefore'
  BY <1>2 DEF SentBefore
<1>8. SentIsMarked'
  BY <1>2, <1>3, <1>5 DEF SentIsMarked
<1>9. DeliveredIsMarked'
  <2>1. \A x \in Nonces : x # n => delivered'[x] = delivered[x]
    BY <1>2 DEF DedupTyped
  <2>2. \A x \in Nonces : delivered'[x] # 0 => \E m \in sent : m.nonce = x
    BY <1>1, <1>n, <2>1 DEF DeliveredIsMarked
  <2>3. ASSUME NEW m \in sent, delivered'[m.nonce] # 0,
               now + skew - m.time <= FrameTimeout
        PROVE  Marked("receiver", m)'
    <3>1. CASE m.nonce = n
      <4>1. /\ m.nonce[2] \in bitmap'["receiver"][m.nonce[1]]
            /\ access'["receiver"][m.nonce[1]] = now
        BY <1>4, <3>1
      <4>2. now # None /\ m.time - skew' <= now
        BY <1>1, <1>2 DEF SentBefore, DedupAssumption
      <4>3. QED
        BY <4>1, <4>2, Zenon DEF Marked
    <3>2. CASE m.nonce # n
      <4>1. m.nonce \in Nonces
        BY DEF DedupTyped, DedupAssumption, Nonces
      <4>2. delivered[m.nonce] # 0
        BY <2>1, <2>3, <3>2, <4>1
      <4>3. Marked("receiver", m)
        BY <2>3, <4>2 DEF DeliveredIsMarked
      <4>4. QED
        BY <1>3, <1>5, <4>3
    <3>3. QED
      BY <3>1, <3>2
  <2>4. QED
    BY <1>2, <2>2, <2>3 DEF DeliveredIsMarked
<1>10. r \in Handlers(n) /\ Handlers(n)' = Handlers(n) \ {r}
  BY <1>n, <1>2 DEF Handlers, DedupTyped
<1>11. /\ IsFiniteSet(Handlers(n)) /\ delivered[n] \in Nat
       /\ Cardinality(Handlers(n)) \in Nat /\ Cardinality(active) \in Nat
  BY <1>1, HandlersFinite
<1>12. Cardinality(Handlers(n)') = Cardinality(Handlers(n)) - 1
  BY <1>10, <1>11, FS_RemoveElement
<1>13. ASSUME CopiesAreBounded, NEW x \in Nonces
       PROVE  delivered'[x] + Cardinality(Handlers(x)') <= Cardinality(active)
  <2>1. CASE x = n
    <3>1. delivered'[x] = delivered[n] + 1
      BY <1>1, <1>2, <2>1 DEF DedupTyped
    <3>2. delivered[n] + Cardinality(Handlers(n)) <= Cardinality(active)
      BY <1>1, <1>13 DEF CopiesAreBounded
    <3>3. QED
      BY <1>11, <1>12, <2>1, <3>1, <3>2
  <2>2. CASE x # n
    <3>1. delivered'[x] = delivered[x]
      BY <1>1, <1>2, <2>2 DEF DedupTyped
    <3>2. Handlers(x)' = Handlers(x)
      BY <1>n, <1>2, <2>2 DEF Handlers, DedupTyped
    <3>3. QED
      BY <1>13, <3>1, <3>2 DEF CopiesAreBounded
  <2>3. QED
    BY <2>1, <2>2
<1>14. CopiesAreBounded => CopiesAreBounded'
  BY <1>2, <1>13 DEF CopiesAreBounded
<1>15. CopiesAreBounded => Promise!Deliver(n)
  <2>1. Cardinality(Handlers(n)) # 0
    BY <1>10, <1>11, FS_EmptySet
  <2>2. CopiesAreBounded => delivered[n] < Cardinality(active)
    BY <1>1, <1>11, <2>1 DEF CopiesAreBounded
  <2>3. QED
    BY <1>2, <2>2 DEF Promise!Deliver
<1>16. QED
  BY <1>1, <1>6, <1>7, <1>8, <1>9, <1>14, <1>15 DEF Promise!Next

-----------------------------------------------------------------------------

\* Every step keeps the invariant.
LEMMA DedupStep ==
  ASSUME DedupAssumption, DedupInv, [Next]_vars
  PROVE  DedupInv'
<1>1. CASE WrapData
  BY <1>1, StepWrap
<1>2. CASE Tick
  BY <1>2, StepTick
<1>3. ASSUME NEW e \in Ends, Cleanup(e) PROVE DedupInv'
  BY <1>3, StepCleanup
<1>4. ASSUME NEW r \in Readers, Accept(r) PROVE DedupInv'
  BY <1>4, StepAccept
<1>5. ASSUME NEW r \in Readers, Refuse(r) PROVE DedupInv'
  BY <1>5, StepRefuse
<1>6. ASSUME NEW r \in Readers, NEW m \in sent, Check(r, m) PROVE DedupInv'
  BY <1>6, StepCheck
<1>7. CASE UNCHANGED vars
  BY <1>7 DEF vars, network, nonce, tracker, DedupInv, DedupTyped, SentBefore,
              SentIsMarked, DeliveredIsMarked, Marked, CopiesAreBounded, Handlers
<1>8. QED
  BY <1>1, <1>2, <1>3, <1>4, <1>5, <1>6, <1>7 DEF Next

\* Only Accept delivers, and it delivers what the promise allows.
LEMMA StepsDeliver ==
  ASSUME DedupAssumption, SkewsAreSmall, DedupInv, [Next]_vars
  PROVE  [Promise!Next]_(Promise!vars)
<1>1. ASSUME NEW r \in Readers, Accept(r) PROVE Promise!Next
  BY <1>1, StepAccept
<1>2. CASE WrapData \/ Tick \/ UNCHANGED vars \/ (\E e \in Ends : Cleanup(e))
           \/ \E r \in Readers : Refuse(r) \/ \E m \in sent : Check(r, m)
  <2>1. active' = active /\ delivered' = delivered
    BY <1>2 DEF WrapData, Tick, Cleanup, Refuse, Check, vars, network
  <2>2. QED
    BY <2>1 DEF Promise!vars
<1>3. QED
  BY <1>1, <1>2 DEF Next

\* A promise is kept from the start.
LEMMA InitPromises ==
  ASSUME DedupAssumption, Init
  PROVE  Promise!Init
<1>1. Cardinality(active) \in Nat
  BY FS_Subset, FS_CardinalityType DEF DedupAssumption, Init
<1>2. QED
  BY <1>1 DEF Init, Promise!Init

\* A copy of its own message that comes back to a sender while it is young enough
\* is a duplicate, whatever the clocks show: WrapData's own mark is still there.
THEOREM ReflectionDropped ==
  ASSUME DedupAssumption
  PROVE  Spec => []ReflectionIsDropped
<1>1. Init => DedupInv
  BY DedupInit
<1>2. DedupInv /\ [Next]_vars => DedupInv'
  BY DedupStep
<1>3. DedupInv => ReflectionIsDropped
  BY DEF DedupInv, DedupTyped, DedupAssumption, SentIsMarked, Marked,
         ReflectionIsDropped, IsDuplicate
<1>4. QED
  BY <1>1, <1>2, <1>3, PTL DEF Spec

\* UnwrapData, markAsUsed and cleanupExpiredFrames together implement at-most-once
\* delivery per concurrent reader, if no clock is further ahead than FrameTimeout -
\* DataTimeout.
THEOREM DeliversAsPromised ==
  ASSUME DedupAssumption, SkewsAreSmall
  PROVE  Spec => ImplementsDelivery
<1>1. Init => DedupInv /\ Promise!Init
  BY DedupInit, InitPromises
<1>2. DedupInv /\ [Next]_vars => DedupInv'
  BY DedupStep
<1>3. DedupInv /\ [Next]_vars => [Promise!Next]_(Promise!vars)
  BY StepsDeliver
<1>4. QED
  BY <1>1, <1>2, <1>3, PTL DEF Spec, ImplementsDelivery, Promise!Spec
=============================================================================
