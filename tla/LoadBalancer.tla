---------------------------- MODULE LoadBalancer ----------------------------
(***************************************************************************)
(* The load balancer (src/load_balancer.go): receive goroutines count and  *)
(* route packets while the sampler moves the counters into its window and  *)
(* refreshes the cached rules.  Each access to the counters and each rule  *)
(* the sampler refreshes is a step of its own; a packet reads the cached   *)
(* results of all rules in one.                                            *)
(*                                                                         *)
(* A packet is one byte long.  A rule depends on the sequence number, on   *)
(* the traffic, or on nothing; compiling and running its expression is a   *)
(* library's work.                                                         *)
(***************************************************************************)
EXTENDS Integers, Sequences, FiniteSetsExt, Functions

CONSTANTS
  Readers,      \* receive goroutines
  Batches,      \* ids of receive batches; 0 stands for none
  WindowSize,
  MaxPackets,   \* bound on the packets of an interval
  Busy,         \* the traffic rule holds from this average on
  Rules,        \* [rule -> "seq" | "bps" | "const"]
  HasMiss       \* whether there are targets for packets that no rule matches

VARIABLES
  caching, batching,  \* enableCache and batchDecision
  current,    \* bytes of this interval
  total,      \* bytes of the window
  samples,    \* the ring buffer
  index,      \* currentIndex
  sampling,   \* where sampleStats is
  taken,      \* the bytes it has swapped out
  stale,      \* the rules that it has yet to refresh
  measured,   \* the bytes of the window for these
  cached,     \* [rule -> cachedResult]
  seq,        \* packetSeq modulo 2
  lastBatch,  \* the last batch and the rules that matched it
  pc,         \* [Readers -> where HandlePacket is]
  batch,      \* [Readers -> batch of its packet]
  seen,       \* [Readers -> total that getCurrentStats has loaded]
  intervals   \* bytes received in the last WindowSize + 1 intervals, newest first

\* The window has a sample; with none, sampleStats divides by zero.
WindowAssumption == WindowSize \in Nat \ {0}

config == <<caching, batching>>
stats == <<current, total>>
rules == <<stale, measured, cached>>
ring == <<samples, index, sampling, taken, rules, intervals>>
routing == <<seq, lastBatch, pc, batch, seen>>
vars == <<config, stats, ring, routing>>

\* compileExpression: without variables, a rule is cached even if caching is off.
CanCache(r) == Rules[r] = "const" \/ (Rules[r] = "bps" /\ caching)

Init ==
  /\ caching \in BOOLEAN /\ batching \in BOOLEAN
  /\ current = 0 /\ total = 0
  /\ samples = [i \in 0..(WindowSize - 1) |-> 0] /\ index = 0
  /\ sampling = "idle" /\ taken = 0 /\ stale = {} /\ measured = 0
  /\ cached = [r \in DOMAIN Rules |-> FALSE]
  /\ seq = 0 /\ lastBatch = [batch |-> 0, rules |-> {}]
  /\ pc = [x \in Readers |-> "idle"] /\ batch = [x \in Readers |-> 0]
  /\ seen = [x \in Readers |-> 0]
  /\ intervals = [i \in 1..(WindowSize + 1) |-> 0]

Average(bytes) == bytes \div (WindowSize + 1)

\* evaluateExpressionDirect.
Evaluate(r, s, bytes) ==
  \/ Rules[r] = "const"
  \/ Rules[r] = "seq" /\ s = 0
  \/ Rules[r] = "bps" /\ Average(bytes) >= Busy

\* evaluateCompiledRules: the rules that match.
Matching(s, bytes) ==
  {r \in DOMAIN Rules : IF CanCache(r) THEN cached[r] ELSE Evaluate(r, s, bytes)}

-----------------------------------------------------------------------------
(* HandlePacket.                                                           *)

\* updateStats.
Count(x, b) ==
  /\ pc[x] = "idle" /\ current < MaxPackets
  /\ current' = current + 1
  /\ pc' = [pc EXCEPT ![x] = "counted"] /\ batch' = [batch EXCEPT ![x] = b]
  /\ UNCHANGED <<config, total, ring, seq, lastBatch, seen>>

\* A packet of the last batch follows its decision.
Follows(x) == batching /\ batch[x] # 0 /\ lastBatch.batch = batch[x]

FollowBatch(x) ==
  /\ pc[x] = "counted" /\ Follows(x)
  /\ pc' = [pc EXCEPT ![x] = "idle"] /\ batch' = [batch EXCEPT ![x] = 0]
  /\ UNCHANGED <<config, stats, ring, seq, lastBatch, seen>>

LoadTotal(x) ==
  /\ pc[x] = "counted" /\ ~Follows(x)
  /\ seen' = [seen EXCEPT ![x] = total]
  /\ pc' = [pc EXCEPT ![x] = "loaded"]
  /\ UNCHANGED <<config, stats, ring, seq, lastBatch, batch>>

\* The second load, the rules, and the decision for the batch.  A packet that no
\* rule matches goes to the targets of miss; without any it is dropped and
\* decides nothing.
Decide(x) ==
  /\ pc[x] = "loaded" /\ seq' = 1 - seq
  /\ LET matching == Matching(seq', seen[x] + current)
     IN lastBatch' = IF batching /\ batch[x] # 0 /\ (HasMiss \/ matching # {})
                     THEN [batch |-> batch[x], rules |-> matching] ELSE lastBatch
  /\ pc' = [pc EXCEPT ![x] = "idle"] /\ batch' = [batch EXCEPT ![x] = 0]
  /\ seen' = [seen EXCEPT ![x] = 0]
  /\ UNCHANGED <<config, stats, ring>>

-----------------------------------------------------------------------------
(* sampleStats.                                                            *)

Swap ==
  /\ sampling = "idle" /\ sampling' = "swapped"
  /\ taken' = current /\ current' = 0
  /\ index' = (index + 1) % WindowSize
  /\ intervals' = <<current>> \o SubSeq(intervals, 1, WindowSize)
  /\ UNCHANGED <<config, total, samples, rules, routing>>

AddTaken ==
  /\ sampling = "swapped" /\ sampling' = "added"
  /\ total' = total + taken
  /\ UNCHANGED <<config, current, samples, index, taken, rules, intervals, routing>>

\* Mutant: the sample that is taken off is the new one.
TakeNewestOff ==
  /\ sampling = "added" /\ sampling' = "emptied"
  /\ total' = total - taken
  /\ UNCHANGED <<config, current, samples, index, taken, rules, intervals, routing>>

\* The oldest sample is taken off ...
TakeOldestOff ==
  /\ sampling = "added" /\ sampling' = "emptied"
  /\ total' = total - samples[index]
  /\ UNCHANGED <<config, current, samples, index, taken, rules, intervals, routing>>

\* ... and its place used.
Store ==
  /\ sampling = "emptied" /\ sampling' = "stored"
  /\ samples' = [samples EXCEPT ![index] = taken] /\ taken' = 0
  /\ UNCHANGED <<config, stats, index, rules, intervals, routing>>

\* updateCachedResults: getCurrentStats (only the sampler changes total), ...
Measure ==
  /\ sampling = "stored" /\ sampling' = IF caching THEN "refresh" ELSE "idle"
  /\ measured' = IF caching THEN total + current ELSE 0
  /\ stale' = IF caching THEN {r \in DOMAIN Rules : CanCache(r)} ELSE {}
  /\ UNCHANGED <<config, stats, samples, index, taken, cached, intervals, routing>>

\* ... and one rule after the other.
Refresh ==
  /\ sampling = "refresh" /\ stale # {}
  /\ LET r == Min(stale)
     IN /\ cached' = [cached EXCEPT ![r] = Evaluate(r, 0, measured)]
        /\ stale' = stale \ {r}
  /\ UNCHANGED <<config, stats, samples, index, sampling, taken, measured, intervals, routing>>

RefreshEnds ==
  /\ sampling = "refresh" /\ stale = {}
  /\ sampling' = "idle" /\ measured' = 0
  /\ UNCHANGED <<config, stats, samples, index, taken, stale, cached, intervals, routing>>

Next ==
  \/ \E x \in Readers : FollowBatch(x) \/ LoadTotal(x) \/ Decide(x)
                        \/ \E b \in Batches \cup {0} : Count(x, b)
  \/ Swap \/ AddTaken \/ TakeOldestOff \/ Store \/ Measure \/ Refresh \/ RefreshEnds

Spec == Init /\ [][Next]_vars

-----------------------------------------------------------------------------

\* The bytes of the newest n intervals that have ended.
Received(n) == SumFunctionOnSet(intervals, 1..n)

\* Whatever packets are counted meanwhile, the window's total is the bytes received
\* in the last WindowSize intervals: none is lost between the swap and the ring, or
\* stays in the total when its interval has left the window; while sampleStats runs
\* it is off by one interval at most (sampleStats, updateStats).
WindowIsExact ==
  total = CASE sampling = "swapped" -> Received(WindowSize + 1) - taken
            [] sampling = "added" -> Received(WindowSize + 1)
            [] OTHER -> Received(WindowSize)
=============================================================================
