------------------------------ MODULE Components ------------------------------
(***************************************************************************)
(* The listen side of the TCP tunnel, its forward side with the index, its *)
(* heartbeats, deduplication, the shaper, the rate controller and the load *)
(* balancer, with every size left open.  They do not interact here: a      *)
(* behaviour is one of the part that part names.                           *)
(***************************************************************************)
EXTENDS TcpTunnelListen

CONSTANTS
  DialPools, DialConns, DialIDs, Configs, SwitchBacklog, \* of TcpTunnelForward
  MaxLoss, MaxInFlight,                                  \* of TcpTunnelHeartbeat
  FrameCount, BitmapSize, DataTimeout, FrameTimeout, Skews, MaxTime,
  DedupReaders,                                          \* of AuthDedup
  Wires, PrioritySize, ControlWire, Controls, MaxControl, QueueLimit, Rates,
  Share, MinBurst, Standing, Target, Interval, Recent, Law, Batch,
  MaxWait,                                               \* of PathShaper
  MinRate, BaseRate, MaxRate, Delays, Threshold, MaxRtt, StaleAfter,
  DecreaseRefractory, IncreaseRefractory,                \* of Autorate
  Receivers, Batches, WindowSize, MaxPackets, Busy, Rules,
  HasMiss                                                \* of LoadBalancer

VARIABLES
  part, t_connCount, t_pool, t_refill, t_fresh, t_home, t_open, t_auth, t_pc, t_left,
  t_doomed, t_tracked, t_reading, t_sameGen, t_index, t_sender, t_found, t_senderAt,
  t_stopped, h_hb, h_tick, h_echo, h_toPeer, h_toUs, h_closed, h_silent, d_now, d_skew,
  d_active, d_frame, d_seq, d_sent, d_bitmap, d_access, d_handling, d_delivered, s_rate,
  s_control, s_priority, s_bulk, s_tokens, s_priorityTokens, s_codel, s_queuedBytes,
  s_out, s_sleep, s_controls, s_waited, a_rate, a_baseline, a_delayed, a_fresh,
  a_sinceSample, a_sinceDecrease, a_sinceTick, a_evidence, b_caching, b_batching,
  b_current, b_total, b_samples, b_index, b_sampling, b_taken, b_stale, b_measured,
  b_cached, b_seq, b_lastBatch, b_pc, b_batch, b_seen, b_intervals

Dialer == INSTANCE TcpTunnelForward WITH
  Pools <- DialPools, Conns <- DialConns, ConnIDs <- DialIDs, connCount <- t_connCount,
  pool <- t_pool, refill <- t_refill, fresh <- t_fresh, home <- t_home,
  open <- t_open, auth <- t_auth, pc <- t_pc, left <- t_left, doomed <- t_doomed,
  tracked <- t_tracked, reading <- t_reading, sameGen <- t_sameGen,
  index <- t_index, sender <- t_sender, found <- t_found, senderAt <- t_senderAt,
  stopped <- t_stopped

Heart == INSTANCE TcpTunnelHeartbeat WITH
  hb <- h_hb, tick <- h_tick, echo <- h_echo,
  toPeer <- h_toPeer, toUs <- h_toUs, closed <- h_closed, silent <- h_silent

Dedup == INSTANCE AuthDedup WITH
  Readers <- DedupReaders,
  now <- d_now, skew <- d_skew, active <- d_active, frame <- d_frame,
  seq <- d_seq, sent <- d_sent, bitmap <- d_bitmap, access <- d_access,
  handling <- d_handling, delivered <- d_delivered

Shaper == INSTANCE PathShaper WITH
  rate <- s_rate, control <- s_control,
  priority <- s_priority, bulk <- s_bulk, tokens <- s_tokens,
  priorityTokens <- s_priorityTokens, codel <- s_codel,
  queuedBytes <- s_queuedBytes, out <- s_out, sleep <- s_sleep,
  controls <- s_controls, waited <- s_waited

Rate == INSTANCE Autorate WITH
  rate <- a_rate, baseline <- a_baseline,
  delayed <- a_delayed, fresh <- a_fresh, sinceSample <- a_sinceSample,
  sinceDecrease <- a_sinceDecrease, sinceTick <- a_sinceTick,
  evidence <- a_evidence

Balancer == INSTANCE LoadBalancer WITH
  Readers <- Receivers, caching <- b_caching,
  batching <- b_batching, current <- b_current, total <- b_total,
  samples <- b_samples, index <- b_index, sampling <- b_sampling,
  taken <- b_taken, stale <- b_stale, measured <- b_measured,
  cached <- b_cached, seq <- b_seq, lastBatch <- b_lastBatch,
  pc <- b_pc, batch <- b_batch, seen <- b_seen, intervals <- b_intervals

\* What they assume of their constants.
ASSUME ComponentsAssumption ==
  /\ Dialer!PoolsAssumption /\ Heart!HeartbeatAssumption /\ Dedup!DedupAssumption
  /\ Shaper!ShaperAssumption /\ Rate!RateAssumption /\ Balancer!WindowAssumption

dialerVars ==
  <<t_connCount, t_pool, t_refill, t_fresh, t_home, t_open, t_auth, t_pc,
    t_left, t_doomed, t_tracked, t_reading, t_sameGen, t_index, t_sender, t_found,
    t_senderAt, t_stopped>>

heartVars ==
  <<h_hb, h_tick, h_echo, h_toPeer, h_toUs, h_closed, h_silent>>

dedupVars ==
  <<d_now, d_skew, d_active, d_frame, d_seq, d_sent, d_bitmap, d_access,
    d_handling, d_delivered>>

shaperVars ==
  <<s_rate, s_control, s_priority, s_bulk, s_tokens, s_priorityTokens, s_codel,
    s_queuedBytes, s_out, s_sleep, s_controls, s_waited>>

rateVars ==
  <<a_rate, a_baseline, a_delayed, a_fresh, a_sinceSample, a_sinceDecrease,
    a_sinceTick, a_evidence>>

balancerVars ==
  <<b_caching, b_batching, b_current, b_total, b_samples, b_index, b_sampling,
    b_taken, b_stale, b_measured, b_cached, b_seq, b_lastBatch, b_pc, b_batch, b_seen, b_intervals>>

partVars ==
  <<part, vars, dialerVars, heartVars, dedupVars, shaperVars, rateVars,
    balancerVars>>

\* Each part rests in one of its initial states unless it is the one that runs.
PartInit ==
  /\ part \in {"tunnel listen", "tunnel forward", "heartbeat", "dedup",
              "shaper", "autorate", "balancer"}
  /\ Init
  /\ Dialer!Init /\ (part # "tunnel forward" => t_connCount = CHOOSE c \in Configs : TRUE)
  /\ Heart!Init
  /\ Dedup!Init /\ (part # "dedup" => d_skew = CHOOSE s \in Skews : TRUE) /\ (part # "dedup" => d_active = DedupReaders)
  /\ Shaper!Init /\ (part # "shaper" => s_rate = CHOOSE r \in Rates : TRUE)
  /\ Rate!Init
  /\ Balancer!Init /\ (part # "balancer" => ~b_caching /\ ~b_batching)

PartNext ==
  \/ part = "tunnel listen" /\ Next
     /\ UNCHANGED <<part, dialerVars, heartVars, dedupVars, shaperVars, rateVars,
                    balancerVars>>
  \/ part = "tunnel forward" /\ Dialer!Next
     /\ UNCHANGED <<part, vars, heartVars, dedupVars, shaperVars, rateVars,
                    balancerVars>>
  \/ part = "heartbeat" /\ Heart!Next
     /\ UNCHANGED <<part, vars, dialerVars, dedupVars, shaperVars, rateVars,
                    balancerVars>>
  \/ part = "dedup" /\ Dedup!Next
     /\ UNCHANGED <<part, vars, dialerVars, heartVars, shaperVars, rateVars,
                    balancerVars>>
  \/ part = "shaper" /\ Shaper!Next
     /\ UNCHANGED <<part, vars, dialerVars, heartVars, dedupVars, rateVars,
                    balancerVars>>
  \/ part = "autorate" /\ Rate!Next
     /\ UNCHANGED <<part, vars, dialerVars, heartVars, dedupVars, shaperVars,
                    balancerVars>>
  \/ part = "balancer" /\ Balancer!Next
     /\ UNCHANGED <<part, vars, dialerVars, heartVars, dedupVars, shaperVars,
                    rateVars>>

PartSpec == PartInit /\ [][PartNext]_partVars

-----------------------------------------------------------------------------

\* A read loop that skips RememberConnID has its ID in the index (forgetPool).
SkippedIsIndexed == Dialer!SkippedIsIndexed

\* A tunnel connection is given up only if the last MaxLoss - 1 ticks saw no echo,
\* however sendHeartbeat and readLoop interleave (MarkPendingHeartbeatLost,
\* MarkHeartbeatResponse).
GivenUpAfterSilence == Heart!GivenUpAfterSilence

\* Deduplication implements the abstract specification Delivery (UnwrapData,
\* markAsUsed, cleanupExpiredFrames).
ImplementsDelivery == Dedup!ImplementsDelivery

\* A copy that comes back to its sender is dropped until it has expired (WrapData).
ReflectionIsDropped == Dedup!ReflectionIsDropped

\* A path's byte statistic is what its queues hold, within the limit (enqueue, take).
BytesAreQueued == Shaper!BytesAreQueued

\* A flood of small packets does not starve bulk, and the send loop does not oversleep
\* (dequeue, wait).
BulkNotStarved == Shaper!BulkNotStarved

\* The rate is cut after the refractory time and on samples that no earlier cut used
\* (tick, addSample).
CutsOnNewSamples == Rate!CutsOnNewSamples

\* The balancer's window holds the bytes of the last intervals, none lost or kept
\* while packets are counted (sampleStats, updateStats).
WindowIsExact == Balancer!WindowIsExact
=============================================================================
