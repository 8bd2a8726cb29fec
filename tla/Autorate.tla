------------------------------- MODULE Autorate -------------------------------
(***************************************************************************)
(* The rate controller of one path (src/autorate.go): the receive goroutine*)
(* adds delay samples from probe acks, the send loop asks for the rate.    *)
(* Both hold the mutex, so each is one step.                               *)
(*                                                                         *)
(* Times are relative to now and capped where nothing tells them apart.    *)
(* The slow rise of the baseline and the exponential raise and decay are   *)
(* any amount up to where they lead.                                       *)
(***************************************************************************)
EXTENDS Integers, FiniteSetsExt

CONSTANTS
  MinRate, BaseRate, MaxRate,
  Delays,              \* one-way delays that the peer may report
  Threshold,           \* extra delay that counts as bufferbloat
  MaxRtt,              \* round trip time beyond which an ack is ignored
  StaleAfter,          \* time without samples after which there is no information
  DecreaseRefractory, IncreaseRefractory

VARIABLES
  rate,
  baseline,      \* lowest delay seen, rising slowly; Unset: no sample yet
  delayed,       \* over-threshold flags of the last 4 samples, newest in bit 0
  fresh,         \* whether there is a sample since the last tick
  sinceSample,   \* time since the last sample; StaleAfter + 1: longer, or none
  sinceDecrease, \* time since the last decrease, up to IncreaseRefractory
  sinceTick,     \* whether time has passed since the last tick
  evidence       \* delayed samples since the last decrease, up to 2

vars == <<rate, baseline, delayed, fresh, sinceSample, sinceDecrease, sinceTick, evidence>>

\* The rates and refractory times of the settings (newAutorateSettings).
RateAssumption ==
  /\ MinRate \in Nat /\ BaseRate \in Nat /\ MaxRate \in Nat
  /\ DecreaseRefractory \in Nat /\ IncreaseRefractory \in Nat

Unset == -1

Init ==
  /\ rate = BaseRate /\ baseline = Unset
  /\ delayed = 0 /\ fresh = FALSE /\ sinceSample = StaleAfter + 1
  /\ sinceDecrease = IncreaseRefractory /\ sinceTick = FALSE
  /\ evidence = 0

\* The baseline after a sample: lower samples at once, higher ones slowly.
Baselines(d) == IF baseline = Unset \/ d < baseline THEN {d} ELSE baseline..d

\* handleForwarderPacket and the listener pass on an ack that parseProbeAck accepts.
AddSample(d, rtt) ==
  /\ rtt <= MaxRtt
  /\ baseline' \in Baselines(d)
  /\ LET late == IF d - baseline' > Threshold THEN 1 ELSE 0
     IN /\ delayed' = (2 * delayed + late) % 16
        /\ evidence' = Min({evidence + late, 2})
  /\ fresh' = TRUE /\ sinceSample' = 0
  /\ UNCHANGED <<rate, sinceDecrease, sinceTick>>

Bit(n, i) == (n \div <<1, 2, 4, 8>>[i + 1]) % 2

\* At least 2 of the last 4 samples were delayed.
Bloated == Bit(delayed, 0) + Bit(delayed, 1) + Bit(delayed, 2) + Bit(delayed, 3) >= 2

Stale == sinceSample > StaleAfter

\* Mutant: the flags survive the decrease they caused.
DecreaseAgain(achieved) ==
  /\ ~Stale /\ fresh /\ Bloated
  /\ sinceDecrease >= DecreaseRefractory
  /\ rate' = Max({MinRate, (Min({rate, achieved}) * 9) \div 10})
  /\ sinceDecrease' = 0 /\ evidence' = 0
  /\ UNCHANGED delayed

\* The bottleneck queue grows: back off from what was achieved.
Decrease(achieved) ==
  /\ ~Stale /\ fresh /\ Bloated
  /\ sinceDecrease >= DecreaseRefractory
  /\ rate' = Max({MinRate, (Min({rate, achieved}) * 9) \div 10})
  /\ sinceDecrease' = 0 /\ delayed' = 0 /\ evidence' = 0

Utilised(achieved) == 4 * achieved >= 3 * rate

\* The path is busy and clean: probe upwards.
Increase(achieved) ==
  /\ ~Stale /\ ~(fresh /\ Bloated) /\ Utilised(achieved)
  /\ sinceDecrease >= IncreaseRefractory
  /\ rate' \in rate..MaxRate
  /\ UNCHANGED <<sinceDecrease, delayed, evidence>>

\* It is not busy: drift towards the base rate.
Drift(achieved) ==
  /\ ~Stale /\ ~(fresh /\ Bloated) /\ ~Utilised(achieved)
  /\ rate' \in (rate..BaseRate) \cup (BaseRate..rate)
  /\ UNCHANGED <<sinceDecrease, delayed, evidence>>

Hold(achieved) ==
  /\ ~Stale
  /\ \/ fresh /\ Bloated /\ sinceDecrease < DecreaseRefractory
     \/ ~(fresh /\ Bloated) /\ Utilised(achieved) /\ sinceDecrease < IncreaseRefractory
  /\ UNCHANGED <<rate, sinceDecrease, delayed, evidence>>

Forget ==
  /\ Stale /\ rate' = BaseRate
  /\ UNCHANGED <<sinceDecrease, delayed, evidence>>

\* tick, with the rate achieved since the last one.
TickAt(achieved) ==
  /\ sinceTick /\ sinceTick' = FALSE /\ fresh' = FALSE
  /\ Decrease(achieved) \/ Increase(achieved) \/ Drift(achieved) \/ Hold(achieved) \/ Forget
  /\ UNCHANGED <<baseline, sinceSample>>

Pass ==
  /\ sinceTick' = TRUE
  /\ sinceSample' = Min({sinceSample + 1, StaleAfter + 1})
  /\ sinceDecrease' = Min({sinceDecrease + 1, IncreaseRefractory})
  /\ UNCHANGED <<rate, baseline, delayed, fresh, evidence>>

Next ==
  \/ \E d \in Delays, rtt \in 0..(MaxRtt + 1) : AddSample(d, rtt)
  \/ \E achieved \in 0..(MaxRate + 1) : TickAt(achieved)
  \/ Pass

Spec == Init /\ [][Next]_vars

-----------------------------------------------------------------------------

\* The rate falls below the base rate only once the refractory time has passed since
\* the last decrease, and only on two delayed samples added after it: no sample is
\* answered twice.  (Delayed samples that follow are new, so a queue that stays full
\* is cut again, once per refractory time.)  Below the base rate nothing else lowers
\* the rate (tick, addSample, bloated).
CutsOnNewSamples ==
  [][rate' < rate /\ rate' < BaseRate => evidence = 2 /\ sinceDecrease >= DecreaseRefractory]_vars
=============================================================================
