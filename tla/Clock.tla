------------------------------- MODULE Clock --------------------------------
(***************************************************************************)
(* The time domain of the flow core (crates/rist-core/src/clock.rs) and    *)
(* the RTT estimator that lives in it (crates/rist-core/src/rtt.rs).       *)
(*                                                                         *)
(* A Timestamp is a natural number of microseconds, a Micros an integer.   *)
(* UsPerSecond, FracMod and SecMod are the three moduli of the NTP-64      *)
(* format: 10^6, 2^32 and 2^32 in the code, small numbers in the models.   *)
(***************************************************************************)
EXTENDS Integers

CONSTANTS UsPerSecond, FracMod, SecMod,
          RttFloor          \* RTT_MIN_FLOOR: 3 ms

ASSUME ClockAssumption ==
  /\ UsPerSecond \in Nat \ {0}
  /\ FracMod \in Nat \ {0}
  /\ SecMod \in Nat \ {0}
  /\ RttFloor \in Nat

\* Timestamp + Micros saturates at zero (the upper bound is 584 000 years away).
SatAdd(t, d) == IF t + d < 0 THEN 0 ELSE t + d

\* Ntp64::from_timestamp: seconds wrap at the NTP era, the fraction is rounded
\* to nearest.
FromTimestamp(t) ==
  ((t \div UsPerSecond) % SecMod) * FracMod
    + ((t % UsPerSecond) * FracMod + UsPerSecond \div 2) \div UsPerSecond

\* Ntp64::to_timestamp, rounding to nearest.
ToTimestamp(n) ==
  (n \div FracMod) * UsPerSecond
    + ((n % FracMod) * UsPerSecond + FracMod \div 2) \div FracMod

\* mul_1_1: (d as f64 * 1.1) truncated.
Mul11(d) == (d * 11) \div 10

MaxOf(a, b) == IF a >= b THEN a ELSE b
MinOf(a, b) == IF a <= b THEN a ELSE b

\* Micros::clamp_range (Rust's clamp: the upper bound is tested last).
ClampRange(x, lo, hi) == IF x < lo THEN lo ELSE IF x > hi THEN hi ELSE x

-----------------------------------------------------------------------------
(* The estimator: eight_times_rtt is the EWMA premultiplied by 8.          *)

EffectiveMin(rtt_min) == MaxOf(rtt_min, RttFloor)

EstimatorNew(rtt_min) == EffectiveMin(rtt_min) * 8

\* observe: negative samples count as zero.
Observe(etr, sample) == etr - etr \div 8 + MaxOf(sample, 0)

Smoothed(etr) == etr \div 8

Clamped(etr, rtt_min, rtt_max) ==
  ClampRange(Smoothed(etr), EffectiveMin(rtt_min), rtt_max)

LastClamped(last, rtt_min, rtt_max) ==
  ClampRange(last, EffectiveMin(rtt_min), rtt_max)

RetryInterval(etr, rtt_min, rtt_max) == Mul11(Clamped(etr, rtt_min, rtt_max))
=============================================================================
