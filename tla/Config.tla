-------------------------------- MODULE Config --------------------------------
(***************************************************************************)
(* The public configuration (rist/src/config.rs), what validate accepts,   *)
(* and what a session makes of it: the parameters of its flow, the bounds  *)
(* derived from them, its authentication, its reports and its FEC window.  *)
(*                                                                         *)
(* The other modules take these parameters as CONSTANTS with assumptions;  *)
(* here it is said for which configurations the assumptions are true.      *)
(* Durations are whole microseconds, strings are there or not, and numbers *)
(* have the code's own size.                                               *)
(***************************************************************************)
EXTENDS Integers

NoDepth == -1
NoFec   == [columns |-> 0]
MaxU32  == 4294967295
MaxI64  == 9223372036854775807
U32     == 0 .. MaxU32
Depths  == (0 .. 255) \cup {NoDepth}

MaxOf(a, b) == IF a >= b THEN a ELSE b
MinOf(a, b) == IF a <= b THEN a ELSE b

FecConfig == [columns : Nat, rows : Nat, column_only : BOOLEAN,
              carriage : {"default", "in_band", "separate_ports"},
              variant : {"St20221", "St20225"}]

DtlsConfig == {"off", "no_method", "usable"}

Config ==
  [profile : {"simple", "main", "advanced"},
   buffer_min : Nat, buffer_max : Nat, reorder_buffer : Nat,
   rtt_min : Nat, rtt_max : Nat, rtt_multiplier : U32,
   min_retries : U32, max_retries : U32,
   session_timeout : Nat, keepalive_interval : Nat,
   max_bitrate_kbps : U32,
   block_delivery : BOOLEAN, flow_attr : BOOLEAN, compression : BOOLEAN,
   null_packet_deletion : BOOLEAN, fragments : BOOLEAN, aes192 : BOOLEAN,
   recovery_depth : Depths,
   adv_sender_start_main : BOOLEAN, drop_rtt_echo : BOOLEAN,
   secret : BOOLEAN, srp_username : BOOLEAN, srp_password : BOOLEAN, srp_users : BOOLEAN,
   one_way : BOOLEAN, source_adaptation : BOOLEAN,
   fec : FecConfig \cup {NoFec}, dtls : DtlsConfig]

Default ==
  [profile |-> "advanced",
   buffer_min |-> 1000000, buffer_max |-> 1000000, reorder_buffer |-> 15000,
   rtt_min |-> 5000, rtt_max |-> 500000, rtt_multiplier |-> 7,
   min_retries |-> 6, max_retries |-> 20,
   session_timeout |-> 2000000, keepalive_interval |-> 1000000,
   max_bitrate_kbps |-> 100000,
   block_delivery |-> FALSE, flow_attr |-> FALSE, compression |-> FALSE,
   null_packet_deletion |-> FALSE, fragments |-> FALSE, aes192 |-> FALSE,
   recovery_depth |-> NoDepth, adv_sender_start_main |-> FALSE, drop_rtt_echo |-> TRUE,
   secret |-> FALSE, srp_username |-> FALSE, srp_password |-> FALSE, srp_users |-> FALSE,
   one_way |-> FALSE, source_adaptation |-> FALSE,
   fec |-> NoFec, dtls |-> "off"]

-----------------------------------------------------------------------------
(* What validate accepts.  Multicast names are looked up and left out.     *)

Millis(d) == d \div 1000

SomeSrp(c) == c.srp_username \/ c.srp_password \/ c.srp_users

BoundsHold(c) ==
  /\ 50 <= Millis(c.buffer_min) /\ Millis(c.buffer_min) <= 30000 /\ c.buffer_min <= c.buffer_max
  /\ c.reorder_buffer <= c.buffer_min
  /\ 1 <= Millis(c.rtt_min) /\ c.rtt_min <= c.rtt_max /\ Millis(c.rtt_max) <= 1000
  /\ c.rtt_multiplier \in 1 .. 100
  /\ c.min_retries <= c.max_retries /\ c.max_retries <= 100
  /\ c.keepalive_interval # 0 /\ c.keepalive_interval <= c.session_timeout
  /\ c.max_bitrate_kbps # 0

\* A profile rejects what it would silently ignore.
FeaturesFit(c) ==
  /\ c.one_way => ~SomeSrp(c)
  /\ c.block_delivery => c.profile = "main"
  /\ c.flow_attr \/ c.recovery_depth # NoDepth \/ c.adv_sender_start_main
       \/ ~c.drop_rtt_echo \/ c.compression \/ c.fragments => c.profile = "advanced"
  /\ c.recovery_depth <= 16
  /\ c.profile = "simple" => ~c.secret /\ ~SomeSrp(c)
  /\ c.null_packet_deletion => c.profile = "main"
  /\ c.profile = "main" => ~c.aes192

FecFits(c) ==
  c.fec # NoFec =>
    LET f == c.fec IN
    /\ f.columns >= IF f.column_only THEN 1 ELSE 4
    /\ f.columns <= IF f.variant = "St20221" THEN 20 ELSE 1020
    /\ f.rows >= 4 /\ f.rows <= IF f.variant = "St20221" THEN 20 ELSE 255
    /\ f.columns * f.rows <= IF f.variant = "St20221" THEN 100 ELSE 6000
    /\ f.carriage = "in_band" => c.profile = "advanced"

\* srp_users is not looked at.
DtlsFits(c) ==
  c.dtls # "off" =>
    /\ c.profile = "main" /\ c.dtls = "usable"
    /\ ~c.secret /\ ~c.srp_username /\ ~c.srp_password
    /\ c.fec = NoFec

Accepted(c) == BoundsHold(c) /\ FeaturesFit(c) /\ FecFits(c) /\ DtlsFits(c)

-----------------------------------------------------------------------------
(* The flow's parameters.                                                  *)

\* dur_to_micros; the core computes in i64, which wraps in a release build.
Micros(d) == MinOf(d, MaxI64)
I64(n) == ((n + MaxI64 + 1) % (2 * (MaxI64 + 1))) - (MaxI64 + 1)

\* effective_rtt_bounds: a round trip is long enough for max_retries of them
\* to last for the smaller buffer.
RttLow(c) ==
  IF c.max_retries > 0
    THEN MaxOf(Micros(c.rtt_min), Micros(c.buffer_min) \div c.max_retries)
    ELSE Micros(c.rtt_min)

RttHigh(c) == MaxOf(Micros(c.rtt_max), RttLow(c))

\* 1 << (16 + depth), at most 2^24.
DepthSlots(d) ==
  <<65536, 131072, 262144, 524288, 1048576, 2097152, 4194304, 8388608, 16777216>>
    [MinOf(d, 8) + 1]

FlowConfig(c) ==
  [recovery_buffer_min |-> Micros(c.buffer_min), recovery_buffer_max |-> Micros(c.buffer_max),
   reorder_buffer |-> Micros(c.reorder_buffer),
   rtt_min |-> RttLow(c), rtt_max |-> RttHigh(c), max_retries |-> c.max_retries,
   ring_size |-> IF c.recovery_depth = NoDepth THEN 0 ELSE DepthSlots(c.recovery_depth),
   recovery_maxbitrate |-> c.max_bitrate_kbps, no_recovery |-> c.one_way]

RecoveryBuffer(f) ==
  (f.recovery_buffer_max - f.recovery_buffer_min) \div 2 + f.recovery_buffer_min

\* rtt.rs: the floor under every clamp of a round trip (3 ms), and the clamp,
\* which panics unless its bounds are in order.
RttMinFloor == 3000
EffectiveMin(f) == MaxOf(f.rtt_min, RttMinFloor)
ClampDefined(f) == EffectiveMin(f) <= f.rtt_max

\* derive_missing_counter_max, derive_max_nacks_per_loop, derive_ring_size.
\* The rate is not 0, since validate has seen to it.
ToU32(n) == MinOf(MaxOf(n, 0), MaxU32)

MissingCounterMax(f) ==
  ToU32(I64((RecoveryBuffer(f) \div 1000) * MaxOf(f.recovery_maxbitrate \div 1000, 1)) \div 28)

MaxNacksPerLoop(f) ==
  LET n == (((f.recovery_maxbitrate * 5) \div 11200) * 1000)
             \div MaxOf(f.recovery_buffer_max \div 1000, 1)
  IN ToU32(2 * (IF n = 0 THEN 1 ELSE n))

DerivedRing(f) ==
  LET window == MaxOf(I64(f.recovery_buffer_max + 2 * f.rtt_min), RecoveryBuffer(f))
      packets == I64(window * f.recovery_maxbitrate) \div 8800000
  IN MinOf(MaxOf(packets, 65536), 2097152)

\* next_power_of_two, for the sizes that occur.
PowersOfTwo == {65536, 131072, 262144, 524288, 1048576, 2097152, 4194304, 8388608, 16777216}
NextPowerOfTwo(n) == CHOOSE p \in PowersOfTwo : n <= p /\ p < 2 * n

RingSlots(f) == NextPowerOfTwo(IF f.ring_size = 0 THEN DerivedRing(f) ELSE f.ring_size)

-----------------------------------------------------------------------------
(* What else a session is built from.                                      *)

\* build_eap_role.
Authenticates(c, sender) ==
  (c.srp_username /\ c.srp_password) \/ (~sender /\ c.srp_users)

\* build_lqm_emitter.
EmitsReports(c) == c.source_adaptation /\ ~c.one_way

\* Decoder::new, and the values of a group's base that the variant keeps.
FecWindowOf(f) == f.columns * f.rows * 3 + f.columns + 8
BaseSpanOf(f)  == IF f.variant = "St20221" THEN 16777216 ELSE 65536
=============================================================================
