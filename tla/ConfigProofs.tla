----------------------------- MODULE ConfigProofs -----------------------------
(***************************************************************************)
(* What an accepted configuration guarantees to the modules that take its  *)
(* parameters as constants, and where validate leaves a gap.               *)
(***************************************************************************)
EXTENDS Config, TLAPS

-----------------------------------------------------------------------------
(* Arithmetic *)

LEMMA MicrosType ==
  ASSUME NEW d \in Nat PROVE Micros(d) \in Nat /\ Micros(d) <= d /\ Micros(d) <= MaxI64
  BY DEF Micros, MinOf, MaxI64

LEMMA MicrosOrder ==
  ASSUME NEW a \in Nat, NEW b \in Nat, a <= b PROVE Micros(a) <= Micros(b)
  BY DEF Micros, MinOf, MaxI64

LEMMA I64Type == ASSUME NEW n \in Int PROVE I64(n) \in Int
  BY DEF I64, MaxI64

LEMMA I64Small ==
  ASSUME NEW n \in Nat, n <= MaxI64 PROVE I64(n) = n
  BY DEF I64, MaxI64

\* A quotient by a positive number, and what is left.
LEMMA Quotient ==
  ASSUME NEW a \in Nat, NEW r \in Nat \ {0}
  PROVE  a \div r \in Nat /\ r * (a \div r) <= a /\ a < r * (a \div r + 1)
  OBVIOUS

LEMMA ProductType == ASSUME NEW a \in Int, NEW b \in Int PROVE a * b \in Int
  OBVIOUS

LEMMA ProductOrder ==
  ASSUME NEW a \in Nat, NEW b \in Nat, NEW x \in Nat, NEW y \in Nat, a <= x, b <= y
  PROVE  a * b \in Nat /\ a * b <= x * y
  <1>1. a * b \in Nat /\ x * b \in Nat /\ x * y \in Nat OBVIOUS
  <1>2. a * b <= x * b OBVIOUS
  <1>3. x * b <= x * y OBVIOUS
  <1> QED BY <1>1, <1>2, <1>3

\* The bounds handed to the flow.
LEMMA RttType ==
  ASSUME NEW c \in Config PROVE RttLow(c) \in Nat /\ RttHigh(c) \in Nat /\ RttLow(c) <= RttHigh(c)
  <1>1. c.rtt_min \in Nat /\ c.rtt_max \in Nat /\ c.buffer_min \in Nat /\ c.max_retries \in Nat
    BY DEF Config, U32
  <1>2. Micros(c.rtt_min) \in Nat /\ Micros(c.rtt_max) \in Nat /\ Micros(c.buffer_min) \in Nat
    BY <1>1, MicrosType
  <1>3. c.max_retries > 0 => Micros(c.buffer_min) \div c.max_retries \in Nat
    BY <1>1, <1>2, Quotient
  <1> QED BY <1>1, <1>2, <1>3 DEF RttLow, RttHigh, MaxOf

LEMMA BufferType ==
  ASSUME NEW c \in Config, BoundsHold(c)
  PROVE  LET f == FlowConfig(c) IN
         /\ f.recovery_buffer_min \in Nat /\ f.recovery_buffer_max \in Nat
         /\ f.reorder_buffer \in Nat
         /\ f.recovery_buffer_min <= f.recovery_buffer_max
         /\ f.reorder_buffer <= f.recovery_buffer_min
         /\ RecoveryBuffer(f) \in f.recovery_buffer_min .. f.recovery_buffer_max
  <1>1. c.buffer_min \in Nat /\ c.buffer_max \in Nat /\ c.reorder_buffer \in Nat BY DEF Config
  <1>2. c.buffer_min <= c.buffer_max /\ c.reorder_buffer <= c.buffer_min
    BY SMT DEF BoundsHold
  <1>3. /\ Micros(c.buffer_min) \in Nat /\ Micros(c.buffer_max) \in Nat
        /\ Micros(c.reorder_buffer) \in Nat
        /\ Micros(c.buffer_min) <= Micros(c.buffer_max)
        /\ Micros(c.reorder_buffer) <= Micros(c.buffer_min)
    BY <1>1, <1>2, MicrosType, MicrosOrder
  <1> QED BY <1>3 DEF FlowConfig, RecoveryBuffer

\* The sizes a ring is derived from are those next_power_of_two is asked for.
LEMMA RateType ==
  ASSUME NEW c \in Config PROVE FlowConfig(c).recovery_maxbitrate \in Nat
  <1>1. c.max_bitrate_kbps \in Nat BY SMT DEF Config, U32
  <1> QED BY <1>1 DEF FlowConfig

LEMMA PowerAt16 ==
  ASSUME NEW n \in Nat, n >= 65536, n <= 65536
  PROVE  \E p \in PowersOfTwo : n <= p /\ p < 2 * n
  BY SMT DEF PowersOfTwo

LEMMA PowerAt17 ==
  ASSUME NEW n \in Nat, n > 65536, n <= 131072
  PROVE  \E p \in PowersOfTwo : n <= p /\ p < 2 * n
  BY SMT DEF PowersOfTwo

LEMMA PowerAt18 ==
  ASSUME NEW n \in Nat, n > 131072, n <= 262144
  PROVE  \E p \in PowersOfTwo : n <= p /\ p < 2 * n
  BY SMT DEF PowersOfTwo

LEMMA PowerAt19 ==
  ASSUME NEW n \in Nat, n > 262144, n <= 524288
  PROVE  \E p \in PowersOfTwo : n <= p /\ p < 2 * n
  BY SMT DEF PowersOfTwo

LEMMA PowerAt20 ==
  ASSUME NEW n \in Nat, n > 524288, n <= 1048576
  PROVE  \E p \in PowersOfTwo : n <= p /\ p < 2 * n
  BY SMT DEF PowersOfTwo

LEMMA PowerAt21 ==
  ASSUME NEW n \in Nat, n > 1048576, n <= 2097152
  PROVE  \E p \in PowersOfTwo : n <= p /\ p < 2 * n
  BY SMT DEF PowersOfTwo

LEMMA PowerAt22 ==
  ASSUME NEW n \in Nat, n > 2097152, n <= 4194304
  PROVE  \E p \in PowersOfTwo : n <= p /\ p < 2 * n
  BY SMT DEF PowersOfTwo

LEMMA PowerAt23 ==
  ASSUME NEW n \in Nat, n > 4194304, n <= 8388608
  PROVE  \E p \in PowersOfTwo : n <= p /\ p < 2 * n
  BY SMT DEF PowersOfTwo

LEMMA PowerAt24 ==
  ASSUME NEW n \in Nat, n > 8388608, n <= 16777216
  PROVE  \E p \in PowersOfTwo : n <= p /\ p < 2 * n
  BY SMT DEF PowersOfTwo

\* What next_power_of_two is asked for.
RingAsked(n) == n \in Nat /\ n >= 65536 /\ n <= 16777216

LEMMA PowerExists ==
  ASSUME NEW n, RingAsked(n)
  PROVE  NextPowerOfTwo(n) \in PowersOfTwo
  <1>1. \E p \in PowersOfTwo : n <= p /\ p < 2 * n
    BY SMT, PowerAt16, PowerAt17, PowerAt18, PowerAt19, PowerAt20, PowerAt21, PowerAt22,
       PowerAt23, PowerAt24 DEF RingAsked
  <1> QED BY <1>1, Zenon DEF NextPowerOfTwo

LEMMA DepthSlotsRange ==
  ASSUME NEW d \in 0 .. 255 PROVE RingAsked(DepthSlots(d))
  <1>1. MinOf(d, 8) \in {0, 1, 2, 3, 4, 5, 6, 7, 8} BY SMT DEF MinOf
  <1> QED BY SMT, <1>1 DEF DepthSlots, RingAsked

-----------------------------------------------------------------------------
(* Theorems *)

\* The playout buffer lies in its window, the reorder buffer within it, and
\* retries and rates are what the flow modules assume (config.rs:861,
\* session.rs:142): validate is the caller's job that Flow::new relies on.
BuffersOrdered(f) ==
  /\ f.recovery_buffer_min <= f.recovery_buffer_max
  /\ RecoveryBuffer(f) \in f.recovery_buffer_min .. f.recovery_buffer_max
  /\ f.reorder_buffer <= f.recovery_buffer_min

\* The ring is a power of two, far below half of the sequence space, whatever
\* depth, window and rate it was derived from (congestion.rs:88).
RingFits(f) == RingSlots(f) \in PowersOfTwo /\ 2 * RingSlots(f) <= 2147483648

\* A pass of the sender re-sends at least two packets (congestion.rs:69).
PassNotEmpty(f) == MaxNacksPerLoop(f) >= 2 /\ MaxNacksPerLoop(f) <= MaxU32

\* What an accepted configuration guarantees to FlowReceiver and FlowSender:
\* their assumptions on buffers, ring and pass, and, unless the ceiling lies
\* under the floor of 3 ms, the one on round trips.
THEOREM AcceptedFlow ==
  ASSUME NEW c \in Config, Accepted(c)
  PROVE  LET f == FlowConfig(c) IN
         /\ BuffersOrdered(f) /\ RingFits(f) /\ PassNotEmpty(f)
         /\ c.rtt_max >= RttMinFloor => ClampDefined(f)
  <1> DEFINE f == FlowConfig(c)
  <1>1. BoundsHold(c) /\ FeaturesFit(c) BY SMT DEF Accepted
  <1>2. BuffersOrdered(f) BY SMT, <1>1, BufferType DEF BuffersOrdered
  <1>3. RingFits(f)
    <2> DEFINE n == IF f.ring_size = 0 THEN DerivedRing(f) ELSE f.ring_size
    <2>1. f.ring_size = 0 => RingAsked(n)
      <3>1. f.recovery_maxbitrate \in Nat BY RateType
      <3> DEFINE window == MaxOf(I64(f.recovery_buffer_max + 2 * f.rtt_min), RecoveryBuffer(f))
      <3>2. window \in Int
        <4>1. f.rtt_min \in Nat BY SMT, RttType DEF FlowConfig
        <4>2. I64(f.recovery_buffer_max + 2 * f.rtt_min) \in Int BY SMT, <1>1, BufferType, I64Type, <4>1
        <4>3. RecoveryBuffer(f) \in Int BY SMT, <1>1, BufferType
        <4> QED BY SMT, <4>2, <4>3 DEF MaxOf
      <3> DEFINE packets == I64(window * f.recovery_maxbitrate) \div 8800000
      <3>3. packets \in Int
        <4> HIDE DEF window
        <4>1. window * f.recovery_maxbitrate \in Int BY SMT, <3>1, <3>2, ProductType
        <4>2. I64(window * f.recovery_maxbitrate) \in Int BY SMT, <4>1, I64Type
        <4> QED BY SMT, <4>2
      <3>4. DerivedRing(f) = MinOf(MaxOf(packets, 65536), 2097152) BY SMT DEF DerivedRing
      <3> HIDE DEF packets
      <3> QED BY SMT, <3>3, <3>4 DEF MinOf, MaxOf, RingAsked
    <2>2. f.ring_size # 0 => RingAsked(n)
      <3>1. c.recovery_depth \in (0 .. 255) \cup {NoDepth} BY SMT DEF Config, Depths
      <3>2. c.recovery_depth # NoDepth => RingAsked(DepthSlots(c.recovery_depth))
        BY SMT, <3>1, DepthSlotsRange
      <3> QED BY SMT, <3>2 DEF FlowConfig
    <2>3. RingAsked(n) BY SMT, <2>1, <2>2
    <2>4. RingSlots(f) = NextPowerOfTwo(n) BY SMT DEF RingSlots
    <2> HIDE DEF n
    <2>5. RingSlots(f) \in PowersOfTwo BY SMT, <2>3, <2>4, PowerExists
    <2> QED BY SMT, <2>5 DEF RingFits, PowersOfTwo
  <1>4. PassNotEmpty(f)
    <2> DEFINE a == ((f.recovery_maxbitrate * 5) \div 11200) * 1000
               b == MaxOf(f.recovery_buffer_max \div 1000, 1)
               n == a \div b
    <2>1. f.recovery_maxbitrate \in Nat BY RateType
    <2>2. a \in Nat BY SMT, <2>1
    <2>3. f.recovery_buffer_max \in Nat BY SMT, <1>1, BufferType
    <2>4. b \in Nat \ {0} BY SMT, <2>3 DEF MaxOf
    <2>5. n \in Nat
      <3> HIDE DEF a, b
      <3> QED BY SMT, <2>2, <2>4, Quotient
    <2>6. MaxNacksPerLoop(f) = ToU32(2 * (IF n = 0 THEN 1 ELSE n)) BY SMT DEF MaxNacksPerLoop
    <2> HIDE DEF n
    <2> QED BY SMT, <2>5, <2>6 DEF PassNotEmpty, ToU32, MinOf, MaxOf, MaxU32
  <1>5. ASSUME c.rtt_max >= RttMinFloor PROVE ClampDefined(f)
    <2>1. c.rtt_max \in Nat BY SMT DEF Config
    <2>2. Micros(c.rtt_max) \in Nat /\ Micros(c.rtt_max) >= RttMinFloor
      BY SMT, <2>1, <1>5 DEF Micros, MinOf, MaxI64, RttMinFloor
    <2>3. RttHigh(c) >= Micros(c.rtt_max) /\ RttHigh(c) >= RttLow(c)
      BY SMT, <2>2, RttType DEF RttHigh, MaxOf
    <2>4. f.rtt_min = RttLow(c) /\ f.rtt_max = RttHigh(c) BY SMT DEF FlowConfig
    <2>5. RttLow(c) \in Nat /\ RttHigh(c) \in Nat BY SMT, RttType
    <2> QED BY SMT, <2>2, <2>3, <2>4, <2>5 DEF ClampDefined, EffectiveMin, MaxOf, RttMinFloor
  <1> QED BY SMT, <1>2, <1>3, <1>4, <1>5

\* The limit on queued gaps is never 0, with which a receiver would mark none
\* and recover nothing (congestion.rs:54), as long as the buffer's maximum,
\* which validate does not bound, is at most a day: a buffer of centuries
\* overflows the product.
GapsMarked(c) ==
  LET m == MissingCounterMax(FlowConfig(c)) IN
  c.buffer_max <= 86400000000 => m >= 1 /\ m <= MaxU32

THEOREM GapsAreMarked ==
  ASSUME NEW c \in Config, Accepted(c) PROVE GapsMarked(c)
  <1> DEFINE f == FlowConfig(c)
             ms == RecoveryBuffer(f) \div 1000
             mbps == MaxOf(f.recovery_maxbitrate \div 1000, 1)
             product == ms * mbps
  <1> SUFFICES ASSUME c.buffer_max <= 86400000000
               PROVE  MissingCounterMax(f) >= 1 /\ MissingCounterMax(f) <= MaxU32
    BY SMT DEF GapsMarked
  <1>1. BoundsHold(c) BY SMT DEF Accepted
  <1>2. c.buffer_min \in Nat /\ c.buffer_max \in Nat /\ c.buffer_min >= 50000
    <2>1. c.buffer_min \in Nat /\ c.buffer_max \in Nat BY SMT DEF Config
    <2> QED BY SMT, <1>1, <2>1 DEF BoundsHold, Millis
  <1>3. ms \in Nat /\ 50 <= ms /\ ms <= 86400000
    <2>1. f.recovery_buffer_min = Micros(c.buffer_min) /\ f.recovery_buffer_max = Micros(c.buffer_max)
      BY SMT DEF FlowConfig
    <2>2. f.recovery_buffer_min >= 50000 BY SMT, <1>2, <2>1 DEF Micros, MinOf, MaxI64
    <2>3. f.recovery_buffer_max <= 86400000000 BY SMT, <1>2, <2>1, MicrosType
    <2>4. /\ RecoveryBuffer(f) \in Nat /\ RecoveryBuffer(f) >= f.recovery_buffer_min
          /\ RecoveryBuffer(f) <= f.recovery_buffer_max
          /\ f.recovery_buffer_min \in Nat /\ f.recovery_buffer_max \in Nat
      BY SMT, <1>1, BufferType
    <2> HIDE DEF f
    <2> QED BY SMT, <2>2, <2>3, <2>4
  <1>4. mbps \in Nat /\ 1 <= mbps /\ mbps <= 4294967
    <2>1. f.recovery_maxbitrate \in Nat /\ f.recovery_maxbitrate <= MaxU32
      <3>1. c.max_bitrate_kbps \in U32 BY SMT DEF Config
      <3>2. c.max_bitrate_kbps \in Nat /\ c.max_bitrate_kbps <= MaxU32
        <4>1. MaxU32 \in Nat BY SMT DEF MaxU32
        <4> QED BY SMT, <3>1, <4>1 DEF U32
      <3> QED BY SMT, <3>2 DEF FlowConfig
    <2> HIDE DEF f
    <2> QED BY SMT, <2>1 DEF MaxU32, MaxOf
  <1> HIDE DEF ms, mbps
  <1>5. product \in Nat /\ product <= 86400000 * 4294967
    BY <1>3, <1>4, ProductOrder
  <1>6. product >= 50
    <2>1. 50 * 1 <= ms * mbps BY <1>3, <1>4, ProductOrder
    <2> QED BY SMT, <2>1
  <1> HIDE DEF product
  <1>7. product <= MaxI64 BY SMT, <1>5 DEF MaxI64
  <1>8. I64(product) = product BY SMT, <1>5, <1>7, I64Small
  <1>9. MissingCounterMax(f) = ToU32(I64(product) \div 28)
    BY SMT DEF MissingCounterMax, product, ms, mbps
  <1>10. product \div 28 \in Nat /\ product \div 28 >= 1 BY SMT, <1>5, <1>6
  <1> QED BY SMT, <1>8, <1>9, <1>10 DEF ToU32, MinOf, MaxOf, MaxU32

\* The numbers the code's comments give for the defaults: 3571 queued gaps and
\* 88 retransmissions a pass (congestion.rs:54, 68).
THEOREM DefaultLimits ==
  /\ MissingCounterMax(FlowConfig(Default)) = 3571
  /\ MaxNacksPerLoop(FlowConfig(Default)) = 88
  <1> DEFINE f == FlowConfig(Default)
  <1>1. /\ f.recovery_buffer_min = 1000000 /\ f.recovery_buffer_max = 1000000
        /\ f.recovery_maxbitrate = 100000
    BY SMT DEF FlowConfig, Default, Micros, MinOf, MaxI64
  <1> HIDE DEF f
  <1>2. RecoveryBuffer(f) = 1000000 BY SMT, <1>1 DEF RecoveryBuffer
  <1>3. MissingCounterMax(f) = ToU32(I64(100000) \div 28)
    BY SMT, <1>1, <1>2 DEF MissingCounterMax, MaxOf
  <1>4. I64(100000) = 100000
    <2>1. 100000 <= MaxI64 BY SMT DEF MaxI64
    <2> QED BY SMT, <2>1, I64Small
  <1>5. MaxNacksPerLoop(f) = ToU32(88) BY SMT, <1>1 DEF MaxNacksPerLoop, MaxOf
  <1>6. ToU32(3571) = 3571 /\ ToU32(88) = 88 BY SMT DEF ToU32, MinOf, MaxOf, MaxU32
  <1> QED BY SMT, <1>3, <1>4, <1>5, <1>6 DEF f

\* One-way mode has no return channel (config.rs:902): nothing is built that
\* needs one, neither a handshake nor a report.  A DTLS tunnel is not looked at.
OneWayQuiet(c) ==
  c.one_way => ~EmitsReports(c) /\ \A sender \in BOOLEAN : ~Authenticates(c, sender)

THEOREM OneWayIsQuiet ==
  ASSUME NEW c \in Config, Accepted(c) PROVE OneWayQuiet(c)
  <1>1. FeaturesFit(c) BY SMT DEF Accepted
  <1> QED BY Zenon, <1>1 DEF OneWayQuiet, FeaturesFit, SomeSrp, EmitsReports, Authenticates

\* A round trip is never so short that max_retries of them end well before the
\* smaller buffer does (session.rs:115): the reason effective_rtt_bounds gives
\* for raising rtt_min.
RetriesLast(c) ==
  c.max_retries > 0 =>
    /\ Micros(c.buffer_min) < c.max_retries * (RttLow(c) + 1)
    /\ RttLow(c) <= RttHigh(c)

THEOREM RetriesLastTheBuffer ==
  ASSUME NEW c \in Config PROVE RetriesLast(c)
  <1> SUFFICES ASSUME c.max_retries > 0 PROVE RetriesLast(c) BY SMT DEF RetriesLast
  <1>1. c.max_retries \in Nat \ {0} BY SMT DEF Config, U32
  <1>2. Micros(c.buffer_min) \in Nat
    <2>1. c.buffer_min \in Nat BY SMT DEF Config
    <2> QED BY <2>1, MicrosType
  <1>3. RttLow(c) \in Nat /\ RttLow(c) <= RttHigh(c) BY SMT, RttType
  <1> DEFINE q == Micros(c.buffer_min) \div c.max_retries
  <1>4. q \in Nat /\ Micros(c.buffer_min) < c.max_retries * (q + 1) BY SMT, <1>1, <1>2, Quotient
  <1>5. q <= RttLow(c)
    <2>1. RttLow(c) = MaxOf(Micros(c.rtt_min), q) BY SMT DEF RttLow
    <2>2. Micros(c.rtt_min) \in Nat
      <3>1. c.rtt_min \in Nat BY SMT DEF Config
      <3> QED BY <3>1, MicrosType
    <2> HIDE DEF q
    <2> QED BY SMT, <1>4, <2>1, <2>2 DEF MaxOf
  <1> HIDE DEF q
  <1>6. c.max_retries * (q + 1) <= c.max_retries * (RttLow(c) + 1)
    <2>1. c.max_retries \in Nat /\ q + 1 \in Nat /\ RttLow(c) + 1 \in Nat BY SMT, <1>1, <1>3, <1>4
    <2>2. q + 1 <= RttLow(c) + 1 BY SMT, <1>3, <1>4, <1>5
    <2>3. c.max_retries <= c.max_retries BY SMT, <2>1
    <2> QED BY <2>1, <2>2, <2>3, ProductOrder
  <1>7. c.max_retries * (q + 1) \in Nat /\ c.max_retries * (RttLow(c) + 1) \in Nat
    <2>1. c.max_retries \in Nat /\ q + 1 \in Nat /\ RttLow(c) + 1 \in Nat BY SMT, <1>1, <1>3, <1>4
    <2>2. c.max_retries \in Int /\ q + 1 \in Int /\ RttLow(c) + 1 \in Int BY SMT, <2>1
    <2>3. q + 1 <= q + 1 /\ c.max_retries <= c.max_retries /\ RttLow(c) + 1 <= RttLow(c) + 1
      BY SMT, <2>1
    <2> QED BY <2>1, <2>3, ProductOrder
  <1> QED BY SMT, <1>2, <1>3, <1>4, <1>6, <1>7 DEF RetriesLast

\* The decoder keeps fewer sequences than the base of a group can tell apart,
\* twice over, so that the newest base and the oldest packet it still holds are
\* ordered without doubt (decoder.rs:224); a row packet of an earlier round
\* cannot be taken for a later one.
FecUnambiguous(c) == c.fec # NoFec => 2 * FecWindowOf(c.fec) < BaseSpanOf(c.fec)

THEOREM FecWindowFits ==
  ASSUME NEW c \in Config, Accepted(c) PROVE FecUnambiguous(c)
  <1> SUFFICES ASSUME c.fec # NoFec PROVE 2 * FecWindowOf(c.fec) < BaseSpanOf(c.fec)
    BY SMT DEF FecUnambiguous
  <1>1. c.fec \in FecConfig BY SMT DEF Config
  <1>2. c.fec.columns \in Nat /\ c.fec.rows \in Nat BY SMT, <1>1 DEF FecConfig
  <1>3. FecFits(c) BY SMT DEF Accepted
  <1>4. c.fec.columns * c.fec.rows \in Nat
    <2>1. c.fec.columns <= c.fec.columns /\ c.fec.rows <= c.fec.rows BY SMT, <1>2
    <2> QED BY <1>2, <2>1, ProductOrder
  <1> DEFINE area == c.fec.columns * c.fec.rows
  <1>5. /\ area <= IF c.fec.variant = "St20221" THEN 100 ELSE 6000
        /\ c.fec.columns <= IF c.fec.variant = "St20221" THEN 20 ELSE 1020
    BY SMT, <1>3 DEF FecFits
  <1>6. FecWindowOf(c.fec) = area * 3 + c.fec.columns + 8 BY SMT DEF FecWindowOf
  <1>7. BaseSpanOf(c.fec) = IF c.fec.variant = "St20221" THEN 16777216 ELSE 65536
    BY SMT DEF BaseSpanOf
  <1>8. area \in Nat BY <1>4
  <1> HIDE DEF area
  <1> QED BY SMT, <1>2, <1>5, <1>6, <1>7, <1>8

-----------------------------------------------------------------------------
(* What validate lets pass.                                                *)

LEMMA SmallU32 == ASSUME NEW n \in Nat, n <= 100000 PROVE n \in U32
  <1>1. MaxU32 \in Nat /\ 100000 <= MaxU32 BY SMT DEF MaxU32
  <1> QED BY SMT, <1>1 DEF U32

LEMMA DefaultType == Default \in Config
  <1>1. /\ 6 \in U32 /\ 7 \in U32 /\ 20 \in U32 /\ 100000 \in U32
    BY SmallU32
  <1>2. NoDepth \in Depths BY DEF Depths
  <1> QED BY SMT, <1>1, <1>2 DEF Config, Default, DtlsConfig

\* The largest round trip may be configured below the floor of 3 ms: the clamp
\* of the RTT estimator then has its bounds the wrong way round and panics when
\* first asked for (config.rs:875, rtt.rs:21, clock.rs:118).  AcceptedFlow
\* shows that this is the only way.
THEOREM FloorAboveCeiling ==
  \E c \in Config : Accepted(c) /\ ~ClampDefined(FlowConfig(c))
  <1> DEFINE c1 == [Default EXCEPT !.buffer_min = 50000]
             c2 == [c1 EXCEPT !.buffer_max = 50000]
             c3 == [c2 EXCEPT !.max_retries = 100]
             c4 == [c3 EXCEPT !.rtt_min = 1000]
             c  == [c4 EXCEPT !.rtt_max = 2000]
  <1>1. c \in Config
    <2>1. 100 \in U32 BY SmallU32
    <2>2. c1 \in Config BY SMT, DefaultType DEF Config
    <2> HIDE DEF c1
    <2>3. c2 \in Config BY SMT, <2>2 DEF Config
    <2> HIDE DEF c2
    <2>4. c3 \in Config BY SMT, <2>1, <2>3 DEF Config
    <2> HIDE DEF c3
    <2>5. c4 \in Config BY SMT, <2>4 DEF Config
    <2> HIDE DEF c4
    <2> QED BY SMT, <2>5 DEF Config
  <1>2. Accepted(c)
    <2>1. BoundsHold(c) BY SMT DEF BoundsHold, Millis, Default
    <2>2. FeaturesFit(c) BY SMT DEF FeaturesFit, SomeSrp, Default, NoDepth
    <2>3. FecFits(c) /\ DtlsFits(c) BY SMT DEF FecFits, DtlsFits, Default
    <2> QED BY <2>1, <2>2, <2>3 DEF Accepted
  <1>3. RttLow(c) = 1000 BY SMT DEF RttLow, Micros, MaxOf, MinOf, MaxI64, Default
  <1>4. RttHigh(c) = 2000
    <2>1. Micros(c.rtt_max) = 2000 BY SMT DEF Micros, MinOf, MaxI64, Default
    <2> HIDE DEF c
    <2> QED BY SMT, <1>3, <2>1 DEF RttHigh, MaxOf
  <1>5. ~ClampDefined(FlowConfig(c))
    <2> HIDE DEF c
    <2> QED BY SMT, <1>3, <1>4 DEF ClampDefined, EffectiveMin, FlowConfig, MaxOf, RttMinFloor
  <1> QED BY <1>1, <1>2, <1>5

\* "DTLS and EAP-SRP authentication are mutually exclusive" (config.rs:1054),
\* but the list of users a receiver authenticates is not looked at: such a
\* receiver is accepted, and is built with an authenticator.
THEOREM DtlsBesideSrp ==
  \E c \in Config : Accepted(c) /\ c.dtls = "usable" /\ Authenticates(c, FALSE)
  <1> DEFINE c1 == [Default EXCEPT !.profile = "main"]
             c2 == [c1 EXCEPT !.dtls = "usable"]
             c  == [c2 EXCEPT !.srp_users = TRUE]
  <1>1. c \in Config
    <2>1. c1 \in Config BY SMT, DefaultType DEF Config
    <2> HIDE DEF c1
    <2>2. c2 \in Config BY SMT, <2>1 DEF Config, DtlsConfig
    <2> HIDE DEF c2
    <2> QED BY Zenon, <2>2 DEF Config
  <1>2. Accepted(c)
    <2>1. BoundsHold(c) BY SMT DEF BoundsHold, Millis, Default
    <2>2. FeaturesFit(c) BY SMT DEF FeaturesFit, SomeSrp, Default, NoDepth
    <2>3. FecFits(c) /\ DtlsFits(c) BY SMT DEF FecFits, DtlsFits, Default
    <2> QED BY <2>1, <2>2, <2>3 DEF Accepted
  <1>3. c.dtls = "usable" /\ Authenticates(c, FALSE) BY SMT DEF Authenticates, Default
  <1> QED BY <1>1, <1>2, <1>3
=============================================================================
