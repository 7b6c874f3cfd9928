------------------------- MODULE FlowReceiverProofs -------------------------
(***************************************************************************)
(* Theorems about FlowReceiver, for every ring size, sequence width,       *)
(* buffer, packet set and bound allowed by its assumptions.                *)
(***************************************************************************)
EXTENDS FlowReceiver, FiniteSetTheorems, SequenceTheorems, TLAPS

USE HalfAssumption, ClockAssumption, ReceiverAssumption

-----------------------------------------------------------------------------
(* Arithmetic *)

\* Truncating division of naturals, as i64 and u64 division do it here.
LEMMA DivNat == ASSUME NEW a \in Nat, NEW b \in Nat \ {0} PROVE a \div b \in Nat
  OBVIOUS

LEMMA ModRange == ASSUME NEW a \in Nat, NEW b \in Nat \ {0}
                  PROVE a % b \in 0 .. b - 1
  OBVIOUS

LEMMA ProductNat == ASSUME NEW a \in Nat, NEW b \in Nat PROVE a * b \in Nat
  OBVIOUS

\* The scans look for the least element of a set of distances: there is one.
LEMMA LeastExists ==
  ASSUME NEW T, T \subseteq Nat, T # {}
  PROVE  \E k \in T : \A j \in T : k <= j
  <1> DEFINE X == {0 .. k : k \in T}
  <1>1. ASSUME NEW k \in T PROVE 0 .. k \in FiniteSubsetsOf(Nat)
    <2>1. k \in Nat OBVIOUS
    <2>2. IsFiniteSet(0 .. k) BY <2>1, FS_Interval
    <2> QED BY <2>1, <2>2 DEF FiniteSubsetsOf
  <1>2. X \subseteq FiniteSubsetsOf(Nat) /\ X # {} BY <1>1
  <1>3. \E x \in X : \A y \in X : ~ (<<y, x>> \in StrictSubsetOrdering(Nat))
    <2> HIDE DEF X
    <2> QED BY <1>2, WFMin, FS_StrictSubsetOrderingWellFounded
  <1>4. PICK k \in T : \A j \in T : ~ (<<0 .. j, 0 .. k>> \in StrictSubsetOrdering(Nat))
    BY <1>3
  <1>5. ASSUME NEW j \in T, j < k PROVE FALSE
    <2>1. j \in Nat /\ k \in Nat OBVIOUS
    <2>2. 0 .. j \subseteq 0 .. k /\ 0 .. j # 0 .. k /\ 0 .. k \subseteq Nat
      <3>1. k \in 0 .. k /\ k \notin 0 .. j BY <2>1, <1>5
      <3> QED BY <2>1, <1>5, <3>1
    <2> QED BY <1>4, <2>2 DEF StrictSubsetOrdering
  <1> QED BY <1>5

\* A sequence number selects a slot of the ring.
LEMMA IdxType == ASSUME NEW s \in SeqNum PROVE Idx(s) \in Index
  <1>1. s \in Nat BY DEF SeqNum
  <1>2. RingSize \in Nat \ {0} OBVIOUS
  <1> QED BY <1>1, <1>2, ModRange DEF Idx, Index

\* Sequence arithmetic stays in the sequence space.
LEMMA WrappingType ==
  ASSUME NEW a \in SeqNum, NEW b \in SeqNum
  PROVE  /\ WrappingAdd(a, b) \in SeqNum
         /\ WrappingSub(a, b) \in SeqNum
         /\ RawGap(a, b) \in SeqNum
  BY DEF WrappingAdd, WrappingSub, RawGap, SeqNum, SeqSize

\* Seq::distance is the raw gap reduced to -(Half - 1) .. Half.
LEMMA DistanceType ==
  ASSUME NEW a \in SeqNum, NEW b \in SeqNum
  PROVE  Distance(a, b) \in -(Half - 1) .. Half
  BY DEF Distance, RawGap, WrappingSub, SeqNum, SeqSize

\* The key identity of seq.rs: a.add(a.distance(b)) == b.
LEMMA AddRawGap ==
  ASSUME NEW a \in SeqNum, NEW b \in SeqNum
  PROVE  WrappingAdd(a, RawGap(a, b)) = b
  BY DEF WrappingAdd, RawGap, WrappingSub, SeqNum, SeqSize

\* Moving the origin forward by k shortens every gap of at least k by k.
LEMMA GapAfterAdvance ==
  ASSUME NEW a \in SeqNum, NEW b \in SeqNum, NEW k \in SeqNum, RawGap(a, b) >= k
  PROVE  RawGap(WrappingAdd(a, k), b) = RawGap(a, b) - k
  BY DEF WrappingAdd, RawGap, WrappingSub, SeqNum, SeqSize

\* An NTP-64 value maps to a timestamp.
LEMMA ToTimestampType == ASSUME NEW n \in Nat PROVE ToTimestamp(n) \in Nat
  <1>1. n \div FracMod \in Nat BY DivNat
  <1>2. (n \div FracMod) * UsPerSecond \in Nat BY <1>1, ProductNat
  <1>3. n % FracMod \in Nat BY ModRange
  <1>4. (n % FracMod) * UsPerSecond \in Nat BY <1>3, ProductNat
  <1>5. FracMod \div 2 \in Nat BY DivNat
  <1>6. (n % FracMod) * UsPerSecond + FracMod \div 2 \in Nat BY <1>4, <1>5
  <1>7. ((n % FracMod) * UsPerSecond + FracMod \div 2) \div FracMod \in Nat
    BY <1>6, DivNat
  <1> QED BY <1>2, <1>7 DEF ToTimestamp

LEMMA SatAddType == ASSUME NEW t \in Nat, NEW d \in Int PROVE SatAdd(t, d) \in Nat
  BY DEF SatAdd

LEMMA Mul11Type == ASSUME NEW d \in Nat PROVE Mul11(d) \in Nat
  BY DivNat DEF Mul11

\* The RTT the NACK schedule uses is a duration, whatever was measured.
LEMMA ClampedType == ASSUME NEW e \in Nat PROVE Clamped(e, RttMin, RttMax) \in Nat
  <1>1. Smoothed(e) \in Nat BY DivNat DEF Smoothed
  <1> QED BY <1>1 DEF Clamped, ClampRange, EffectiveMin, MaxOf

\* recovery_buffer changes only within the durations.
LEMMA EstimateType ==
  ASSUME NEW e \in Nat, NEW x \in Int PROVE Observe(e, x) \in Nat
  <1>1. e \div 8 \in Nat /\ e \div 8 <= e OBVIOUS
  <1> QED BY <1>1 DEF Observe, MaxOf

-----------------------------------------------------------------------------
(* recv_feed *)

LEMMA PacketType ==
  ASSUME NEW p \in Packets
  PROVE  /\ p.seq \in SeqNum /\ p.source_time \in Nat /\ p.ssrc \in Nat
         /\ p.retransmit \in BOOLEAN /\ p.short_seq \in BOOLEAN
  OBVIOUS

Clocks == [offset: Int, max_source_time: Nat, last_packet_time: Nat,
           last_resync: Nat, clock_resync: Nat]

\* The timing baseline and the packet time are well typed.
LEMMA BaselineType ==
  ASSUME TypeOK, NEW p \in Packets
  PROVE  Baseline(p) \in Clocks /\ PktTime(p) \in Nat
  <1> USE DEF Clocks
  <1>1. p.source_time \in Nat /\ ToTimestamp(p.source_time) \in Nat
    BY PacketType, ToTimestampType
  <1>2. now \in Nat /\ clock \in Clocks /\ recovery_buffer \in Nat BY DEF TypeOK
  <1>3. Reframed(p) \in Clocks
    <2>1. now - ToTimestamp(p.source_time) \in Int BY <1>1, <1>2
    <2>2. [clock EXCEPT !.offset = now - ToTimestamp(p.source_time),
                        !.max_source_time = p.source_time,
                        !.last_packet_time = now, !.last_resync = now] \in Clocks
      BY <1>1, <1>2, <2>1
    <2> QED BY <1>2, <2>2 DEF Reframed
  <1>4. ASSUME NEW c \in Clocks PROVE MapSourceTime(c.offset, p.source_time) \in Nat
    BY <1>1, SatAddType DEF MapSourceTime
  <1>5. ASSUME NEW c \in Clocks PROVE PacketTime(c, p) \in Nat
    BY <1>2, <1>4 DEF PacketTime
  <1>6. ASSUME NEW c \in Clocks
        PROVE  MapSourceTime(c.offset + SrcWrapMicros, p.source_time) \in Nat
    <2>1. c.offset + SrcWrapMicros \in Int OBVIOUS
    <2> QED BY <1>1, <2>1, SatAddType DEF MapSourceTime
  <1>7. ASSUME NEW c \in Clocks PROVE Reanchored(c, p) \in Clocks
    BY <1>1, <1>2, <1>6 DEF Reanchored
  <1>8. ASSUME NEW c \in Clocks PROVE Newest(c, p) \in Clocks
    BY <1>1, <1>5 DEF Newest
  <1> QED BY <1>3, <1>5, <1>7, <1>8 DEF Baseline, PktTime

\* mark_missing appends well-typed entries.
LEMMA MarkedType ==
  ASSUME TypeOK, NEW p \in Packets, NEW r \in [Index -> [seq: SeqNum \cup {Vacant},
           source_time: Nat, packet_time: Nat, output_time: Nat]],
         NEW short \in BOOLEAN
  PROVE  Marked(p, r, short) \in Seq(Entries)
  <1> DEFINE gap == WrappingSub(p.seq, last_found)
             step == Interpacket(PktTime(p), r, gap)
             n == MarkCount(gap, short)
  <1>1. /\ p.seq \in SeqNum /\ last_found \in SeqNum /\ now \in Nat /\ est \in Nat
        /\ recovery_buffer \in Nat /\ Len(missing) \in Nat
    BY PacketType DEF TypeOK
  <1>2. gap \in SeqNum /\ gap \in Nat BY <1>1, WrappingType DEF SeqNum
  <1>3. AnchorTime(r) \in Nat BY <1>1, IdxType DEF AnchorTime
  <1>4. PktTime(p) \in Nat BY BaselineType
  <1>5. MaxOf(PktTime(p) - AnchorTime(r), 0) \in Nat BY <1>3, <1>4 DEF MaxOf
  <1>6. step \in Nat BY <1>2, <1>5, DivNat DEF Interpacket
  <1>7. n \in Nat /\ n < SeqSize
    BY <1>1, <1>2, SMTT(30) DEF MarkCount, MinOf, MaxOf, SeqNum, SeqSize
  <1>8. ASSUME NEW s \in SeqNum, NEW t \in Nat PROVE MissingEntry(s, t) \in Entries
    <2>0. Clamped(est, RttMin, RttMax) \in Nat BY <1>1, ClampedType
    <2>1. Clamped(est, RttMin, RttMax) \div 2 \in Nat BY <2>0, DivNat
    <2>2. now + FirstDelay \in Nat BY <1>1, <2>1 DEF FirstDelay, MaxOf
    <2> QED BY <1>1, <2>2 DEF MissingEntry, Entries
  <1> HIDE DEF n, gap, step
  <1>9. ASSUME NEW i \in 1 .. n
        PROVE  MissingEntry(WrappingAdd(last_found, i), AnchorTime(r) + i * step) \in Entries
    <2>1. i \in SeqNum /\ i \in Nat BY <1>7 DEF SeqNum, SeqSize
    <2>2. WrappingAdd(last_found, i) \in SeqNum BY <1>1, <2>1, WrappingType
    <2>3. i * step \in Nat BY <1>6, <2>1, ProductNat
    <2>4. AnchorTime(r) + i * step \in Nat BY <1>3, <2>3
    <2> QED BY <1>8, <2>2, <2>4
  <1>10. [i \in 1 .. n |-> MissingEntry(WrappingAdd(last_found, i), AnchorTime(r) + i * step)]
           \in Seq(Entries)
    BY <1>7, <1>9
  <1> QED BY <1>10 DEF Marked, n, gap, step

-----------------------------------------------------------------------------
(* Type correctness, one lemma per group of actions *)

Slots == [seq: SeqNum \cup {Vacant}, source_time: Nat, packet_time: Nat, output_time: Nat]

LEMMA SlotType ==
  ASSUME TypeOK, NEW p \in Packets, NEW t \in Nat
  PROVE  Slot(p, t) \in Slots /\ NoSlot \in Slots
  BY PacketType DEF TypeOK, Slot, NoSlot, Vacant, Slots

\* The host's wheel holds deadlines.
LEMMA WheelType ==
  ASSUME TypeOK, NEW echo \in Nat \cup {Off}, DrainTimers(echo),
         playout_deadline' \in Nat
  PROVE  wheel' \in [TimerId -> Nat \cup {Off}]
  <1>1. wheel \in [TimerId -> Nat \cup {Off}] /\ now + NackCadence \in Nat BY DEF TypeOK
  <1>2. wheel["Nack"] \in Nat \cup {Off} BY <1>1 DEF TimerId
  <1> DEFINE a == PlayoutOutput
             b == IF nack_armed' /\ ~nack_armed THEN now + NackCadence ELSE wheel["Nack"]
  <1>3. a \in Nat \cup {Off} /\ b \in Nat \cup {Off}
    BY <1>1, <1>2 DEF PlayoutOutput, TimerId
  <1>4. wheel' = [wheel EXCEPT !["Playout"] = a, !["Nack"] = b, !["RttEcho"] = echo]
    BY <1>1 DEF DrainTimers, TimerId
  <1> HIDE DEF a, b
  <1> QED BY <1>1, <1>3, <1>4

\* arm_playout leaves a boolean and a deadline.
LEMMA ArmType ==
  ASSUME TypeOK, NEW d \in Nat, ArmPlayout(d)
  PROVE  playout_armed' \in BOOLEAN /\ playout_deadline' \in Nat
  BY DEF TypeOK, ArmPlayout, playVars

LEMMA FeedAnchorType ==
  ASSUME TypeOK, NEW p \in Packets, NEW path \in Paths, FeedAnchor(p, path)
  PROVE  TypeOK'
  <1>1. /\ p.seq \in SeqNum /\ p.ssrc \in Nat /\ p.short_seq \in BOOLEAN
        /\ p.source_time \in Nat /\ ToTimestamp(p.source_time) \in Nat
    BY PacketType, ToTimestampType
  <1>2. ring' \in [Index -> Slots] BY SlotType DEF FeedAnchor, AnchoredRing, TypeOK
  <1>3. clock' \in Clocks BY <1>1 DEF FeedAnchor, Clocks, TypeOK
  <1>4. playout_armed' \in BOOLEAN /\ playout_deadline' \in Nat BY DEF FeedAnchor, TypeOK
  <1>5. wheel' \in [TimerId -> Nat \cup {Off}]
    <2> DEFINE echo == IF NoRecovery THEN wheel["RttEcho"] ELSE now + RttEchoInterval
    <2>1. echo \in Nat \cup {Off} BY DEF TimerId, TypeOK
    <2>2. DrainTimers(echo) BY DEF FeedAnchor
    <2> HIDE DEF echo
    <2> QED BY <1>4, <2>1, <2>2, WheelType
  <1>6. missing' \in Seq(Entries) BY DEF FeedAnchor
  <1> QED BY <1>1, <1>2, <1>3, <1>4, <1>5, <1>6
          DEF TypeOK, FeedAnchor, Slots, Clocks, scaleVars, deltaVars, CanFeed

LEMMA FeedDiscardType ==
  ASSUME TypeOK, NEW p \in Packets, FeedDiscard(p) PROVE TypeOK'
  <1>1. clock' \in Clocks /\ short_seq' \in BOOLEAN
    BY BaselineType, PacketType DEF FeedDiscard, Framing, TypeOK
  <1> QED BY <1>1 DEF TypeOK, FeedDiscard, Clocks, streamVars, cursorVars, nackVars,
                     playVars, scaleVars, deltaVars

LEMMA FeedAcceptType ==
  ASSUME TypeOK, NEW p \in Packets, NEW path \in Paths, FeedAccept(p, path)
  PROVE  TypeOK'
  <1>1. p.seq \in SeqNum /\ PktTime(p) \in Nat /\ Idx(p.seq) \in Index
    BY PacketType, BaselineType, IdxType
  <1>2. clock' \in Clocks /\ short_seq' \in BOOLEAN
    BY BaselineType, PacketType DEF FeedAccept, Framing, TypeOK
  <1>3. ring' \in [Index -> Slots]
    BY <1>1, SlotType DEF FeedAccept, TypeOK, Slots
  <1>4. missing' \in Seq(Entries)
    <2>1. Marked(p, ring', short_seq') \in Seq(Entries)
      BY <1>2, <1>3, MarkedType DEF Slots
    <2> QED BY <2>1 DEF FeedAccept, TypeOK
  <1>5. playout_armed' \in BOOLEAN /\ playout_deadline' \in Nat
    <2>0. recovery_buffer \in Nat BY DEF TypeOK
    <2>1. PktTime(p) + recovery_buffer \in Nat BY <1>1, <2>0
    <2> QED BY <2>1, ArmType DEF FeedAccept
  <1>6. wheel' \in [TimerId -> Nat \cup {Off}]
    <2>1. wheel["RttEcho"] \in Nat \cup {Off} BY DEF TimerId, TypeOK
    <2> QED BY <1>5, <2>1, WheelType DEF FeedAccept
  <1>7. nack_armed' \in BOOLEAN BY DEF FeedAccept, ScheduleNack
  <1>8. highest' \in SeqNum /\ last_found' \in SeqNum /\ last_path' \in Nat
    BY <1>1 DEF FeedAccept, TypeOK
  <1> QED BY <1>2, <1>3, <1>4, <1>5, <1>6, <1>7, <1>8
          DEF TypeOK, FeedAccept, Slots, Clocks, cursorVars, scaleVars, deltaVars

-----------------------------------------------------------------------------
(* The playout loop *)

\* The scan of deliver_due finds the nearest buffered packet, if there is one.
LEMMA FirstAheadType ==
  ASSUME TypeOK, Ahead # {}
  PROVE  /\ FirstAhead \in Ahead /\ \A j \in Ahead : FirstAhead <= j
         /\ FirstAhead \in 1 .. RingSize /\ FirstAhead <= Dist
         /\ FirstAhead \in SeqNum
  <1>1. Dist \in Int BY DistanceType DEF TypeOK, Dist
  <1>2. MinOf(Dist, RingSize) \in Int /\ MinOf(Dist, RingSize) <= RingSize
        /\ MinOf(Dist, RingSize) <= Dist
    BY <1>1 DEF MinOf
  <1>3. Ahead \subseteq Nat /\ \A k \in Ahead : k \in 1 .. RingSize /\ k <= Dist
    BY <1>2, <1>1 DEF Ahead
  <1>4. FirstAhead \in Ahead /\ \A j \in Ahead : FirstAhead <= j
    BY <1>3, LeastExists DEF FirstAhead
  <1> QED BY <1>3, <1>4 DEF SeqNum, SeqSize

LEMMA EmitDeliverType == ASSUME TypeOK, EmitDeliver PROVE TypeOK'
  <1>0. deliver_next \in SeqNum /\ 1 \in SeqNum BY DEF TypeOK, SeqNum, SeqSize
  <1>1. Idx(deliver_next) \in Index /\ WrappingAdd(deliver_next, 1) \in SeqNum
    BY <1>0, IdxType, WrappingType
  <1>2. NoSlot \in Slots BY DEF NoSlot, Slots, Vacant
  <1>3. ring' \in [Index -> Slots] BY <1>1, <1>2 DEF EmitDeliver, TypeOK, Slots
  <1>4. pos' \in Nat /\ event' \in [pos: Nat \cup {-1}, discontinuity: BOOLEAN]
    BY DEF EmitDeliver, TypeOK
  <1> QED BY <1>1, <1>3, <1>4 DEF EmitDeliver, TypeOK, Slots, feedVars, streamVars,
             nackVars, playVars, scaleVars, deltaVars

LEMMA SkipToType ==
  ASSUME TypeOK, phase' = phase, NEW k \in 1 .. RingSize, SkipTo(k) PROVE TypeOK'
  <1>1. k \in SeqNum /\ k \in Nat BY DEF SeqNum, SeqSize
  <1>2. deliver_next' \in SeqNum BY <1>1, WrappingType DEF SkipTo, TypeOK
  <1>3. NoSlot \in Slots BY DEF NoSlot, Slots, Vacant
  <1>4. ring' \in [Index -> Slots] BY <1>3 DEF SkipTo, TypeOK, Slots
  <1>5. pos' \in Nat /\ lost_delta' \in Nat BY <1>1 DEF SkipTo, TypeOK, Counted
  <1>6. UNCHANGED <<now, phase, feedVars, event, wheel, streamVars, nackVars,
                    playVars, scaleVars, recovered_delta>>
    BY DEF SkipTo
  <1>7. pending_discontinuity' = TRUE BY DEF SkipTo
  <1> QED BY <1>2, <1>4, <1>5, <1>6, <1>7 DEF TypeOK, Slots, feedVars, streamVars,
             nackVars, playVars, scaleVars

\* The head of process_nacks moves the whole queue to scan.
LEMMA BeginNacksType ==
  ASSUME TypeOK, NEW w \in {"nack", "tick_nack"}, BeginNacks(w)
  PROVE  /\ phase' \in {"idle", "nack", "tick_nack"}
         /\ missing' \in Seq(Entries) /\ scan' \in Seq(Entries) /\ batch' \in Seq(SeqNum)
         /\ nack_tokens_time' \in Nat
         /\ nack_tokens' \in Nat
  <1>1. now \in Nat /\ nack_tokens \in Nat /\ nack_tokens_time \in Nat BY DEF TypeOK
  <1>2. NackBurst * NackCost \in Nat BY ProductNat
  <1>3. /\ phase' \in {"idle", "nack", "tick_nack"}
        /\ missing' \in Seq(Entries) /\ scan' \in Seq(Entries) /\ batch' \in Seq(SeqNum)
    <2>1. missing \in Seq(Entries) /\ scan \in Seq(Entries) /\ batch \in Seq(SeqNum)
      BY DEF TypeOK
    <2>2. <<>> \in Seq(Entries) /\ <<>> \in Seq(SeqNum) OBVIOUS
    <2>3. CASE missing = <<>>
      <3>1. phase' = "idle" /\ missing' = missing /\ scan' = scan /\ batch' = batch
        BY <2>3 DEF BeginNacks
      <3> QED BY <2>1, <3>1
    <2>4. CASE missing # <<>>
      <3>1. phase' = w /\ missing' = <<>> /\ scan' = missing /\ batch' = <<>>
        BY <2>4 DEF BeginNacks
      <3> QED BY <2>1, <2>2, <3>1
    <2> QED BY <2>3, <2>4
  <1>4. ASSUME missing = <<>> \/ NackRate = 0
        PROVE  nack_tokens' = nack_tokens /\ nack_tokens_time' = nack_tokens_time
    BY <1>4 DEF BeginNacks, RefillTokens
  <1>5. CASE missing # <<>> /\ NackRate # 0
    <2>1. /\ nack_tokens_time' = now
          /\ nack_tokens' = MinOf(nack_tokens + MaxOf(now - nack_tokens_time, 0) * NackRate,
                                  NackBurst * NackCost)
      BY <1>5 DEF BeginNacks, RefillTokens
    <2>2. MaxOf(now - nack_tokens_time, 0) \in Nat BY <1>1 DEF MaxOf
    <2>3. MaxOf(now - nack_tokens_time, 0) * NackRate \in Nat BY <2>2, ProductNat
    <2>4. nack_tokens' \in Nat BY <1>1, <1>2, <2>1, <2>3 DEF MinOf
    <2> QED BY <1>1, <1>3, <2>1, <2>4
  <1> QED BY <1>1, <1>3, <1>4, <1>5

\* Any output the playout loop ends with leaves the timers well typed.
LEMMA EndDeliverType == ASSUME TypeOK, EndDeliver PROVE TypeOK'
  <1>1. ASSUME NEW s \in SeqNum PROVE OutputTime(s) \in Nat
    BY IdxType DEF TypeOK, OutputTime
  <1>2. deliver_next \in SeqNum BY DEF TypeOK
  <1>3. ASSUME Ahead # {} PROVE WrappingAdd(deliver_next, FirstAhead) \in SeqNum
    BY <1>2, <1>3, FirstAheadType, WrappingType
  <1>4. playout_armed' \in BOOLEAN /\ playout_deadline' \in Nat
    <2>1. CASE ArmPlayout(OutputTime(deliver_next)) BY <1>1, <1>2, <2>1, ArmType
    <2>2. CASE Ahead # {} /\ ArmPlayout(OutputTime(WrappingAdd(deliver_next, FirstAhead)))
      BY <1>1, <1>3, <2>2, ArmType
    <2>3. CASE DisarmPlayout BY <2>3 DEF DisarmPlayout, TypeOK
    <2> QED BY <2>1, <2>2, <2>3 DEF EndDeliver
  <1>5. wheel' \in [TimerId -> Nat \cup {Off}]
    <2>1. wheel["RttEcho"] \in Nat \cup {Off} BY DEF TypeOK, TimerId
    <2> QED BY <1>4, <2>1, WheelType DEF EndDeliver
  <1>6. /\ phase' \in {"idle", "nack", "tick_nack"}
        /\ missing' \in Seq(Entries) /\ scan' \in Seq(Entries) /\ batch' \in Seq(SeqNum)
        /\ nack_tokens_time' \in Nat /\ nack_tokens' \in Nat
    <2>1. CASE phase = "tick" BY <2>1, BeginNacksType DEF EndDeliver
    <2>2. CASE phase # "tick" BY <2>2 DEF EndDeliver, TypeOK
    <2> QED BY <2>1, <2>2
  <1> QED BY <1>4, <1>5, <1>6 DEF EndDeliver, TypeOK, feedVars, streamVars, cursorVars,
             scaleVars, deltaVars

LEMMA EntryType ==
  ASSUME TypeOK, scan # <<>>
  PROVE  Entry \in Entries /\ Tail(scan) \in Seq(Entries)
  BY DEF TypeOK, Entry

LEMMA NackDropType == ASSUME TypeOK, NackDrop PROVE TypeOK'
  <1>1. Entry \in Entries /\ scan' \in Seq(Entries) BY EntryType DEF NackDrop
  <1>2. given_up' \subseteq SeqNum BY <1>1 DEF NackDrop, TypeOK, Entries
  <1>3. recovered_delta' \in Nat BY DEF NackDrop, TypeOK, Counted
  <1> QED BY <1>1, <1>2, <1>3, SMTT(30) DEF NackDrop, TypeOK, feedVars, streamVars, cursorVars,
             playVars, scaleVars

\* A NACK retry keeps the shape of its entry.
LEMMA RenackedType ==
  ASSUME NEW e \in Entries, NEW t \in Nat
  PROVE  [e EXCEPT !.nack_count = @ + 1, !.next_nack = t] \in Entries
  <1> DEFINE counted == [e EXCEPT !.nack_count = e.nack_count + 1]
  <1>1. e.nack_count + 1 \in Nat BY DEF Entries
  <1>2. counted \in Entries BY <1>1 DEF Entries
  <1>3. ASSUME NEW f \in Entries PROVE [f EXCEPT !.next_nack = t] \in Entries
    BY DEF Entries
  <1>4. [counted EXCEPT !.next_nack = t] \in Entries
    <2> HIDE DEF counted
    <2> QED BY <1>2, <1>3
  <1> QED BY <1>4, Zenon

LEMMA NackKeepType == ASSUME TypeOK, NackKeep PROVE TypeOK'
  <1>0. /\ missing \in Seq(Entries) /\ batch \in Seq(SeqNum)
        /\ nack_tokens \in Nat /\ est \in Nat /\ now \in Nat
    BY DEF TypeOK
  <1>1. Entry \in Entries /\ scan' \in Seq(Entries) BY EntryType DEF NackKeep
  <1>2. Renacked(Entry) \in Entries
    <2>1. Clamped(est, RttMin, RttMax) \in Nat BY <1>0, ClampedType
    <2>2. RetryInterval(est, RttMin, RttMax) \in Nat
      BY <2>1, Mul11Type DEF RetryInterval
    <2>3. now + RetryInterval(est, RttMin, RttMax) \in Nat BY <1>0, <2>2
    <2> HIDE DEF Entry
    <2> QED BY <1>1, <2>3, RenackedType DEF Renacked
  <1>3. Entry.seq \in SeqNum
    <2> HIDE DEF Entry
    <2> QED BY <1>1 DEF Entries
  <1>4. missing' \in Seq(Entries) /\ batch' \in Seq(SeqNum) /\ nack_tokens' \in Nat
    <2>1. CASE NackDue(Entry)
      <3>1. /\ missing' = Append(missing, Renacked(Entry))
            /\ batch' = Append(batch, Entry.seq)
            /\ nack_tokens' = IF NackRate = 0 THEN nack_tokens ELSE nack_tokens - NackCost
        BY <2>1 DEF NackKeep
      <3>2. missing' \in Seq(Entries) BY <1>0, <1>2, <3>1, AppendProperties
      <3>3. batch' \in Seq(SeqNum) BY <1>0, <1>3, <3>1, AppendProperties
      <3>4. nack_tokens' \in Nat BY <1>0, <2>1, <3>1 DEF NackDue
      <3> QED BY <3>2, <3>3, <3>4
    <2>2. CASE ~NackDue(Entry)
      <3>1. /\ missing' = Append(missing, Entry)
            /\ batch' = batch /\ nack_tokens' = nack_tokens
        BY <2>2 DEF NackKeep
      <3>2. missing' \in Seq(Entries) BY <1>0, <1>1, <3>1, AppendProperties
      <3> QED BY <1>0, <3>1, <3>2
    <2> QED BY <2>1, <2>2
  <1>5. UNCHANGED <<now, phase, feedVars, ring, wheel, nack_armed, nack_tokens_time,
                    deltaVars, streamVars, cursorVars, playVars, scaleVars, given_up>>
    BY DEF NackKeep
  <1> QED BY <1>1, <1>4, <1>5, SMTT(30) DEF TypeOK, feedVars, streamVars, cursorVars,
             playVars, scaleVars, deltaVars

LEMMA NackEndType == ASSUME TypeOK, NackEnd PROVE TypeOK'
  <1>1. playout_armed' \in BOOLEAN /\ playout_deadline' \in Nat
    BY DEF NackEnd, TypeOK, playVars
  <1>2. wheel' \in [TimerId -> Nat \cup {Off}]
    <2>1. wheel["RttEcho"] \in Nat \cup {Off} BY DEF TypeOK, TimerId
    <2> QED BY <1>1, <2>1, WheelType DEF NackEnd
  <1>3. nack_armed' \in BOOLEAN BY DEF NackEnd, ScheduleNack, TypeOK
  <1>4. batch' \in Seq(SeqNum) BY DEF NackEnd
  <1> QED BY <1>1, <1>2, <1>3, <1>4 DEF NackEnd, TypeOK, feedVars, streamVars,
             cursorVars, scaleVars, deltaVars

-----------------------------------------------------------------------------
(* Timers and the other inputs *)

\* What auto-scaling asks for, its limit applied, is an integer.
LEMMA DesiredType == ASSUME TypeOK PROVE RateLimited(Desired) \in Int
  <1>1. /\ est \in Nat /\ rtt_multiplier \in Nat /\ lost_delta \in Nat
        /\ recovered_delta \in Nat /\ sender_max_buffer \in Nat /\ recovery_buffer \in Nat
    BY DEF TypeOK
  <1>2. Smoothed(est) * rtt_multiplier \in Nat
    <2>1. Smoothed(est) \in Nat BY <1>1, DivNat DEF Smoothed
    <2> QED BY <1>1, <2>1, ProductNat
  <1>3. 100 + 5 * lost_delta + 2 * recovered_delta \in Nat BY <1>1
  <1>4. Smoothed(est) * rtt_multiplier + ReorderBuffer \in Nat BY <1>2
  <1>5. (Smoothed(est) * rtt_multiplier + ReorderBuffer)
          * (100 + 5 * lost_delta + 2 * recovered_delta) \in Nat
    BY <1>3, <1>4, ProductNat
  <1>6. Desired \in Nat BY <1>1, <1>5, DivNat DEF Desired
  <1> QED BY <1>1, <1>6 DEF RateLimited, MaxOf

\* The buffer auto-scaling chooses is a duration.
LEMMA ScaledType == ASSUME TypeOK PROVE Scaled \in Nat
  <1>1. sender_max_buffer \in Nat BY DEF TypeOK
  <1> QED BY <1>1, DesiredType DEF Scaled, MinOf, ClampRange

LEMMA TimerType ==
  ASSUME TypeOK, PlayoutTimer \/ NackTimer \/ EchoTimer PROVE TypeOK'
  <1>1. CASE PlayoutTimer
    BY <1>1 DEF PlayoutTimer, TypeOK, feedVars, streamVars, cursorVars, nackVars,
                scaleVars, deltaVars
  <1>2. CASE NackTimer
    <2>1. wheel' \in [TimerId -> Nat \cup {Off}] BY <1>2 DEF NackTimer, TypeOK
    <2>2. /\ phase' \in {"idle", "nack", "tick_nack"}
          /\ missing' \in Seq(Entries) /\ scan' \in Seq(Entries)
          /\ batch' \in Seq(SeqNum)
          /\ nack_tokens_time' \in Nat /\ nack_tokens' \in Nat
      BY <1>2, BeginNacksType DEF NackTimer
    <2> QED BY <1>2, <2>1, <2>2 DEF NackTimer, TypeOK, feedVars, streamVars,
               cursorVars, playVars, scaleVars, deltaVars
  <1>3. CASE EchoTimer
    <2>1. wheel' \in [TimerId -> Nat \cup {Off}]
      <3>1. now + RttEchoInterval \in Nat BY DEF TypeOK
      <3> QED BY <1>3, <3>1 DEF EchoTimer, TypeOK
    <2>2. recovery_buffer' \in Nat /\ lost_delta' \in Nat /\ recovered_delta' \in Nat
      <3>1. recovery_buffer \in Nat /\ lost_delta \in Nat /\ recovered_delta \in Nat
        BY DEF TypeOK
      <3>2. Scaled \in Nat BY ScaledType
      <3>3. CASE started /\ ScalingOn
        BY <1>3, <3>2, <3>3 DEF EchoTimer, AutoScaleBuffer
      <3>4. CASE ~(started /\ ScalingOn)
        BY <1>3, <3>1, <3>4 DEF EchoTimer, AutoScaleBuffer, deltaVars
      <3> QED BY <3>3, <3>4
    <2> QED BY <1>3, <2>1, <2>2, SMTT(30) DEF EchoTimer, TypeOK, feedVars, streamVars,
               cursorVars, nackVars, playVars
  <1> QED BY <1>1, <1>2, <1>3

LEMMA InputType ==
  ASSUME TypeOK,
         \/ FlowTick \/ Advance \/ Stopped
         \/ \E s \in RttSamples : EchoResponse(s)
         \/ \E b \in SenderMaxBuffers : SetSenderMaxBuffer(b)
         \/ \E m \in RttMultipliers : SetRttMultiplier(m)
  PROVE  TypeOK'
  <1> USE DEF feedVars, streamVars, cursorVars, nackVars, playVars, scaleVars, deltaVars
  <1>1. CASE FlowTick BY <1>1 DEF FlowTick, TypeOK
  <1>2. CASE Advance BY <1>2 DEF Advance, TypeOK
  <1>3. CASE Stopped BY <1>3 DEF Stopped, TypeOK, vars
  <1>4. ASSUME NEW s \in RttSamples, EchoResponse(s) PROVE TypeOK'
    <2>1. s \in Int /\ est \in Nat BY DEF TypeOK
    <2>2. est' \in Nat BY <1>4, <2>1, EstimateType DEF EchoResponse
    <2> QED BY <1>4, <2>2, SMTT(30) DEF EchoResponse, TypeOK
  <1>5. ASSUME NEW b \in SenderMaxBuffers, SetSenderMaxBuffer(b) PROVE TypeOK'
    <2>1. sender_max_buffer' \in Nat BY <1>5 DEF SetSenderMaxBuffer
    <2>2. lost_delta' \in Nat /\ recovered_delta' \in Nat
      BY <1>5, SMTT(30) DEF SetSenderMaxBuffer, TypeOK
    <2> QED BY <1>5, <2>1, <2>2, SMTT(30) DEF SetSenderMaxBuffer, TypeOK
  <1>6. ASSUME NEW m \in RttMultipliers, SetRttMultiplier(m) PROVE TypeOK'
    BY <1>6 DEF SetRttMultiplier, TypeOK
  <1> QED BY <1>1, <1>2, <1>3, <1>4, <1>5, <1>6

\* Init gives every variable a value of its type.
LEMMA InitType == Init => TypeOK
  <1> SUFFICES ASSUME Init PROVE TypeOK OBVIOUS
  <1>1. 0 \in SeqNum BY DEF SeqNum, SeqSize
  <1>2. recovery_buffer \in Nat BY DivNat DEF Init
  <1>3. est \in Nat BY DEF Init, EstimatorNew, EffectiveMin, MaxOf
  <1>4. nack_tokens \in Nat BY ProductNat DEF Init
  <1>5. NoSlot \in Slots BY DEF NoSlot, Slots, Vacant
  <1>6. ring \in [Index -> Slots] BY <1>5 DEF Init
  <1>7. wheel \in [TimerId -> Nat \cup {Off}] BY DEF Init, Off
  <1>8. clock \in Clocks BY DEF Init, Clocks
  <1>9. missing \in Seq(Entries) /\ scan \in Seq(Entries) /\ batch \in Seq(SeqNum)
    BY DEF Init
  <1>10. rtt_multiplier \in Nat BY DEF Init
  <1>11. event \in [pos: Nat \cup {-1}, discontinuity: BOOLEAN] BY DEF Init
  <1> QED BY <1>1, <1>2, <1>3, <1>4, <1>6, <1>7, <1>8, <1>9, <1>10, <1>11
          DEF Init, TypeOK, Slots, Clocks

LEMMA TypeStep == TypeOK /\ [Next]_vars => TypeOK'
  <1> SUFFICES ASSUME TypeOK, [Next]_vars PROVE TypeOK' OBVIOUS
  <1>1. CASE Feed
    BY <1>1, FeedAnchorType, FeedDiscardType, FeedAcceptType DEF Feed
  <1>2. CASE DeliverTurn
    <2>1. CASE EmitDeliver BY <2>1, EmitDeliverType
    <2>2. CASE SkipHole
      BY <2>2, FirstAheadType, SkipToType DEF SkipHole, SkipTo
    <2>3. CASE SkipLapped
      <3>1. RingSize \in 1 .. RingSize OBVIOUS
      <3> QED BY <2>3, <3>1, SkipToType DEF SkipLapped, SkipTo
    <2>4. CASE EndDeliver BY <2>4, EndDeliverType
    <2> QED BY <1>2, <2>1, <2>2, <2>3, <2>4 DEF DeliverTurn
  <1>3. CASE NackTurn
    BY <1>3, NackDropType, NackKeepType, NackEndType DEF NackTurn
  <1>4. CASE PlayoutTimer \/ NackTimer \/ EchoTimer BY <1>4, TimerType
  <1>5. CASE UNCHANGED vars
    BY <1>5 DEF vars, TypeOK, feedVars, streamVars, cursorVars, nackVars,
                playVars, scaleVars, deltaVars
  <1> QED BY <1>1, <1>2, <1>3, <1>4, <1>5, InputType DEF Next

\* Type correctness: whatever is fed and whenever timers fire, no timestamp,
\* counter or cursor of the receiver leaves its type.
THEOREM TypeCorrect == Spec => []TypeOK
  BY InitType, TypeStep, PTL DEF Spec

-----------------------------------------------------------------------------
(* The inductive invariant.  CursorWindow and PlayoutArmed are not         *)
(* inductive: the first needs an empty ring before the flow starts, the    *)
(* second says nothing while a call is running.                            *)

\* Nothing is buffered before the flow has anchored.
EmptyUntilStarted == ~started => \A i \in Index : ~Filled(i)

\* The core's shadow of the playout timer is the host's timer at all times, a
\* running playout loop or an armed timer means a started flow, and whenever no
\* playout loop runs a filled slot keeps the timer armed.
PlayoutShadow ==
  /\ wheel["Playout"] = IF playout_armed THEN playout_deadline ELSE Off
  /\ playout_armed => started
  /\ Delivering => started
  /\ ~Delivering => ((\E i \in Index : Filled(i)) => playout_armed)

\* pending_discontinuity is set exactly when the cursor has left positions
\* behind since the last delivery.
FlagExact ==
  /\ event.pos < pos
  /\ pending_discontinuity <=> pos # event.pos + 1

IInv == TypeOK /\ CursorWindow /\ EmptyUntilStarted /\ PlayoutShadow /\ FlagExact

-----------------------------------------------------------------------------
(* Circular arithmetic around the cursor *)

\* A sequence the cursor guard admits lies less than half the space ahead.
LEMMA GuardGap ==
  ASSUME NEW s \in SeqNum, NEW d \in SeqNum, ~Less(s, d)
  PROVE  RawGap(d, s) \in 0 .. Half - 1
  BY DEF Less, Distance, RawGap, WrappingSub, SeqNum, SeqSize

\* Up to Half - 1 ahead the distance is the gap; one behind, it is -1.
LEMMA GapDistance ==
  ASSUME NEW a \in SeqNum, NEW b \in SeqNum
  PROVE  /\ Distance(a, b) \in 0 .. Half - 1 => RawGap(a, b) = Distance(a, b)
         /\ RawGap(a, b) \in 0 .. Half - 1 => Distance(a, b) = RawGap(a, b)
         /\ Half > 1 => (Distance(a, b) = -1 <=> RawGap(a, b) = SeqSize - 1)
  BY DEF Distance, RawGap, WrappingSub, SeqNum, SeqSize

\* Taking the larger of highest and a sequence the guard admits, by the
\* circular comparison, takes the larger of their distances from the cursor.
LEMMA HighestDistance ==
  ASSUME NEW d \in SeqNum, NEW h \in SeqNum, NEW s \in SeqNum,
         Distance(d, h) \in -1 .. Half - 1, ~Less(s, d), Half > 1,
         NEW m, m = IF Less(h, s) THEN s ELSE h
  PROVE  /\ Distance(d, m) \in 0 .. Half - 1
         /\ RawGap(d, s) <= Distance(d, m) /\ Distance(d, h) <= Distance(d, m)
  BY DEF Less, Distance, RawGap, WrappingSub, SeqNum, SeqSize

\* Moving the cursor by k, up to and including highest, takes k off the
\* distance; one position further it is -1.
LEMMA DistanceAfterAdvance ==
  ASSUME NEW d \in SeqNum, NEW h \in SeqNum, NEW k \in 1 .. Half,
         Distance(d, h) \in 0 .. Half - 1, k <= Distance(d, h) + 1, Half > 1
  PROVE  Distance(WrappingAdd(d, k), h) = Distance(d, h) - k
  BY DEF WrappingAdd, Distance, RawGap, WrappingSub, SeqNum, SeqSize

\* Only sequence s itself has gap 0, and a sequence less than k ahead of d is
\* one of d, ..., d + k - 1.
LEMMA GapWitness ==
  ASSUME NEW d \in SeqNum, NEW s \in SeqNum, NEW k \in 1 .. Half, RawGap(d, s) < k
  PROVE  \E j \in 0 .. k - 1 : s = WrappingAdd(d, j)
  <1>1. RawGap(d, s) \in 0 .. k - 1 BY WrappingType DEF SeqNum, SeqSize
  <1>2. s = WrappingAdd(d, RawGap(d, s)) BY AddRawGap
  <1> QED BY <1>1, <1>2

-----------------------------------------------------------------------------
(* The cursor window *)

Window == CursorWindow /\ EmptyUntilStarted

\* What the window says of one filled slot.
LEMMA WindowSlot ==
  ASSUME TypeOK, Window, NEW i \in Index, Filled(i)
  PROVE  /\ started /\ ring[i].seq \in SeqNum /\ Idx(ring[i].seq) = i
         /\ Dist \in 0 .. Half - 1
         /\ RawGap(deliver_next, ring[i].seq) \in Nat
         /\ RawGap(deliver_next, ring[i].seq) <= Dist
  <1>1. started BY DEF Window, EmptyUntilStarted
  <1>2. /\ Idx(ring[i].seq) = i /\ RawGap(deliver_next, ring[i].seq) <= Dist
        /\ Dist \in -1 .. Half - 1
    BY <1>1 DEF Window, CursorWindow
  <1>3. ring[i].seq \in SeqNum /\ deliver_next \in SeqNum
    BY DEF TypeOK, Filled, Vacant
  <1>4. RawGap(deliver_next, ring[i].seq) \in SeqNum BY <1>3, WrappingType
  <1>5. RawGap(deliver_next, ring[i].seq) \in Nat BY <1>4 DEF SeqNum
  <1> QED BY <1>1, <1>2, <1>3, <1>5

\* The window only reads the ring, the two cursors and the started flag.
LEMMA WindowUnchanged ==
  ASSUME Window, UNCHANGED <<ring, started, deliver_next, highest>>
  PROVE  Window'
  BY DEF Window, CursorWindow, EmptyUntilStarted, Filled, Dist

LEMMA FeedAnchorWindow ==
  ASSUME TypeOK, NEW p \in Packets, NEW path \in Paths, FeedAnchor(p, path)
  PROVE  Window'
  <1>1. p.seq \in SeqNum /\ Idx(p.seq) \in Index BY PacketType, IdxType
  <1>2. started' = TRUE /\ highest' = p.seq /\ deliver_next' = p.seq BY DEF FeedAnchor
  <1>3. Distance(p.seq, p.seq) = 0 /\ RawGap(p.seq, p.seq) = 0
    BY <1>1 DEF Distance, RawGap, WrappingSub, SeqNum, SeqSize
  <1>4. Dist' = 0 BY <1>2, <1>3 DEF Dist
  <1>5. ASSUME NEW i \in Index, Filled(i)' PROVE i = Idx(p.seq) /\ ring'[i].seq = p.seq
    <2>1. ring'[i] = IF i = Idx(p.seq) THEN Slot(p, now) ELSE NoSlot
      BY DEF FeedAnchor, AnchoredRing
    <2>2. i = Idx(p.seq) BY <1>5, <2>1 DEF Filled, NoSlot
    <2> QED BY <2>1, <2>2 DEF Slot
  <1> QED BY <1>2, <1>3, <1>4, <1>5 DEF Window, CursorWindow, EmptyUntilStarted

LEMMA FeedAcceptWindow ==
  ASSUME TypeOK, Window, NEW p \in Packets, NEW path \in Paths, FeedAccept(p, path)
  PROVE  Window'
  <1>1. p.seq \in SeqNum /\ Idx(p.seq) \in Index BY PacketType, IdxType
  <1>2. /\ deliver_next \in SeqNum /\ highest \in SeqNum
        /\ ring \in [Index -> Slots]
    BY DEF TypeOK, Slots
  <1>3. /\ started /\ started' = started /\ deliver_next' = deliver_next
        /\ highest' = IF Less(highest, p.seq) THEN p.seq ELSE highest
        /\ ~Less(p.seq, deliver_next)
        /\ ring' = [ring EXCEPT ![Idx(p.seq)] = Slot(p, PktTime(p))]
    BY DEF FeedAccept, cursorVars, TooLate
  <1>4. Dist \in -1 .. Half - 1 BY <1>3 DEF Window, CursorWindow
  <1>5. /\ Dist' \in 0 .. Half - 1 /\ Dist <= Dist'
        /\ RawGap(deliver_next, p.seq) <= Dist'
    <2>1. Half > 1 OBVIOUS
    <2> QED BY <1>1, <1>2, <1>3, <1>4, <2>1, HighestDistance DEF Dist
  <1>6. ASSUME NEW i \in Index, Filled(i)'
        PROVE  Idx(ring'[i].seq) = i /\ RawGap(deliver_next', ring'[i].seq) <= Dist'
    <2>1. CASE i = Idx(p.seq)
      <3>1. ring'[i].seq = p.seq BY <1>1, <1>2, <1>3, <2>1 DEF Slot
      <3> QED BY <1>3, <1>5, <2>1, <3>1
    <2>2. CASE i # Idx(p.seq)
      <3>1. ring'[i] = ring[i] BY <1>2, <1>3, <2>2
      <3>2. Filled(i) BY <1>6, <3>1 DEF Filled
      <3>3. /\ Idx(ring[i].seq) = i /\ RawGap(deliver_next, ring[i].seq) \in Nat
            /\ RawGap(deliver_next, ring[i].seq) <= Dist
        BY <3>2, WindowSlot
      <3>4. RawGap(deliver_next', ring'[i].seq) = RawGap(deliver_next, ring[i].seq)
        BY <1>3, <3>1
      <3> QED BY <1>4, <1>5, <3>1, <3>3, <3>4
    <2> QED BY <2>1, <2>2
  <1> QED BY <1>3, <1>5, <1>6 DEF Window, CursorWindow, EmptyUntilStarted

\* Every slot of the ring is a slot of the window once the cursor has moved on
\* by k and the slots of the k positions are empty.
LEMMA AdvanceWindow ==
  ASSUME TypeOK, Window, started, NEW k \in 1 .. RingSize, k <= Dist + 1, Dist >= 0,
         deliver_next' = WrappingAdd(deliver_next, k),
         UNCHANGED <<started, highest>>,
         \A i \in Index : Filled(i)' =>
           /\ ring'[i] = ring[i]
           /\ \A j \in 0 .. k - 1 : ring[i].seq # WrappingAdd(deliver_next, j)
  PROVE  Window'
  <1>1. deliver_next \in SeqNum /\ highest \in SeqNum BY DEF TypeOK
  <1>2. Dist \in 0 .. Half - 1 BY DEF Window, CursorWindow
  <1>3. k \in 1 .. Half /\ k \in SeqNum /\ Half > 1 BY DEF SeqNum, SeqSize
  <1>4. Dist' = Dist - k BY <1>1, <1>2, <1>3, DistanceAfterAdvance DEF Dist
  <1>5. ASSUME NEW i \in Index, Filled(i)'
        PROVE  Idx(ring'[i].seq) = i /\ RawGap(deliver_next', ring'[i].seq) <= Dist'
    <2>1. ring'[i] = ring[i] /\ Filled(i) BY <1>5 DEF Filled
    <2>2. /\ ring[i].seq \in SeqNum /\ Idx(ring[i].seq) = i
          /\ RawGap(deliver_next, ring[i].seq) \in Nat
          /\ RawGap(deliver_next, ring[i].seq) <= Dist
      BY <2>1, WindowSlot
    <2>3. RawGap(deliver_next, ring[i].seq) >= k
      <3>1. SUFFICES ASSUME RawGap(deliver_next, ring[i].seq) < k PROVE FALSE
        BY <1>3, <2>2
      <3>2. PICK j \in 0 .. k - 1 : ring[i].seq = WrappingAdd(deliver_next, j)
        BY <1>1, <1>3, <2>2, <3>1, GapWitness
      <3> QED BY <1>5, <3>2
    <2>4. RawGap(deliver_next', ring[i].seq) = RawGap(deliver_next, ring[i].seq) - k
      BY <1>1, <1>3, <2>2, <2>3, GapAfterAdvance
    <2> QED BY <1>2, <1>3, <1>4, <2>1, <2>2, <2>4
  <1>6. Dist' \in -1 .. Half - 1 BY <1>2, <1>3, <1>4
  <1> QED BY <1>5, <1>6 DEF Window, CursorWindow, EmptyUntilStarted

LEMMA EmitDeliverWindow ==
  ASSUME TypeOK, Window, EmitDeliver PROVE Window'
  <1>1. deliver_next \in SeqNum /\ 1 \in SeqNum /\ ring \in [Index -> Slots]
    BY DEF TypeOK, SeqNum, SeqSize, Slots
  <1>2. Idx(deliver_next) \in Index /\ Filled(Idx(deliver_next))
    BY <1>1, IdxType DEF EmitDeliver, Buffered, Filled, SeqNum, Vacant
  <1>3. started /\ Dist >= 0 /\ 1 <= Dist + 1 /\ 1 \in 1 .. RingSize
    BY <1>2, WindowSlot
  <1>4. /\ deliver_next' = WrappingAdd(deliver_next, 1)
        /\ UNCHANGED <<started, highest>>
        /\ ring' = [ring EXCEPT ![Idx(deliver_next)] = NoSlot]
    BY DEF EmitDeliver, feedVars, streamVars
  <1>5. ASSUME NEW i \in Index, Filled(i)'
        PROVE  /\ ring'[i] = ring[i]
               /\ \A j \in 0 .. 1 - 1 : ring[i].seq # WrappingAdd(deliver_next, j)
    <2>1. i # Idx(deliver_next) BY <1>1, <1>2, <1>4, <1>5 DEF Filled, NoSlot
    <2>2. ring'[i] = ring[i] BY <1>1, <1>4, <2>1
    <2>3. Filled(i) BY <1>5, <2>2 DEF Filled
    <2>4. ring[i].seq # deliver_next BY <2>1, <2>3, WindowSlot
    <2>5. WrappingAdd(deliver_next, 0) = deliver_next
      BY <1>1 DEF WrappingAdd, SeqNum, SeqSize
    <2> QED BY <2>2, <2>4, <2>5
  <1> QED BY <1>3, <1>4, <1>5, AdvanceWindow

LEMMA SkipToWindow ==
  ASSUME TypeOK, Window, started, NEW k \in 1 .. RingSize, k <= Dist, SkipTo(k)
  PROVE  Window'
  <1>0. Dist \in Int BY DistanceType DEF TypeOK, Dist
  <1>1. k <= Dist + 1 /\ Dist >= 0 BY <1>0
  <1>2. /\ deliver_next' = WrappingAdd(deliver_next, k)
        /\ UNCHANGED <<started, highest>>
    BY DEF SkipTo, feedVars, streamVars
  <1>3. ASSUME NEW i \in Index, Filled(i)'
        PROVE  /\ ring'[i] = ring[i]
               /\ \A j \in 0 .. k - 1 : ring[i].seq # WrappingAdd(deliver_next, j)
    <2>1. ring'[i] = IF \E j \in 0 .. k - 1 : i = Idx(WrappingAdd(deliver_next, j))
                     THEN NoSlot ELSE ring[i]
      BY DEF SkipTo
    <2>2. ~ \E j \in 0 .. k - 1 : i = Idx(WrappingAdd(deliver_next, j))
      BY <1>3, <2>1 DEF Filled, NoSlot
    <2>3. ring'[i] = ring[i] BY <2>1, <2>2
    <2>4. Filled(i) BY <1>3, <2>3 DEF Filled
    <2>5. Idx(ring[i].seq) = i BY <2>4, WindowSlot
    <2> QED BY <2>2, <2>3, <2>5
  <1> QED BY <1>1, <1>2, <1>3, AdvanceWindow

\* Both skips stay at or below highest.
LEMMA SkipWindow ==
  ASSUME TypeOK, Window, started, SkipHole \/ SkipLapped PROVE Window'
  <1>1. CASE SkipHole
    BY <1>1, FirstAheadType, SkipToWindow DEF SkipHole
  <1>2. CASE SkipLapped
    <2>1. RingSize \in 1 .. RingSize /\ Dist \in Int
      BY DistanceType DEF TypeOK, Dist
    <2> QED BY <1>2, <2>1, SkipToWindow DEF SkipLapped
  <1> QED BY <1>1, <1>2

\* The steps that leave the ring and the cursors alone.
LEMMA OtherUnchanged ==
  ASSUME \/ \E p \in Packets : FeedDiscard(p)
         \/ EndDeliver \/ NackTurn
         \/ PlayoutTimer \/ NackTimer \/ EchoTimer \/ FlowTick
         \/ \E s \in RttSamples : EchoResponse(s)
         \/ \E b \in SenderMaxBuffers : SetSenderMaxBuffer(b)
         \/ \E m \in RttMultipliers : SetRttMultiplier(m)
         \/ Advance \/ Stopped \/ UNCHANGED vars
  PROVE  /\ UNCHANGED <<ring, started, deliver_next, highest>>
         /\ UNCHANGED <<pos, event, pending_discontinuity>>
  BY DEF FeedDiscard, EndDeliver, NackTurn, NackDrop, NackKeep, NackEnd, PlayoutTimer,
         NackTimer, EchoTimer, FlowTick, EchoResponse, SetSenderMaxBuffer,
         SetRttMultiplier, Advance, Stopped, vars, feedVars, streamVars, cursorVars

-----------------------------------------------------------------------------
(* The playout timer *)

\* The host's timer stays the core's across a call that drains its outputs.
LEMMA DrainShadow ==
  ASSUME TypeOK, PlayoutShadow, NEW echo, DrainTimers(echo)
  PROVE  wheel'["Playout"] = IF playout_armed' THEN playout_deadline' ELSE Off
  <1>1. wheel \in [TimerId -> Nat \cup {Off}] BY DEF TypeOK
  <1>2. wheel["Playout"] = IF playout_armed THEN playout_deadline ELSE Off
    BY DEF PlayoutShadow
  <1> DEFINE a == PlayoutOutput
             b == IF nack_armed' /\ ~nack_armed THEN now + NackCadence ELSE wheel["Nack"]
  <1>3. a = IF playout_armed' THEN playout_deadline' ELSE Off
    BY <1>2 DEF PlayoutOutput
  <1>4. wheel' = [wheel EXCEPT !["Playout"] = a, !["Nack"] = b, !["RttEcho"] = echo]
    BY <1>1 DEF DrainTimers, TimerId
  <1> HIDE DEF a, b
  <1> QED BY <1>1, <1>3, <1>4 DEF TimerId

\* The steps that touch neither the wheel's playout entry, its shadow, the
\* ring, the started flag, nor whether a playout loop runs.
LEMMA ShadowUnchanged ==
  ASSUME PlayoutShadow, UNCHANGED <<ring, started, playout_armed, playout_deadline>>,
         wheel'["Playout"] = wheel["Playout"], Delivering' = Delivering
  PROVE  PlayoutShadow'
  BY DEF PlayoutShadow, Filled, Delivering

LEMMA FeedShadow ==
  ASSUME TypeOK, PlayoutShadow, Feed PROVE PlayoutShadow'
  <1>1. ASSUME NEW p \in Packets, FeedDiscard(p) PROVE PlayoutShadow'
    BY <1>1, ShadowUnchanged DEF FeedDiscard, streamVars, playVars, Delivering
  <1>2. ASSUME NEW p \in Packets, NEW path \in Paths, FeedAnchor(p, path)
        PROVE  PlayoutShadow'
    <2>1. wheel'["Playout"] = IF playout_armed' THEN playout_deadline' ELSE Off
      BY <1>2, DrainShadow DEF FeedAnchor
    <2> QED BY <1>2, <2>1 DEF FeedAnchor, CanFeed, PlayoutShadow, Delivering
  <1>3. ASSUME NEW p \in Packets, NEW path \in Paths, FeedAccept(p, path)
        PROVE  PlayoutShadow'
    <2>1. wheel'["Playout"] = IF playout_armed' THEN playout_deadline' ELSE Off
      BY <1>3, DrainShadow DEF FeedAccept
    <2>2. started' /\ phase' = "idle" BY <1>3 DEF FeedAccept, CanFeed
    <2>3. playout_armed'
      BY <1>3 DEF FeedAccept, ArmPlayout, playVars
    <2> QED BY <2>1, <2>2, <2>3 DEF PlayoutShadow, Delivering
  <1> QED BY <1>1, <1>2, <1>3 DEF Feed

\* deliver_due disarms the timer only over an empty ring: a slot still filled
\* would lie in the scan, or at the cursor.
LEMMA DisarmedEmpty ==
  ASSUME TypeOK, Window, ~Buffered(deliver_next), Ahead = {}, Dist <= RingSize,
         NEW i \in Index, Filled(i)
  PROVE  FALSE
  <1> DEFINE s == ring[i].seq
             k == RawGap(deliver_next, s)
  <1>1. /\ s \in SeqNum /\ deliver_next \in SeqNum /\ Idx(s) = i
        /\ k \in Nat /\ k <= Dist /\ Dist \in 0 .. Half - 1
    BY WindowSlot DEF TypeOK
  <1>2. WrappingAdd(deliver_next, k) = s BY <1>1, AddRawGap
  <1>3. Buffered(WrappingAdd(deliver_next, k)) BY <1>1, <1>2 DEF Buffered
  <1>4. k # 0
    <2>1. WrappingAdd(deliver_next, 0) = deliver_next
      BY <1>1 DEF WrappingAdd, SeqNum, SeqSize
    <2> QED BY <1>3, <2>1
  <1> HIDE DEF k, s
  <1>5. k \in 1 .. MinOf(Dist, RingSize) BY <1>1, <1>4 DEF MinOf
  <1> QED BY <1>3, <1>5 DEF Ahead

LEMMA DeliverShadow ==
  ASSUME TypeOK, Window, PlayoutShadow, DeliverTurn PROVE PlayoutShadow'
  <1>1. started /\ started' = started
    BY DEF DeliverTurn, EmitDeliver, SkipHole, SkipLapped, SkipTo, EndDeliver,
           PlayoutShadow, streamVars
  <1>2. CASE EmitDeliver \/ SkipHole \/ SkipLapped
    <2>1. /\ UNCHANGED <<phase, wheel, playout_armed, playout_deadline>>
          /\ Delivering
      BY <1>2 DEF EmitDeliver, SkipHole, SkipLapped, SkipTo, playVars
    <2> QED BY <1>1, <2>1 DEF PlayoutShadow, Delivering
  <1>3. CASE EndDeliver
    <2>1. wheel'["Playout"] = IF playout_armed' THEN playout_deadline' ELSE Off
      BY <1>3, DrainShadow DEF EndDeliver
    <2>2. phase' \in {"idle", "tick_nack"} BY <1>3 DEF EndDeliver, BeginNacks
    <2>3. ring' = ring BY <1>3 DEF EndDeliver
    <2>4. playout_armed' \/ ~ \E i \in Index : Filled(i)
      <3>1. CASE DisarmPlayout /\ ~Buffered(deliver_next) /\ Ahead = {} /\ Dist <= RingSize
        BY <3>1, DisarmedEmpty
      <3>2. CASE \E d : ArmPlayout(d) BY <3>2 DEF ArmPlayout, playVars
      <3> QED BY <1>3, <3>1, <3>2 DEF EndDeliver
    <2> QED BY <1>1, <2>1, <2>2, <2>3, <2>4 DEF PlayoutShadow, Delivering, Filled
  <1> QED BY <1>2, <1>3 DEF DeliverTurn

LEMMA NackShadow ==
  ASSUME TypeOK, PlayoutShadow, NackTurn PROVE PlayoutShadow'
  <1>1. CASE NackDrop \/ NackKeep
    BY <1>1, ShadowUnchanged
    DEF NackDrop, NackKeep, streamVars, playVars, Delivering
  <1>2. CASE NackEnd
    <2>1. wheel'["Playout"] = IF playout_armed' THEN playout_deadline' ELSE Off
      BY <1>2, DrainShadow DEF NackEnd
    <2>2. /\ ~Delivering /\ ~Delivering'
          /\ UNCHANGED <<ring, started, playout_armed, playout_deadline>>
      BY <1>2 DEF NackEnd, Walking, Delivering, streamVars, playVars
    <2> QED BY <2>1, <2>2 DEF PlayoutShadow, Filled
  <1> QED BY <1>1, <1>2 DEF NackTurn

LEMMA TimerShadow ==
  ASSUME TypeOK, PlayoutShadow, PlayoutTimer \/ NackTimer \/ EchoTimer
  PROVE  PlayoutShadow'
  <1>0. wheel \in [TimerId -> Nat \cup {Off}] BY DEF TypeOK
  <1>1. CASE PlayoutTimer
    <2>1. playout_armed BY <1>1 DEF PlayoutTimer, Fires, PlayoutShadow
    <2>2. /\ started' /\ ~playout_armed' /\ phase' = "deliver"
          /\ wheel' = [wheel EXCEPT !["Playout"] = Off]
      BY <1>1, <2>1 DEF PlayoutTimer, PlayoutShadow, streamVars
    <2>3. wheel'["Playout"] = Off BY <1>0, <2>2 DEF TimerId
    <2> QED BY <2>2, <2>3 DEF PlayoutShadow, Delivering
  <1>2. CASE NackTimer
    <2>1. wheel' = [wheel EXCEPT !["Nack"] = Off] BY <1>2 DEF NackTimer
    <2>2. wheel'["Playout"] = wheel["Playout"] BY <1>0, <2>1 DEF TimerId
    <2>3. phase = "idle" /\ phase' \in {"idle", "nack"}
      BY <1>2 DEF NackTimer, Fires, BeginNacks
    <2> QED BY <1>2, <2>2, <2>3, ShadowUnchanged
            DEF NackTimer, streamVars, playVars, Delivering
  <1>3. CASE EchoTimer
    <2>1. wheel'["Playout"] = wheel["Playout"] BY <1>0, <1>3 DEF EchoTimer, TimerId
    <2> QED BY <1>3, <2>1, ShadowUnchanged
            DEF EchoTimer, streamVars, playVars, Delivering
  <1> QED BY <1>1, <1>2, <1>3

LEMMA InputShadow ==
  ASSUME PlayoutShadow,
         \/ FlowTick \/ Advance \/ Stopped \/ UNCHANGED vars
         \/ \E s \in RttSamples : EchoResponse(s)
         \/ \E b \in SenderMaxBuffers : SetSenderMaxBuffer(b)
         \/ \E m \in RttMultipliers : SetRttMultiplier(m)
  PROVE  PlayoutShadow'
  <1>1. CASE FlowTick
    BY <1>1 DEF FlowTick, PlayoutShadow, Delivering, streamVars, playVars
  <1>2. CASE ~FlowTick
    <2>1. UNCHANGED <<phase, ring, started, playout_armed, playout_deadline, wheel>>
      BY <1>2 DEF Advance, Stopped, EchoResponse, SetSenderMaxBuffer,
                  SetRttMultiplier, vars, streamVars, playVars
    <2> QED BY <2>1, ShadowUnchanged DEF Delivering
  <1> QED BY <1>1, <1>2

-----------------------------------------------------------------------------
(* The discontinuity flag *)

LEMMA FlagStep ==
  ASSUME TypeOK, FlagExact,
         \/ \E p \in Packets, path \in Paths : FeedAnchor(p, path) \/ FeedAccept(p, path)
         \/ EmitDeliver
         \/ Ahead # {} /\ SkipTo(FirstAhead)
         \/ SkipTo(RingSize)
  PROVE  FlagExact'
  <1>0. pos \in Nat /\ event.pos \in Int
    BY DEF TypeOK
  <1>1. ASSUME NEW p \in Packets, NEW path \in Paths, FeedAnchor(p, path)
        PROVE  FlagExact'
    BY <1>1 DEF FeedAnchor, FlagExact
  <1>2. ASSUME NEW p \in Packets, NEW path \in Paths, FeedAccept(p, path)
        PROVE  FlagExact'
    BY <1>2 DEF FeedAccept, cursorVars, FlagExact
  <1>3. CASE EmitDeliver BY <1>0, <1>3 DEF EmitDeliver, FlagExact
  <1>4. ASSUME NEW k \in 1 .. RingSize, SkipTo(k) PROVE FlagExact'
    <2>1. pos' = pos + k /\ event' = event /\ pending_discontinuity' = TRUE
      BY <1>4 DEF SkipTo
    <2> QED BY <1>0, <2>1 DEF FlagExact
  <1>5. CASE Ahead # {} /\ SkipTo(FirstAhead) BY <1>4, <1>5, FirstAheadType
  <1>6. RingSize \in 1 .. RingSize OBVIOUS
  <1> QED BY <1>1, <1>2, <1>3, <1>4, <1>5, <1>6

-----------------------------------------------------------------------------
(* The theorems *)

LEMMA InvInit == Init => IInv
  <1> SUFFICES ASSUME Init PROVE IInv OBVIOUS
  <1>1. TypeOK BY InitType
  <1>2. \A i \in Index : ~Filled(i) BY DEF Init, Filled, NoSlot
  <1>3. CursorWindow /\ EmptyUntilStarted
    BY <1>2 DEF Init, CursorWindow, EmptyUntilStarted
  <1>4. PlayoutShadow BY <1>2 DEF Init, PlayoutShadow, Delivering, TimerId
  <1>5. FlagExact BY DEF Init, FlagExact
  <1> QED BY <1>1, <1>3, <1>4, <1>5 DEF IInv

LEMMA WindowStep ==
  ASSUME TypeOK, Window, PlayoutShadow, [Next]_vars PROVE Window'
  <1>1. ASSUME NEW p \in Packets, NEW path \in Paths,
               FeedAnchor(p, path) \/ FeedAccept(p, path)
        PROVE  Window'
    BY <1>1, FeedAnchorWindow, FeedAcceptWindow
  <1>2. CASE EmitDeliver BY <1>2, EmitDeliverWindow
  <1>3. CASE SkipHole \/ SkipLapped
    <2>1. started BY <1>3 DEF SkipHole, SkipLapped, PlayoutShadow
    <2> QED BY <1>3, <2>1, SkipWindow
  <1> QED BY <1>1, <1>2, <1>3, OtherUnchanged, WindowUnchanged
          DEF Next, Feed, DeliverTurn

LEMMA ShadowStep ==
  ASSUME TypeOK, Window, PlayoutShadow, [Next]_vars PROVE PlayoutShadow'
  BY FeedShadow, DeliverShadow, NackShadow, TimerShadow, InputShadow DEF Next

LEMMA FlagExactStep ==
  ASSUME TypeOK, FlagExact, [Next]_vars PROVE FlagExact'
  <1>1. ASSUME UNCHANGED <<pos, event, pending_discontinuity>> PROVE FlagExact'
    BY <1>1 DEF FlagExact
  <1>2. CASE SkipHole BY <1>2, FlagStep DEF SkipHole
  <1>3. CASE SkipLapped BY <1>3, FlagStep DEF SkipLapped
  <1>4. CASE EmitDeliver BY <1>4, FlagStep
  <1>5. ASSUME NEW p \in Packets, NEW path \in Paths,
               FeedAnchor(p, path) \/ FeedAccept(p, path)
        PROVE  FlagExact'
    BY <1>5, FlagStep
  <1> QED BY <1>1, <1>2, <1>3, <1>4, <1>5, OtherUnchanged DEF Next, Feed, DeliverTurn

LEMMA InvStep == IInv /\ [Next]_vars => IInv'
  <1> SUFFICES ASSUME IInv, [Next]_vars PROVE IInv' OBVIOUS
  <1>1. TypeOK' BY TypeStep DEF IInv
  <1>2. Window' BY WindowStep DEF IInv, Window
  <1>3. PlayoutShadow' BY ShadowStep DEF IInv, Window
  <1>4. FlagExact' BY FlagExactStep DEF IInv
  <1> QED BY <1>1, <1>2, <1>3, <1>4 DEF IInv, Window

LEMMA InvAlways == Spec => []IInv
  BY InvInit, InvStep, PTL DEF Spec

\* The ring never holds a sequence the cursor has passed or one the scan of
\* deliver_due, bounded by highest, cannot reach, for every ring size, sequence
\* width, packet set and schedule.
THEOREM WindowHolds == Spec => []CursorWindow
  <1>1. IInv => CursorWindow BY DEF IInv
  <1> QED BY <1>1, InvAlways, PTL

-----------------------------------------------------------------------------
(* The missing queue, its timer and the recovery buffer                    *)

\* A queue is being walked or waits whole; outside the timer handler's own pass
\* an entry anywhere keeps the shadow set; and a set shadow is a timer of the
\* host, due within a cadence, although a flow reset clears only the shadow.
NackShadowed ==
  /\ ~Walking => scan = <<>>
  /\ phase # "nack" /\ (missing # <<>> \/ scan # <<>>) => nack_armed
  /\ nack_armed => wheel["Nack"] # Off /\ wheel["Nack"] <= now + NackCadence

\* An advertised buffer that counts is no smaller than the window.
BufferNegotiated == sender_max_buffer # 0 => sender_max_buffer >= RecoveryMin

QInv == IInv /\ NackShadowed /\ QueueBounded /\ BufferInWindow /\ BufferNegotiated

\* What the drain of a call's outputs leaves of the NACK timer.
LEMMA DrainNack ==
  ASSUME TypeOK, NEW echo, DrainTimers(echo)
  PROVE  wheel'["Nack"] = IF nack_armed' /\ ~nack_armed THEN now + NackCadence
                          ELSE wheel["Nack"]
  <1>1. wheel \in [TimerId -> Nat \cup {Off}] BY DEF TypeOK
  <1> DEFINE a == PlayoutOutput
             b == IF nack_armed' /\ ~nack_armed THEN now + NackCadence ELSE wheel["Nack"]
  <1>2. wheel' = [wheel EXCEPT !["Playout"] = a, !["Nack"] = b, !["RttEcho"] = echo]
    BY <1>1 DEF DrainTimers, TimerId
  <1> HIDE DEF a, b
  <1>3. wheel'["Nack"] = b BY <1>1, <1>2 DEF TimerId
  <1> QED BY <1>3 DEF b

\* A call that only sets the shadow, and drains, keeps it the host's timer.
LEMMA NackTimerKept ==
  ASSUME TypeOK, NackShadowed, NEW echo, DrainTimers(echo), now' = now
  PROVE  nack_armed' => wheel'["Nack"] # Off /\ wheel'["Nack"] <= now' + NackCadence
  <1>1. now \in Nat /\ now + NackCadence \in Nat BY DEF TypeOK
  <1>2. CASE nack_armed' /\ ~nack_armed BY <1>1, <1>2, DrainNack DEF Off
  <1>3. CASE nack_armed' /\ nack_armed BY <1>1, <1>3, DrainNack DEF NackShadowed
  <1> QED BY <1>2, <1>3

LEMMA QueueFeed ==
  ASSUME TypeOK, NackShadowed, QueueBounded, Feed
  PROVE  NackShadowed' /\ QueueBounded'
  <1>1. ASSUME NEW p \in Packets, FeedDiscard(p) PROVE NackShadowed' /\ QueueBounded'
    BY <1>1 DEF FeedDiscard, nackVars, NackShadowed, QueueBounded, Walking
  <1>2. ASSUME NEW p \in Packets, NEW path \in Paths, FeedAnchor(p, path)
        PROVE  NackShadowed' /\ QueueBounded'
    <2>1. /\ missing' = <<>> /\ ~nack_armed' /\ phase' = "idle" /\ phase = "idle"
          /\ scan' = scan
      BY <1>2 DEF FeedAnchor, CanFeed
    <2>2. scan = <<>> BY <2>1 DEF NackShadowed, Walking
    <2> QED BY <2>1, <2>2 DEF NackShadowed, QueueBounded, Walking
  <1>3. ASSUME NEW p \in Packets, NEW path \in Paths, FeedAccept(p, path)
        PROVE  NackShadowed' /\ QueueBounded'
    <2>1. /\ phase = "idle" /\ phase' = "idle" /\ scan' = scan /\ now' = now
          /\ missing' = missing \o Marked(p, ring', short_seq')
          /\ nack_armed' = (nack_armed \/ missing' # <<>>)
      BY <1>3 DEF FeedAccept, CanFeed, ScheduleNack
    <2>2. scan = <<>> BY <2>1 DEF NackShadowed, Walking
    <2>3. nack_armed' => wheel'["Nack"] # Off /\ wheel'["Nack"] <= now' + NackCadence
      BY <1>3, <2>1, NackTimerKept DEF FeedAccept
    <2>4. NackShadowed' BY <2>1, <2>2, <2>3 DEF NackShadowed, Walking
    <2>5. Len(Marked(p, ring', short_seq')) <= MaxOf(0, MissingCounterMax + 1 - Len(missing))
          /\ Marked(p, ring', short_seq') \in Seq(Entries)
      <3>1. TypeOK' BY <1>3, FeedAcceptType
      <3>2. Marked(p, ring', short_seq') \in Seq(Entries)
        BY <3>1, MarkedType DEF TypeOK
      <3>3. /\ p.seq \in SeqNum /\ last_found \in SeqNum /\ Len(missing) \in Nat
        BY PacketType DEF TypeOK
      <3>4. WrappingSub(p.seq, last_found) \in Nat BY <3>3, WrappingType DEF SeqNum
      <3> DEFINE n == MarkCount(WrappingSub(p.seq, last_found), short_seq')
      <3>5. n \in Nat /\ n <= MaxOf(0, MissingCounterMax + 1 - Len(missing))
        BY <3>3, <3>4, SMTT(30) DEF MarkCount, MinOf, MaxOf
      <3>6. CASE Advances(p)
        <4> HIDE DEF n
        <4>1. Len(Marked(p, ring', short_seq')) = n BY <3>5, <3>6 DEF Marked, n
        <4> QED BY <3>2, <3>5, <4>1
      <3>7. CASE ~Advances(p)
        <4>1. Marked(p, ring', short_seq') = <<>> BY <3>7 DEF Marked
        <4> QED BY <3>2, <3>3, <4>1 DEF MaxOf
      <3> QED BY <3>6, <3>7
    <2>6. missing \in Seq(Entries) BY DEF TypeOK
    <2>7. Len(missing') = Len(missing) + Len(Marked(p, ring', short_seq'))
      BY <2>1, <2>5, <2>6
    <2>8. QueueBounded'
      BY <2>1, <2>2, <2>5, <2>6, <2>7 DEF QueueBounded, MaxOf
    <2> QED BY <2>4, <2>8
  <1> QED BY <1>1, <1>2, <1>3 DEF Feed

\* The head of a pass moves the queue without growing it.
LEMMA QueueBegins ==
  ASSUME TypeOK, QueueBounded, scan = <<>>, NEW w \in {"nack", "tick_nack"}, BeginNacks(w)
  PROVE  /\ QueueBounded'
         /\ missing' # <<>> \/ scan' # <<>> => missing # <<>>
         /\ phase' = w \/ (phase' = "idle" /\ missing' = <<>> /\ scan' = <<>>)
  <1>1. CASE missing = <<>> BY <1>1 DEF BeginNacks, QueueBounded
  <1>2. CASE missing # <<>>
    <2>1. phase' = w /\ scan' = missing /\ missing' = <<>> BY <1>2 DEF BeginNacks
    <2>2. Len(scan) = 0 /\ Len(missing') = 0 /\ Len(scan') = Len(missing) BY <2>1
    <2>3. Len(missing) \in Nat BY DEF TypeOK
    <2>4. Len(missing') + Len(scan') = Len(missing) + Len(scan) BY <2>2, <2>3
    <2>5. QueueBounded' BY <2>4 DEF QueueBounded
    <2> QED BY <1>2, <2>1, <2>5
  <1> QED BY <1>1, <1>2

LEMMA QueueDeliver ==
  ASSUME TypeOK, NackShadowed, QueueBounded, DeliverTurn
  PROVE  NackShadowed' /\ QueueBounded'
  <1>1. CASE EmitDeliver \/ SkipHole \/ SkipLapped
    BY <1>1 DEF EmitDeliver, SkipHole, SkipLapped, SkipTo, nackVars, NackShadowed,
                QueueBounded, Walking
  <1>2. CASE EndDeliver
    <2>1. /\ phase \in {"deliver", "tick"} /\ now' = now /\ nack_armed' = nack_armed
          /\ DrainTimers(wheel["RttEcho"])
      BY <1>2 DEF EndDeliver, Delivering
    <2>2. nack_armed' => wheel'["Nack"] # Off /\ wheel'["Nack"] <= now' + NackCadence
      BY <2>1, NackTimerKept
    <2>3. scan = <<>> /\ (missing # <<>> => nack_armed)
      BY <2>1 DEF NackShadowed, Walking
    <2>4. CASE phase = "tick"
      <3>1. BeginNacks("tick_nack") BY <1>2, <2>4 DEF EndDeliver
      <3>2. /\ QueueBounded'
            /\ missing' # <<>> \/ scan' # <<>> => missing # <<>>
            /\ phase' = "tick_nack" \/ (phase' = "idle" /\ missing' = <<>> /\ scan' = <<>>)
        BY <2>3, <3>1, QueueBegins
      <3> QED BY <2>1, <2>2, <2>3, <3>2 DEF NackShadowed, Walking
    <2>5. CASE phase # "tick"
      <3>1. phase' = "idle" /\ missing' = missing /\ scan' = scan
        BY <1>2, <2>5 DEF EndDeliver
      <3> QED BY <2>1, <2>2, <2>3, <3>1 DEF NackShadowed, QueueBounded, Walking
    <2> QED BY <2>4, <2>5
  <1> QED BY <1>1, <1>2 DEF DeliverTurn

LEMMA QueueNack ==
  ASSUME TypeOK, NackShadowed, QueueBounded, NackTurn
  PROVE  NackShadowed' /\ QueueBounded'
  <1>0. missing \in Seq(Entries) /\ scan \in Seq(Entries) BY DEF TypeOK
  <1>1. CASE NackDrop
    <2>1. /\ Walking /\ Walking' /\ scan # <<>> /\ scan' = Tail(scan)
          /\ UNCHANGED <<now, phase, wheel, missing, nack_armed>>
      BY <1>1 DEF NackDrop, Walking
    <2>2. Len(scan') = Len(scan) - 1 BY <1>0, <2>1
    <2> QED BY <1>0, <2>1, <2>2 DEF NackShadowed, QueueBounded
  <1>2. CASE NackKeep
    <2>1. /\ Walking /\ Walking' /\ scan # <<>> /\ scan' = Tail(scan)
          /\ UNCHANGED <<now, phase, wheel, nack_armed>>
      BY <1>2 DEF NackKeep, Walking
    <2>2. \E e : missing' = Append(missing, e)
      BY <1>2 DEF NackKeep
    <2>3. Len(scan') = Len(scan) - 1 /\ Len(missing') = Len(missing) + 1
      BY <1>0, <2>1, <2>2
    <2> QED BY <1>0, <2>1, <2>3 DEF NackShadowed, QueueBounded
  <1>3. CASE NackEnd
    <2>1. /\ scan = <<>> /\ scan' = <<>> /\ missing' = missing /\ phase' = "idle"
          /\ now' = now /\ phase \in {"nack", "tick_nack"}
          /\ DrainTimers(wheel["RttEcho"])
      BY <1>3 DEF NackEnd, Walking
    <2>2. nack_armed' => wheel'["Nack"] # Off /\ wheel'["Nack"] <= now' + NackCadence
      BY <2>1, NackTimerKept
    <2>3. missing # <<>> => nack_armed'
      BY <1>3, <2>1 DEF NackEnd, ScheduleNack, NackShadowed
    <2> QED BY <2>1, <2>2, <2>3 DEF NackShadowed, QueueBounded, Walking
  <1> QED BY <1>1, <1>2, <1>3 DEF NackTurn

LEMMA QueueTimer ==
  ASSUME TypeOK, NackShadowed, QueueBounded, PlayoutTimer \/ NackTimer \/ EchoTimer
  PROVE  NackShadowed' /\ QueueBounded'
  <1>0. wheel \in [TimerId -> Nat \cup {Off}] BY DEF TypeOK
  <1>1. CASE PlayoutTimer
    <2>1. wheel'["Nack"] = wheel["Nack"] BY <1>0, <1>1 DEF PlayoutTimer, TimerId
    <2> QED BY <1>1, <2>1
            DEF PlayoutTimer, Fires, nackVars, NackShadowed, QueueBounded, Walking
  <1>2. CASE NackTimer
    <2>1. /\ phase = "idle" /\ ~nack_armed' /\ BeginNacks("nack")
      BY <1>2 DEF NackTimer, Fires
    <2>2. scan = <<>> BY <2>1 DEF NackShadowed, Walking
    <2>3. /\ QueueBounded'
          /\ phase' = "nack" \/ (phase' = "idle" /\ missing' = <<>> /\ scan' = <<>>)
      BY <2>1, <2>2, QueueBegins
    <2> QED BY <2>1, <2>3 DEF NackShadowed, Walking
  <1>3. CASE EchoTimer
    <2>1. wheel'["Nack"] = wheel["Nack"] BY <1>0, <1>3 DEF EchoTimer, TimerId
    <2> QED BY <1>3, <2>1 DEF EchoTimer, nackVars, NackShadowed, QueueBounded, Walking
  <1> QED BY <1>1, <1>2, <1>3

LEMMA QueueInput ==
  ASSUME TypeOK, NackShadowed, QueueBounded,
         \/ FlowTick \/ Advance \/ Stopped \/ UNCHANGED vars
         \/ \E s \in RttSamples : EchoResponse(s)
         \/ \E b \in SenderMaxBuffers : SetSenderMaxBuffer(b)
         \/ \E m \in RttMultipliers : SetRttMultiplier(m)
  PROVE  NackShadowed' /\ QueueBounded'
  <1>1. UNCHANGED <<wheel, nackVars>>
    BY DEF FlowTick, Advance, Stopped, vars, EchoResponse, SetSenderMaxBuffer, SetRttMultiplier
  <1>2. now \in Nat /\ now' \in {now, now + 1}
    BY DEF TypeOK, FlowTick, Advance, Stopped, vars, EchoResponse, SetSenderMaxBuffer,
           SetRttMultiplier
  <1>3. phase' = phase \/ (phase = "idle" /\ phase' = "tick")
    <2>1. CASE FlowTick BY <2>1 DEF FlowTick, CanFeed
    <2>2. CASE ~FlowTick
      <3>1. ASSUME NEW b \in SenderMaxBuffers, SetSenderMaxBuffer(b) PROVE phase' = phase
        BY <3>1 DEF SetSenderMaxBuffer
      <3>2. CASE Advance \/ Stopped \/ UNCHANGED vars BY <3>2 DEF Advance, Stopped, vars
      <3>3. ASSUME NEW s \in RttSamples, EchoResponse(s) PROVE phase' = phase
        BY <3>3 DEF EchoResponse
      <3>4. ASSUME NEW m \in RttMultipliers, SetRttMultiplier(m) PROVE phase' = phase
        BY <3>4 DEF SetRttMultiplier
      <3> QED BY <2>2, <3>1, <3>2, <3>3, <3>4
    <2> QED BY <2>1, <2>2
  <1>4. wheel["Nack"] \in Nat \cup {Off} BY DEF TypeOK, TimerId
  <1> QED BY <1>1, <1>2, <1>3, <1>4 DEF NackShadowed, QueueBounded, nackVars, Walking, Off

\* Only auto_scale_buffer moves the buffer, and it stays between the window's
\* ends and below what the peer retains.
LEMMA BufferStep ==
  ASSUME TypeOK, BufferInWindow, BufferNegotiated, [Next]_vars
  PROVE  BufferInWindow' /\ BufferNegotiated'
  <1>0. /\ sender_max_buffer \in Nat /\ recovery_buffer \in Nat /\ Scaled \in Nat
    BY ScaledType DEF TypeOK
  <1>1. ASSUME UNCHANGED <<recovery_buffer, sender_max_buffer>>
        PROVE  BufferInWindow' /\ BufferNegotiated'
    BY <1>1 DEF BufferInWindow, BufferNegotiated
  <1>2. CASE EchoTimer
    <2>1. sender_max_buffer' = sender_max_buffer BY <1>2 DEF EchoTimer
    <2>2. recovery_buffer' = recovery_buffer \/ (ScalingOn /\ recovery_buffer' = Scaled)
      <3>1. CASE started /\ ScalingOn BY <1>2, <3>1 DEF EchoTimer, AutoScaleBuffer
      <3>2. CASE started /\ ~ScalingOn BY <1>2, <3>2 DEF EchoTimer, AutoScaleBuffer
      <3>3. CASE ~started BY <1>2, <3>3 DEF EchoTimer
      <3> QED BY <3>1, <3>2, <3>3
    <2>3. ScalingOn => Scaled \in RecoveryMin .. RecoveryMax
      <3>1. ScalingOn => sender_max_buffer >= RecoveryMin
        BY <1>0 DEF ScalingOn, BufferNegotiated
      <3>2. RateLimited(Desired) \in Int BY DesiredType
      <3> QED BY <1>0, <3>1, <3>2 DEF Scaled, ClampRange, MinOf
    <2> QED BY <2>1, <2>2, <2>3 DEF BufferInWindow, BufferNegotiated
  <1>3. ASSUME NEW b \in SenderMaxBuffers, SetSenderMaxBuffer(b)
        PROVE  BufferInWindow' /\ BufferNegotiated'
    <2>1. b \in Nat OBVIOUS
    <2>2. sender_max_buffer' = (IF b < RecoveryMin THEN 0 ELSE b)
          /\ recovery_buffer' = recovery_buffer
      BY <1>3 DEF SetSenderMaxBuffer
    <2> QED BY <2>1, <2>2 DEF BufferInWindow, BufferNegotiated
  <1>4. CASE ~EchoTimer /\ ~(\E b \in SenderMaxBuffers : SetSenderMaxBuffer(b))
    <2>1. UNCHANGED <<recovery_buffer, sender_max_buffer>>
      BY <1>4 DEF Next, Feed, FeedDiscard, FeedAnchor, FeedAccept, DeliverTurn, EmitDeliver,
         SkipHole, SkipLapped, SkipTo, EndDeliver, NackTurn, NackDrop, NackKeep, NackEnd,
         PlayoutTimer, NackTimer, FlowTick, EchoResponse, SetRttMultiplier, Advance, Stopped,
         vars, scaleVars
    <2> QED BY <1>1, <2>1
  <1> QED BY <1>2, <1>3, <1>4

LEMMA QInit == Init => QInv
  <1> SUFFICES ASSUME Init PROVE QInv OBVIOUS
  <1>1. NackShadowed /\ QueueBounded
    BY DEF Init, NackShadowed, QueueBounded, Walking
  <1>2. BufferInWindow /\ BufferNegotiated
    <2>1. recovery_buffer = (RecoveryMax - RecoveryMin) \div 2 + RecoveryMin
          /\ sender_max_buffer = 0
      BY DEF Init
    <2> QED BY <2>1 DEF BufferInWindow, BufferNegotiated
  <1> QED BY <1>1, <1>2, InvInit DEF QInv

LEMMA QStep == QInv /\ [Next]_vars => QInv'
  <1> SUFFICES ASSUME QInv, [Next]_vars PROVE QInv' OBVIOUS
  <1>1. TypeOK /\ NackShadowed /\ QueueBounded BY DEF QInv, IInv
  <1>2. IInv' BY InvStep DEF QInv
  <1>3. BufferInWindow' /\ BufferNegotiated' BY <1>1, BufferStep DEF QInv
  <1>4. NackShadowed' /\ QueueBounded'
    BY <1>1, QueueFeed, QueueDeliver, QueueNack, QueueTimer, QueueInput DEF Next
  <1> QED BY <1>2, <1>3, <1>4 DEF QInv

LEMMA QAlways == Spec => []QInv
  BY QInit, QStep, PTL DEF Spec

\* Between calls a filled ring has its playout timer, and a queued hole its NACK
\* timer, running on the host, whatever order packets, resets, timers and ticks
\* come in.
THEOREM TimersAlwaysArmed == Spec => []TimersArmed
  <1>1. QInv => TimersArmed
    <2> SUFFICES ASSUME QInv PROVE TimersArmed OBVIOUS
    <2>1. PlayoutArmed BY DEF QInv, IInv, PlayoutShadow, PlayoutArmed, Delivering
    <2>2. NackArmed BY DEF QInv, NackShadowed, NackArmed, Walking
    <2> QED BY <2>1, <2>2 DEF TimersArmed
  <1> QED BY <1>1, QAlways, PTL

\* The missing queue never grows past its bound by more than one entry, however
\* passes and gaps interleave, and the recovery buffer stays in its window
\* whatever the peer negotiates.
THEOREM ResourcesHold == Spec => []ResourcesBounded
  <1>1. QInv => ResourcesBounded BY DEF QInv, ResourcesBounded
  <1> QED BY <1>1, QAlways, PTL

\* The receiver implements PlayoutStream: positions delivered strictly
\* increase and each discontinuity flag is exact.
THEOREM ImplementsStream == Spec => PlayoutSpec
  <1>1. Init => Stream!Init BY DEF Init, Stream!Init, Stream!NoDelivery
  <1>2. IInv /\ [Next]_vars => [Stream!Next]_event
    <2> SUFFICES ASSUME IInv, [Next]_vars, event' # event PROVE Stream!Next
      BY DEF IInv
    <2>1. CASE EmitDeliver
      <3>1. pos \in Nat /\ event.pos < pos /\ event.pos \in Int
            /\ (pending_discontinuity <=> pos # event.pos + 1)
            /\ pending_discontinuity \in BOOLEAN
        BY DEF IInv, TypeOK, FlagExact
      <3>2. event' = [pos |-> pos, discontinuity |-> pending_discontinuity]
        BY <2>1 DEF EmitDeliver
      <3>3. event'.pos = pos BY <3>2
      <3>4. pending_discontinuity = (pos # event.pos + 1) BY <3>1
      <3> QED BY <3>1, <3>2, <3>3, <3>4 DEF Stream!Next, Stream!Deliver
    <2>2. ASSUME NEW p \in Packets, NEW path \in Paths, FeedAnchor(p, path)
          PROVE  Stream!Next
      BY <2>2 DEF FeedAnchor, Stream!Next, Stream!NewFlow, Stream!NoDelivery
    <2>3. ASSUME NEW p \in Packets, NEW path \in Paths, FeedAccept(p, path)
          PROVE  FALSE
      BY <2>3 DEF FeedAccept, cursorVars
    <2>4. CASE SkipHole \/ SkipLapped
      BY <2>4 DEF SkipHole, SkipLapped, SkipTo
    <2> QED BY <2>1, <2>2, <2>3, <2>4, OtherUnchanged DEF Next, Feed, DeliverTurn
  <1> QED BY <1>1, <1>2, InvAlways, PTL DEF Spec, PlayoutSpec, Stream!Spec

-----------------------------------------------------------------------------
(* Playout in time.  deliver_due arms the timer for the first packet ahead, *)
(* recv_feed for an earlier one.  A packet more than a ring ahead takes the *)
(* slot of another, which may be the one the timer was for: then the next   *)
(* in line, if it is due earlier, waits for a timer that is too late.       *)

\* No accepted packet takes the slot of a buffered one.
Unlapped ==
  \A p \in Packets, path \in Paths :
    FeedAccept(p, path) => (Filled(Idx(p.seq)) => Buffered(p.seq))

IsHead(k) == k \in BufferedAhead /\ \A j \in BufferedAhead : k <= j

\* Between playout loops the timer is set no later than the first packet is due.
DeadlineKept ==
  ~Delivering => \A k \in BufferedAhead :
    IsHead(k) => playout_deadline <= OutputTime(WrappingAdd(deliver_next, k))

LEMMA ArmedBy ==
  ASSUME TypeOK, NEW d \in Int, ArmPlayout(d)
  PROVE  /\ playout_deadline' <= d
         /\ playout_armed => playout_deadline' <= playout_deadline
  BY DEF ArmPlayout, playVars, TypeOK

\* A packet ahead of the cursor sits in its slot.
LEMMA AheadSlot ==
  ASSUME TypeOK, NEW k \in BufferedAhead
  PROVE  /\ k \in Nat /\ k <= Half - 1 /\ WrappingAdd(deliver_next, k) \in SeqNum
         /\ Idx(WrappingAdd(deliver_next, k)) \in Index
         /\ ring[Idx(WrappingAdd(deliver_next, k))].seq = WrappingAdd(deliver_next, k)
         /\ Filled(Idx(WrappingAdd(deliver_next, k)))
         /\ OutputTime(WrappingAdd(deliver_next, k)) \in Nat
  <1> DEFINE s == WrappingAdd(deliver_next, k)
  <1>1. k \in 0 .. Half - 1 /\ k \in SeqNum /\ deliver_next \in SeqNum
    BY DEF BufferedAhead, SeqNum, SeqSize, TypeOK
  <1>2. s \in SeqNum BY <1>1, WrappingType
  <1>3. ring[Idx(s)].seq = s BY DEF BufferedAhead, Buffered
  <1> HIDE DEF s
  <1>4. Idx(s) \in Index BY <1>2, IdxType
  <1>5. Filled(Idx(s)) BY <1>2, <1>3 DEF Filled, Vacant, SeqNum
  <1>6. OutputTime(s) \in Nat BY <1>4 DEF OutputTime, TypeOK
  <1> QED BY <1>1, <1>2, <1>3, <1>4, <1>5, <1>6 DEF s

LEMMA CursorItself == ASSUME TypeOK PROVE WrappingAdd(deliver_next, 0) = deliver_next
  BY DEF TypeOK, WrappingAdd, SeqNum, SeqSize

\* The sequence k positions ahead of d, and its place.
LEMMA AheadType ==
  ASSUME NEW d \in SeqNum, NEW k \in 0 .. Half - 1
  PROVE  WrappingAdd(d, k) \in SeqNum /\ Idx(WrappingAdd(d, k)) \in Index
         /\ WrappingAdd(d, k) # Vacant
  <1>1. k \in SeqNum BY DEF SeqNum, SeqSize
  <1>2. WrappingAdd(d, k) \in SeqNum BY <1>1, WrappingType
  <1> QED BY <1>2, IdxType DEF SeqNum, Vacant

\* The flow anchors on a single packet, and the timer is set for it.
LEMMA AnchorDeadline ==
  ASSUME TypeOK, NEW p \in Packets, NEW path \in Paths, FeedAnchor(p, path)
  PROVE  DeadlineKept'
  <1> SUFFICES ASSUME NEW k \in BufferedAhead'
               PROVE  playout_deadline' <= OutputTime(WrappingAdd(deliver_next, k))'
    BY DEF DeadlineKept
  <1> DEFINE s == WrappingAdd(deliver_next', k)
  <1>1. deliver_next' = p.seq /\ p.seq \in SeqNum BY PacketType DEF FeedAnchor
  <1>2. k \in 0 .. Half - 1 /\ ring'[Idx(s)].seq = s
    BY DEF BufferedAhead, Buffered
  <1>3. Idx(s) \in Index /\ s # Vacant BY <1>1, <1>2, AheadType
  <1>4. ring'[Idx(s)] = IF Idx(s) = Idx(p.seq) THEN Slot(p, now) ELSE NoSlot
    BY <1>3 DEF FeedAnchor, AnchoredRing
  <1>5. ring'[Idx(s)] = Slot(p, now)
    BY <1>2, <1>3, <1>4 DEF NoSlot
  <1>6. ring'[Idx(s)].output_time = now + recovery_buffer BY <1>5 DEF Slot
  <1>7. playout_deadline' = now + recovery_buffer BY DEF FeedAnchor
  <1>8. now + recovery_buffer \in Nat BY DEF TypeOK
  <1>9. OutputTime(WrappingAdd(deliver_next, k))' = ring'[Idx(s)].output_time
    BY DEF OutputTime
  <1> QED BY <1>6, <1>7, <1>8, <1>9

\* An accepted packet is the first one itself, and asks for its own time, or
\* leaves the first one where it was.
LEMMA AcceptDeadline ==
  ASSUME TypeOK, PlayoutShadow, DeadlineKept, Unlapped,
         NEW p \in Packets, NEW path \in Paths, FeedAccept(p, path)
  PROVE  DeadlineKept'
  <1> SUFFICES ASSUME NEW k \in BufferedAhead', \A j \in BufferedAhead' : k <= j
               PROVE  playout_deadline' <= OutputTime(WrappingAdd(deliver_next, k))'
    BY DEF DeadlineKept, IsHead
  <1> DEFINE At(j) == WrappingAdd(deliver_next, j)
             s == At(k)
             due == PktTime(p) + recovery_buffer
  <1>0. ~Delivering /\ phase = "idle" BY DEF FeedAccept, CanFeed, Delivering
  <1>1. /\ p.seq \in SeqNum /\ Idx(p.seq) \in Index /\ deliver_next \in SeqNum
        /\ ring \in [Index -> Slots]
    BY PacketType, IdxType DEF TypeOK, Slots
  <1>2. /\ deliver_next' = deliver_next
        /\ ring' = [ring EXCEPT ![Idx(p.seq)] = Slot(p, PktTime(p))]
        /\ ArmPlayout(due)
    BY DEF FeedAccept, cursorVars
  <1>3. due \in Int
    BY BaselineType DEF TypeOK
  <1>4. k \in 0 .. Half - 1 /\ ring'[Idx(s)].seq = s
    BY <1>2 DEF BufferedAhead, Buffered
  <1>5. s \in SeqNum /\ Idx(s) \in Index BY <1>1, <1>4, AheadType
  <1>6. OutputTime(WrappingAdd(deliver_next, k))' = ring'[Idx(s)].output_time
    BY <1>2 DEF OutputTime
  <1>7. ring'[Idx(p.seq)].seq = p.seq /\ ring'[Idx(p.seq)].output_time = due
        /\ \A i \in Index : i # Idx(p.seq) => ring'[i] = ring[i]
    BY <1>1, <1>2 DEF Slot
  <1>8. CASE s = p.seq
    BY <1>2, <1>3, <1>6, <1>7, <1>8, ArmedBy
  <1>9. CASE s # p.seq
    <2>1. Idx(s) # Idx(p.seq) BY <1>4, <1>7, <1>9
    <2>2. ring'[Idx(s)] = ring[Idx(s)] BY <1>5, <1>7, <2>1
    <2>3. k \in BufferedAhead BY <1>4, <2>2 DEF BufferedAhead, Buffered
    <2>4. ASSUME NEW j \in BufferedAhead PROVE j \in BufferedAhead'
      <3>1. /\ Idx(At(j)) \in Index /\ Filled(Idx(At(j))) /\ ring[Idx(At(j))].seq = At(j)
            /\ At(j) \in SeqNum
        BY AheadSlot
      <3>2. Idx(At(j)) = Idx(p.seq) => At(j) = p.seq
        BY <3>1 DEF Unlapped, Buffered
      <3>3. ring'[Idx(At(j))].seq = At(j) BY <1>7, <3>1, <3>2
      <3> QED BY <1>2, <3>3 DEF BufferedAhead, Buffered
    <2>5. IsHead(k) BY <2>3, <2>4 DEF IsHead
    <2>6. playout_deadline <= OutputTime(s) BY <1>0, <2>3, <2>5 DEF DeadlineKept
    <2>7. OutputTime(s) = ring'[Idx(s)].output_time BY <2>2 DEF OutputTime
    <2>8. playout_armed BY <1>0, <2>3, AheadSlot DEF PlayoutShadow
    <2>9. playout_deadline' <= playout_deadline BY <1>2, <1>3, <2>8, ArmedBy
    <2>10. playout_deadline' \in Int /\ playout_deadline \in Int /\ OutputTime(s) \in Int
      <3>1. playout_deadline' \in {playout_deadline, due}
        BY <1>2 DEF ArmPlayout, playVars
      <3>2. playout_deadline \in Int BY DEF TypeOK
      <3>3. OutputTime(s) \in Int BY <2>3, AheadSlot
      <3> QED BY ONLY <1>3, <3>1, <3>2, <3>3
    <2> QED BY <1>6, <2>6, <2>7, <2>9, <2>10
  <1> QED BY <1>8, <1>9

\* deliver_due leaves its loop with the timer set for the first packet, or over
\* an empty ring.
LEMMA EndDeadline ==
  ASSUME TypeOK, Window, EndDeliver PROVE DeadlineKept'
  <1>1. UNCHANGED <<ring, deliver_next>> BY DEF EndDeliver, cursorVars
  <1> SUFFICES ASSUME NEW k \in BufferedAhead, \A j \in BufferedAhead : k <= j
               PROVE  playout_deadline' <= OutputTime(WrappingAdd(deliver_next, k))
    BY <1>1 DEF DeadlineKept, IsHead, BufferedAhead, Buffered, OutputTime
  <1> DEFINE i == Idx(WrappingAdd(deliver_next, k))
  <1>2. /\ k \in Nat /\ i \in Index /\ Filled(i) /\ OutputTime(WrappingAdd(deliver_next, k)) \in Nat
        /\ Buffered(WrappingAdd(deliver_next, k))
    BY AheadSlot DEF Buffered
  <1>3. Dist \in 0 .. Half - 1 BY <1>2, WindowSlot
  <1>4. CASE Buffered(deliver_next) /\ ArmPlayout(OutputTime(deliver_next))
    <2>1. 0 \in BufferedAhead BY <1>4, CursorItself DEF BufferedAhead
    <2>2. k = 0 BY <1>2, <2>1
    <2> QED BY <1>2, <1>4, <2>2, CursorItself, ArmedBy
  <1>5. CASE /\ ~Buffered(deliver_next) /\ Ahead # {}
             /\ ArmPlayout(OutputTime(WrappingAdd(deliver_next, FirstAhead)))
    <2>1. /\ FirstAhead \in Ahead /\ FirstAhead \in 1 .. RingSize /\ FirstAhead <= Dist
          /\ \A j \in Ahead : FirstAhead <= j
      BY <1>5, FirstAheadType
    <2>2. FirstAhead \in BufferedAhead BY <1>3, <2>1 DEF BufferedAhead, Ahead
    <2>3. k <= FirstAhead BY <2>2
    <2>4. k # 0 BY <1>2, <1>5, CursorItself
    <2>5. k \in 1 .. MinOf(Dist, RingSize) BY <1>2, <1>3, <2>1, <2>3, <2>4 DEF MinOf
    <2>6. k \in Ahead BY <1>2, <2>5 DEF Ahead
    <2>7. k = FirstAhead BY <1>2, <2>1, <2>3, <2>6
    <2> QED BY <1>2, <1>5, <2>7, ArmedBy
  <1>6. CASE ~Buffered(deliver_next) /\ Ahead = {} /\ Dist <= RingSize
    BY <1>2, <1>6, DisarmedEmpty
  <1> QED BY <1>4, <1>5, <1>6 DEF EndDeliver

LEMMA DeadlineStep ==
  ASSUME IInv, DeadlineKept, [Next]_vars, [Unlapped]_vars PROVE DeadlineKept'
  <1>0. TypeOK /\ Window /\ PlayoutShadow BY DEF IInv, Window
  <1>1. ASSUME NEW p \in Packets, NEW path \in Paths, FeedAnchor(p, path) PROVE DeadlineKept'
    BY <1>0, <1>1, AnchorDeadline
  <1>2. ASSUME NEW p \in Packets, NEW path \in Paths, FeedAccept(p, path) PROVE DeadlineKept'
    <2>1. CASE Unlapped BY <1>0, <1>2, <2>1, AcceptDeadline
    <2>2. CASE UNCHANGED vars
      BY <2>2 DEF vars, cursorVars, playVars, DeadlineKept, IsHead, BufferedAhead, Buffered,
                  OutputTime, Delivering
    <2> QED BY <2>1, <2>2
  <1>3. CASE EndDeliver BY <1>0, <1>3, EndDeadline
  <1>4. CASE EmitDeliver \/ SkipHole \/ SkipLapped \/ PlayoutTimer \/ FlowTick
    <2>1. Delivering'
      BY <1>4 DEF EmitDeliver, SkipHole, SkipLapped, SkipTo, PlayoutTimer, FlowTick, Delivering
    <2> QED BY <2>1 DEF DeadlineKept
  <1>5. ASSUME UNCHANGED <<ring, deliver_next, playout_deadline>>, Delivering => Delivering'
        PROVE  DeadlineKept'
    BY <1>5 DEF DeadlineKept, IsHead, BufferedAhead, Buffered, OutputTime
  <1>6. CASE \/ \E p \in Packets : FeedDiscard(p)
             \/ NackTurn \/ NackTimer \/ EchoTimer
             \/ \E s \in RttSamples : EchoResponse(s)
             \/ \E b \in SenderMaxBuffers : SetSenderMaxBuffer(b)
             \/ \E m \in RttMultipliers : SetRttMultiplier(m)
             \/ Advance \/ Stopped \/ UNCHANGED vars
    <2>1. UNCHANGED <<ring, deliver_next>> BY <1>6, OtherUnchanged
    <2>2. playout_deadline' = playout_deadline
      BY <1>6 DEF FeedDiscard, NackTurn, NackDrop, NackKeep, NackEnd, NackTimer, EchoTimer,
         EchoResponse, SetSenderMaxBuffer, SetRttMultiplier, Advance, Stopped, vars, playVars
    <2>3. Delivering => Delivering'
      BY <1>6 DEF FeedDiscard, CanFeed, NackTurn, NackDrop, NackKeep, NackEnd, Walking, NackTimer,
         EchoTimer, Fires, EchoResponse, SetSenderMaxBuffer, SetRttMultiplier, Advance, Stopped,
         vars, Delivering
    <2> QED BY <1>5, <2>1, <2>2, <2>3
  <1> QED BY <1>1, <1>2, <1>3, <1>4, <1>6 DEF Next, Feed, DeliverTurn

\* Only Advance moves the clock, and not past the timer.
LEMMA PunctualStep ==
  ASSUME IInv, DeadlineKept, [Next]_vars, now' > now, BufferedAhead # {}
  PROVE  now < HeadTime + MaxLate
  <1>0. TypeOK /\ PlayoutShadow BY DEF IInv
  <1>1. now \in Nat BY <1>0 DEF TypeOK
  <1>2. Advance
    <2>1. now' # now BY <1>1
    <2> QED BY <2>1 DEF Next, Feed, FeedDiscard, FeedAnchor, FeedAccept, DeliverTurn, EmitDeliver,
         SkipHole, SkipLapped, SkipTo, EndDeliver, NackTurn, NackDrop, NackKeep, NackEnd,
         PlayoutTimer, NackTimer, EchoTimer, FlowTick, EchoResponse, SetSenderMaxBuffer,
         SetRttMultiplier, Stopped, vars
  <1> DEFINE k == CHOOSE k \in BufferedAhead : \A j \in BufferedAhead : k <= j
  <1>3. IsHead(k)
    <2>1. BufferedAhead \subseteq Nat BY DEF BufferedAhead
    <2>2. \E x \in BufferedAhead : \A j \in BufferedAhead : x <= j BY <2>1, LeastExists
    <2> QED BY <2>2 DEF IsHead
  <1>4. HeadTime = OutputTime(WrappingAdd(deliver_next, k)) BY DEF HeadTime
  <1> HIDE DEF k
  <1>5. k \in BufferedAhead BY <1>3 DEF IsHead
  <1>6. ~Delivering BY <1>2 DEF Advance, Delivering
  <1>7. playout_deadline <= HeadTime BY <1>3, <1>4, <1>5, <1>6 DEF DeadlineKept
  <1>8. playout_armed /\ HeadTime \in Nat
    BY <1>0, <1>4, <1>5, <1>6, AheadSlot DEF PlayoutShadow
  <1>9. wheel["Playout"] = playout_deadline /\ playout_deadline \in Nat
    BY <1>0, <1>8 DEF PlayoutShadow, TypeOK
  <1>10. now < playout_deadline + MaxLate
    BY <1>2, <1>9 DEF Advance, TimerId, Off
  <1> QED BY <1>1, <1>7, <1>8, <1>9, <1>10

\* No packet is kept past its time, as long as none takes the slot of another
\* one: between calls the timer that deliver_due and recv_feed leave behind is
\* due no later than the first buffered packet, whatever is re-ordered, resized
\* or reset.
THEOREM PlayoutPunctual == Spec /\ [][Unlapped]_vars => PlayoutOnTime
  <1>1. Init => DeadlineKept
    <2> SUFFICES ASSUME Init PROVE BufferedAhead = {}
      BY DEF DeadlineKept
    <2>1. TypeOK BY InitType
    <2>2. \A i \in Index : ~Filled(i) BY DEF Init, Filled, NoSlot
    <2> QED BY <2>1, <2>2, AheadSlot
  <1>2. IInv /\ DeadlineKept /\ [Next]_vars /\ [Unlapped]_vars => DeadlineKept'
    BY DeadlineStep
  <1>3. IInv /\ DeadlineKept /\ [Next]_vars
          => [now' > now /\ BufferedAhead # {} => now < HeadTime + MaxLate]_vars
    BY PunctualStep
  <1> QED BY <1>1, <1>2, <1>3, InvAlways, PTL DEF Spec, PlayoutOnTime

-----------------------------------------------------------------------------
(* Holes.  A sequence is either buffered, or queued for recovery, or given up, *)
(* as long as the slots of the sequences in play are distinct, the walk over a *)
(* gap runs to its end and the cursor stays within half the sequence space of  *)
(* last_found.                                                                 *)

\* The walk of mark_missing over the gap that p opens is not cut short.
WalkedWhole(p) ==
  LET gap == WrappingSub(p.seq, last_found)
  IN Advances(p) /\ Distance(deliver_next, last_found) < RawGap(deliver_next, p.seq)
       => MarkCount(gap, Framing(p)) >= gap - 1

\* Packets are accepted less than a ring ahead of the cursor and the gaps they
\* open are marked whole; the cursor, once it has passed last_found, never runs
\* so far ahead that last_found reads as being ahead of it again.
InReach ==
  /\ \A p \in Packets, path \in Paths :
       FeedAccept(p, path) => RawGap(deliver_next, p.seq) < RingSize /\ WalkedWhole(p)
  /\ Delivering /\ Distance(deliver_next, last_found) < 0
       => Distance(deliver_next, last_found)' < 0

\* What is buffered lies less than a ring ahead of the cursor; so does the newest
\* in-order packet, which is still buffered as long as it is ahead.
WithinRing == \A i \in Index : Filled(i) => RawGap(deliver_next, ring[i].seq) < RingSize
AnchorBuffered ==
  started => /\ Distance(deliver_next, last_found) < RingSize
             /\ Distance(deliver_next, last_found) >= 0 => Buffered(last_found)
HInv == WithinRing /\ AnchorBuffered /\ HolesTracked

\* A number is made of its quotient and its remainder.
LEMMA DivMod ==
  ASSUME NEW a \in Nat, NEW m \in Nat \ {0}
  PROVE  \E q \in Nat : a = m * q + (a % m)
  <1> DEFINE q == a \div m
             r == a % m
  <1>1. q \in Nat /\ r \in 0 .. m - 1 BY DivNat, ModRange
  <1>2. q = a \div m /\ r = a % m OBVIOUS
  <1> HIDE DEF q, r
  <1>3. a = m * q + r BY <1>1, <1>2
  <1> QED BY <1>1, <1>2, <1>3

LEMMA ModOf ==
  ASSUME NEW a \in Nat, NEW m \in Nat \ {0}, NEW q \in Int, NEW r \in 0 .. m - 1, a = m * q + r
  PROVE  a % m = r
  OBVIOUS

\* Two numbers less than m apart have different remainders.
LEMMA NearMod ==
  ASSUME NEW a \in Nat, NEW b \in Nat, NEW m \in Nat \ {0}, a % m = b % m,
         a <= b, b - a < m
  PROVE  a = b
  <1>1. PICK q \in Nat : a = m * q + (a % m) BY DivMod
  <1>2. PICK p \in Nat : b = m * p + (b % m) BY DivMod
  <1> DEFINE r == a % m
             n == p - q
  <1>3. r \in 0 .. m - 1 BY ModRange
  <1>4. n \in Int /\ p = q + n OBVIOUS
  <1>5. a = m * q + r /\ b = m * p + r BY <1>1, <1>2
  <1> HIDE DEF r, n
  <1>6. m * p = m * q + m * n BY <1>4
  <1>7. m * n \in Int /\ m * q \in Int BY <1>4
  <1>8. b - a = m * n BY <1>3, <1>5, <1>6, <1>7
  <1>9. m * n >= 0 /\ m * n < m BY <1>7, <1>8
  <1>10. n = 0
    <2>1. n >= 1 => m * n >= m BY <1>4
    <2>2. n <= -1 => m * n <= -m BY <1>4
    <2> QED BY <1>4, <1>7, <1>9, <2>1, <2>2
  <1>11. m * n = 0 BY <1>10
  <1> QED BY <1>8, <1>11

\* Going once round the sequence space does not change the slot.
LEMMA WrapSlot ==
  ASSUME NEW a \in SeqNum, NEW k \in 0 .. Half - 1
  PROVE  a + k \in Nat /\ Idx(WrappingAdd(a, k)) = (a + k) % RingSize
  <1> DEFINE x == a + k
  <1>1. x \in Nat /\ x < 2 * SeqSize /\ SeqSize \in Nat \ {0} /\ RingSize \in Nat \ {0}
    BY DEF SeqNum, SeqSize
  <1>2. CASE x < SeqSize BY <1>1, <1>2 DEF WrappingAdd, Idx
  <1>3. CASE x >= SeqSize
    <2>1. WrappingAdd(a, k) = x - SeqSize BY <1>1, <1>3 DEF WrappingAdd, SeqNum
    <2>2. PICK u \in Nat : SeqSize = RingSize * u + (SeqSize % RingSize) BY <1>1, DivMod
    <2>3. SeqSize = RingSize * u BY <2>2, RingAssumption
    <2> DEFINE y == x - SeqSize
    <2>4. y \in Nat /\ x = y + SeqSize BY <1>1, <1>3
    <2> HIDE DEF x, y
    <2>5. PICK q \in Nat : y = RingSize * q + (y % RingSize) BY <1>1, <2>4, DivMod
    <2>6. y % RingSize \in 0 .. RingSize - 1 BY <1>1, <2>4, ModRange
    <2>7. RingSize * (q + u) = RingSize * q + RingSize * u OBVIOUS
    <2>8. x = RingSize * (q + u) + (y % RingSize) BY <2>3, <2>4, <2>5, <2>7
    <2>9. x % RingSize = y % RingSize
      <3>1. RingSize \in Nat \ {0} /\ x \in Nat /\ q + u \in Int BY <1>1, <2>4
      <3> QED BY ONLY <2>6, <2>8, <3>1, ModOf
    <2> QED BY <1>1, <2>1, <2>9 DEF Idx, x, y
  <1> QED BY <1>1, <1>2, <1>3

\* Positions less than a ring apart have slots of their own.
LEMMA SlotsApart ==
  ASSUME NEW d \in SeqNum, NEW j \in 0 .. RingSize - 1, NEW k \in 0 .. RingSize - 1,
         Idx(WrappingAdd(d, j)) = Idx(WrappingAdd(d, k))
  PROVE  j = k
  <1>1. j \in 0 .. Half - 1 /\ k \in 0 .. Half - 1 OBVIOUS
  <1>2. /\ d + j \in Nat /\ d + k \in Nat
        /\ (d + j) % RingSize = (d + k) % RingSize
    BY <1>1, WrapSlot
  <1>3. d \in Nat /\ RingSize \in Nat \ {0} BY DEF SeqNum
  <1> DEFINE a == d + j
             b == d + k
  <1>4. a \in Nat /\ b \in Nat /\ a % RingSize = b % RingSize BY <1>2
  <1>5. (a <= b => b - a < RingSize) /\ (b <= a => a - b < RingSize) BY <1>3
  <1>6. a = b => j = k BY <1>3
  <1> HIDE DEF a, b
  <1>7. a = b
    <2>1. a <= b \/ b <= a BY <1>4
    <2> QED BY ONLY <1>3, <1>4, <1>5, <2>1, NearMod
  <1> QED BY <1>6, <1>7

\* So two sequences less than a ring ahead of d that share a slot are one.
LEMMA SameSlot ==
  ASSUME NEW d \in SeqNum, NEW s \in SeqNum, NEW t \in SeqNum,
         RawGap(d, s) < RingSize, RawGap(d, t) < RingSize, Idx(s) = Idx(t)
  PROVE  s = t
  <1>1. RawGap(d, s) \in 0 .. RingSize - 1 /\ RawGap(d, t) \in 0 .. RingSize - 1
    <2>1. RawGap(d, s) \in Nat /\ RawGap(d, t) \in Nat BY WrappingType DEF SeqNum
    <2> QED BY <2>1
  <1>2. WrappingAdd(d, RawGap(d, s)) = s /\ WrappingAdd(d, RawGap(d, t)) = t BY AddRawGap
  <1> QED BY <1>1, <1>2, SlotsApart

\* A position less than half the space ahead is at that gap.
LEMMA GapOf ==
  ASSUME NEW d \in SeqNum, NEW k \in 0 .. Half - 1
  PROVE  WrappingAdd(d, k) \in SeqNum /\ RawGap(d, WrappingAdd(d, k)) = k
  BY DEF WrappingAdd, RawGap, WrappingSub, SeqNum, SeqSize

LEMMA AddTwice ==
  ASSUME NEW d \in SeqNum, NEW j \in Nat, NEW k \in Nat, j + k <= Half - 1
  PROVE  WrappingAdd(WrappingAdd(d, j), k) = WrappingAdd(d, j + k)
  BY DEF WrappingAdd, SeqNum, SeqSize

\* The position j ahead of the cursor d, counted from a sequence l before it.
LEMMA CountedFrom ==
  ASSUME NEW d \in SeqNum, NEW l \in SeqNum, NEW j \in 0 .. Half - 1,
         Distance(d, l) < j, Distance(d, l) < Half
  PROVE  /\ j - Distance(d, l) \in 1 .. SeqSize - 1
         /\ WrappingAdd(l, j - Distance(d, l)) = WrappingAdd(d, j)
         /\ WrappingSub(WrappingAdd(d, j), l) = j - Distance(d, l)
  BY DEF Distance, WrappingAdd, RawGap, WrappingSub, SeqNum, SeqSize

\* Less than a ring ahead of the cursor, only the sequence itself can be in its
\* slot.
LEMMA SlotOwn ==
  ASSUME TypeOK, Window, WithinRing, NEW s \in SeqNum,
         RawGap(deliver_next, s) < RingSize, Filled(Idx(s))
  PROVE  Buffered(s)
  <1> DEFINE i == Idx(s)
  <1>1. i \in Index BY IdxType
  <1>2. ring[i].seq \in SeqNum /\ Idx(ring[i].seq) = i BY <1>1, WindowSlot
  <1>3. RawGap(deliver_next, ring[i].seq) < RingSize BY <1>1 DEF WithinRing
  <1>4. deliver_next \in SeqNum BY DEF TypeOK
  <1>5. ring[i].seq = s BY <1>2, <1>3, <1>4, SameSlot
  <1> QED BY <1>5 DEF Buffered

\* A hole is a position less than a ring ahead of the cursor.
LEMMA HolePlace ==
  ASSUME TypeOK, started, AnchorBuffered, NEW s \in Holes
  PROVE  /\ s \in SeqNum /\ RawGap(deliver_next, s) \in 0 .. RingSize - 1
         /\ RawGap(deliver_next, s) <= Distance(deliver_next, last_found)
         /\ ~Buffered(s) /\ s # last_found
  <1>1. deliver_next \in SeqNum /\ last_found \in SeqNum BY DEF TypeOK
  <1>2. Distance(deliver_next, last_found) \in Int /\ Distance(deliver_next, last_found) < RingSize
    BY <1>1, DistanceType DEF AnchorBuffered
  <1>3. PICK k \in 0 .. Distance(deliver_next, last_found) : s = WrappingAdd(deliver_next, k)
    BY DEF Holes
  <1>4. k \in 0 .. Half - 1 /\ k \in 0 .. RingSize - 1 BY <1>2, <1>3
  <1>5. s \in SeqNum /\ RawGap(deliver_next, s) = k BY <1>1, <1>3, <1>4, GapOf
  <1>6. ~Buffered(s) /\ s # last_found BY DEF Holes
  <1> QED BY <1>3, <1>4, <1>5, <1>6

\* The flow anchors on its first packet: no hole yet.
LEMMA AnchorHoles ==
  ASSUME TypeOK, NEW p \in Packets, NEW path \in Paths, FeedAnchor(p, path)
  PROVE  HInv'
  <1>1. p.seq \in SeqNum /\ Idx(p.seq) \in Index BY PacketType, IdxType
  <1>2. deliver_next' = p.seq /\ last_found' = p.seq BY DEF FeedAnchor
  <1>3. Distance(p.seq, p.seq) = 0 /\ RawGap(p.seq, p.seq) = 0 /\ WrappingAdd(p.seq, 0) = p.seq
    BY <1>1 DEF Distance, RawGap, WrappingSub, WrappingAdd, SeqNum, SeqSize
  <1>4. ASSUME NEW i \in Index PROVE ring'[i] = IF i = Idx(p.seq) THEN Slot(p, now) ELSE NoSlot
    BY DEF FeedAnchor, AnchoredRing
  <1>5. WithinRing'
    <2>1. ASSUME NEW i \in Index, Filled(i)' PROVE ring'[i].seq = p.seq
      BY <1>4, <2>1 DEF Filled, NoSlot, Slot
    <2> QED BY <1>2, <1>3, <2>1 DEF WithinRing
  <1>6. Buffered(p.seq)' BY <1>1, <1>4 DEF Buffered, Slot
  <1>7. AnchorBuffered' BY <1>2, <1>3, <1>6 DEF AnchorBuffered
  <1>8. Holes' = {}
    <2>1. Holes' = {s \in {WrappingAdd(p.seq, k) : k \in 0 .. 0} : ~Buffered(s)' /\ s # p.seq}
      BY <1>2, <1>3 DEF Holes
    <2>2. \A k \in 0 .. 0 : k = 0 OBVIOUS
    <2> QED BY <1>3, <2>1, <2>2
  <1> QED BY <1>5, <1>7, <1>8 DEF HInv, HolesTracked

\* The steps that leave the ring, the cursors and the set of queued sequences.
LEMMA HolesUnchanged ==
  ASSUME HInv, UNCHANGED <<ring, started, deliver_next, last_found>>,
         started => Holes \cap (Queued \cup given_up) \subseteq Queued' \cup given_up'
  PROVE  HInv'
  <1>1. Holes' = Holes BY DEF Holes, Buffered
  <1>2. WithinRing' BY DEF HInv, WithinRing, Filled
  <1>3. AnchorBuffered' BY DEF HInv, AnchorBuffered, Buffered
  <1> QED BY <1>1, <1>2, <1>3 DEF HInv, HolesTracked

\* The cursor moves on by k, over slots it empties: to last_found at the
\* furthest, or one position past it.
CursorMoves(k) ==
  /\ deliver_next' = WrappingAdd(deliver_next, k)
  /\ \A i \in Index : ring'[i] = IF \E j \in 0 .. k - 1 : i = Idx(WrappingAdd(deliver_next, j))
                                 THEN NoSlot ELSE ring[i]
  /\ UNCHANGED <<started, last_found, missing, scan, given_up>>

\* Beyond the positions passed, what is buffered does not change,
LEMMA MovedBuffered ==
  ASSUME TypeOK, NEW k \in 1 .. RingSize, CursorMoves(k), NEW s \in SeqNum,
         RawGap(deliver_next, s) \in k .. RingSize - 1
  PROVE  Buffered(s)' <=> Buffered(s)
  <1>1. deliver_next \in SeqNum /\ Idx(s) \in Index BY IdxType DEF TypeOK
  <1>2. ASSUME NEW j \in 0 .. k - 1, Idx(s) = Idx(WrappingAdd(deliver_next, j)) PROVE FALSE
    <2> DEFINE g == RawGap(deliver_next, s)
    <2>1. WrappingAdd(deliver_next, g) = s BY <1>1, AddRawGap
    <2>2. g \in 0 .. RingSize - 1 /\ j \in 0 .. RingSize - 1 /\ g # j OBVIOUS
    <2> HIDE DEF g
    <2> QED BY <1>1, <1>2, <2>1, <2>2, SlotsApart
  <1>3. ring'[Idx(s)] = ring[Idx(s)] BY <1>1, <1>2 DEF CursorMoves
  <1> QED BY <1>3 DEF Buffered

\* what is left in the ring is nearer to the cursor,
LEMMA MovedWithin ==
  ASSUME TypeOK, Window, WithinRing, NEW k \in 1 .. RingSize, CursorMoves(k)
  PROVE  WithinRing'
  <1> SUFFICES ASSUME NEW i \in Index, Filled(i)'
               PROVE  RawGap(deliver_next', ring'[i].seq) < RingSize
    BY DEF WithinRing
  <1>1. ~ \E j \in 0 .. k - 1 : i = Idx(WrappingAdd(deliver_next, j))
    BY DEF CursorMoves, Filled, NoSlot
  <1>2. ring'[i] = ring[i] BY <1>1 DEF CursorMoves
  <1>3. Filled(i) BY <1>2 DEF Filled
  <1> DEFINE t == ring[i].seq
             g == RawGap(deliver_next, t)
  <1>4. t \in SeqNum /\ Idx(t) = i /\ deliver_next \in SeqNum /\ g \in Nat
    BY <1>3, WindowSlot DEF TypeOK
  <1>5. g < RingSize BY <1>3 DEF WithinRing
  <1>6. k \in SeqNum /\ k \in 1 .. Half BY DEF SeqNum, SeqSize
  <1>7. g >= k
    <2> SUFFICES ASSUME g < k PROVE FALSE BY <1>4, <1>6
    <2>1. PICK j \in 0 .. k - 1 : t = WrappingAdd(deliver_next, j) BY <1>4, <1>6, GapWitness
    <2> QED BY <1>1, <1>4, <2>1
  <1>8. RawGap(WrappingAdd(deliver_next, k), t) = g - k BY <1>4, <1>6, <1>7, GapAfterAdvance
  <1> QED BY <1>2, <1>4, <1>5, <1>6, <1>8 DEF CursorMoves

\* and the holes left are among those there were.
LEMMA MovedHoles ==
  ASSUME TypeOK, Window, HInv, started, NEW k \in 1 .. RingSize, CursorMoves(k),
         \/ Distance(deliver_next, last_found) < 0 /\ Distance(deliver_next, last_found)' < 0
         \/ k = 1 /\ Distance(deliver_next, last_found) = 0
         \/ k <= Distance(deliver_next, last_found)
  PROVE  HInv'
  <1> DEFINE D == Distance(deliver_next, last_found)
             E == Distance(WrappingAdd(deliver_next, k), last_found)
  <1>1. /\ deliver_next \in SeqNum /\ last_found \in SeqNum /\ k \in SeqNum /\ k \in 1 .. Half
        /\ WrappingAdd(deliver_next, k) \in SeqNum
    <2>1. k \in SeqNum /\ k \in 1 .. Half BY DEF SeqNum, SeqSize
    <2>2. deliver_next \in SeqNum /\ last_found \in SeqNum BY DEF TypeOK
    <2> QED BY <2>1, <2>2, WrappingType
  <1>2. D \in Int /\ D < RingSize /\ E \in Int
    <2>1. D \in Int /\ E \in Int
      <3>1. D \in -(Half - 1) .. Half BY <1>1, DistanceType
      <3>2. E \in -(Half - 1) .. Half BY <1>1, DistanceType
      <3> QED BY <3>1, <3>2
    <2>2. D < RingSize BY DEF HInv, AnchorBuffered
    <2> QED BY <2>1, <2>2
  <1>3. WithinRing' BY MovedWithin DEF HInv
  <1>4. Distance(deliver_next, last_found)' = E BY DEF CursorMoves
  <1>5. D >= 0 /\ k <= D + 1 => E = D - k
    <2>1. Half > 1 OBVIOUS
    <2> QED BY <1>1, <1>2, <2>1, DistanceAfterAdvance
  <1>6. CASE E < 0
    <2>1. (AnchorBuffered /\ HolesTracked)'
      <3>1. (Distance(deliver_next, last_found) \in Int /\ Distance(deliver_next, last_found) < 0)'
        BY <1>2, <1>4, <1>6
      <3>2. (0 .. Distance(deliver_next, last_found))' = {} BY <3>1
      <3>3. Holes' = {} BY <3>2 DEF Holes
      <3> QED BY <3>1, <3>3 DEF AnchorBuffered, HolesTracked
    <2> QED BY <1>3, <2>1 DEF HInv
  <1>7. CASE k <= D
    <2>1. E = D - k BY <1>1, <1>2, <1>5, <1>7
    <2>2. RawGap(deliver_next, last_found) = D BY <1>1, <1>2, <1>7, GapDistance
    <2>3. Buffered(last_found) BY <1>1, <1>2, <1>7 DEF HInv, AnchorBuffered
    <2>4. Buffered(last_found)'
      <3>1. D \in k .. RingSize - 1 BY <1>1, <1>2, <1>7
      <3>2. last_found' = last_found BY DEF CursorMoves
      <3>3. ring'[Idx(last_found)].seq = last_found
        BY <1>1, <2>2, <2>3, <3>1, MovedBuffered DEF Buffered
      <3> QED BY <3>2, <3>3 DEF Buffered
    <2>5. AnchorBuffered' BY <1>1, <1>2, <1>4, <2>1, <2>4 DEF AnchorBuffered
    <2>6. ASSUME NEW s \in Holes' PROVE s \in Holes
      <3>1. PICK j \in 0 .. E : s = WrappingAdd(WrappingAdd(deliver_next, k), j)
        BY <1>4, <2>6 DEF Holes, CursorMoves
      <3>2. j \in Nat /\ k \in Nat /\ k + j \in 0 .. D /\ k + j \in 0 .. Half - 1
            /\ k + j \in k .. RingSize - 1
        BY <1>1, <1>2, <2>1, <3>1
      <3>3. s = WrappingAdd(deliver_next, k + j) BY <1>1, <3>1, <3>2, AddTwice
      <3>4. s \in SeqNum /\ RawGap(deliver_next, s) = k + j BY <1>1, <3>2, <3>3, GapOf
      <3>5. ~Buffered(s)' /\ s # last_found BY <2>6 DEF Holes, Buffered, CursorMoves
      <3>6. ~Buffered(s) BY <3>2, <3>4, <3>5, MovedBuffered
      <3> QED BY <3>2, <3>3, <3>5, <3>6 DEF Holes
    <2>7. Queued' = Queued /\ given_up' = given_up BY DEF Queued, CursorMoves
    <2>8. HolesTracked' BY <2>6, <2>7 DEF HInv, HolesTracked
    <2> QED BY <1>3, <2>5, <2>8 DEF HInv
  <1>8. E < 0 \/ k <= D BY <1>1, <1>2, <1>4, <1>5
  <1> QED BY <1>6, <1>7, <1>8

\* One delivery, or one skip, takes no hole ahead of the cursor out of sight.
LEMMA DeliverHoles ==
  ASSUME TypeOK, Window, HInv, started, InReach, EmitDeliver \/ SkipHole \/ SkipLapped
  PROVE  HInv'
  <1> DEFINE D == Distance(deliver_next, last_found)
  <1>1. deliver_next \in SeqNum /\ last_found \in SeqNum /\ ring \in [Index -> Slots]
    BY DEF TypeOK, Slots
  <1>2. D \in Int /\ D < RingSize BY <1>1, DistanceType DEF HInv, AnchorBuffered
  <1>3. D < 0 => Distance(deliver_next, last_found)' < 0
    BY DEF InReach, EmitDeliver, SkipHole, SkipLapped
  <1>4. D >= 0 => Buffered(last_found) BY DEF HInv, AnchorBuffered
  <1>5. D >= 0 => RawGap(deliver_next, last_found) = D BY <1>1, <1>2, GapDistance
  <1>6. CASE EmitDeliver
    <2>1. CursorMoves(1)
      <3>1. ASSUME NEW i \in Index
            PROVE  ring'[i] = IF \E j \in 0 .. 1 - 1 : i = Idx(WrappingAdd(deliver_next, j))
                              THEN NoSlot ELSE ring[i]
        <4>1. (\E j \in 0 .. 1 - 1 : i = Idx(WrappingAdd(deliver_next, j))) <=> i = Idx(deliver_next)
          <5>1. \A j \in 0 .. 1 - 1 : j = 0 OBVIOUS
          <5>2. 0 \in 0 .. 1 - 1 OBVIOUS
          <5> QED BY <5>1, <5>2, CursorItself
        <4>2. ring' = [ring EXCEPT ![Idx(deliver_next)] = NoSlot] BY <1>6 DEF EmitDeliver
        <4> QED BY <1>1, <4>1, <4>2
      <3> QED BY <1>6, <3>1 DEF CursorMoves, EmitDeliver, feedVars, streamVars, nackVars
    <2>2. 1 \in 1 .. RingSize OBVIOUS
    <2>3. D < 0 \/ D = 0 \/ 1 <= D BY <1>2
    <2> HIDE DEF D
    <2> QED BY <1>3, <2>1, <2>2, <2>3, MovedHoles DEF D
  <1>7. ASSUME NEW k \in 1 .. RingSize, SkipTo(k) PROVE CursorMoves(k)
    BY <1>7 DEF SkipTo, CursorMoves, feedVars, streamVars, nackVars
  <1>8. ASSUME D >= 0, ~Buffered(deliver_next) PROVE D \in Ahead
    <2>1. WrappingAdd(deliver_next, D) = last_found BY <1>1, <1>5, <1>8, AddRawGap
    <2>2. D # 0 BY <1>4, <1>8, <2>1, CursorItself
    <2>3. Filled(Idx(last_found)) /\ Idx(last_found) \in Index
      BY <1>1, <1>4, <1>8, IdxType DEF Buffered, Filled, SeqNum, Vacant
    <2>4. D <= Dist /\ Dist \in Int
      <3>1. ring[Idx(last_found)].seq = last_found BY <1>4, <1>8 DEF Buffered
      <3> QED BY <1>5, <1>8, <2>3, <3>1, WindowSlot
    <2>5. D \in 1 .. MinOf(Dist, RingSize) BY <1>2, <1>8, <2>2, <2>4 DEF MinOf
    <2> QED BY <1>4, <1>8, <2>1, <2>5 DEF Ahead
  <1>9. CASE SkipHole
    <2>1. /\ FirstAhead \in 1 .. RingSize /\ \A j \in Ahead : FirstAhead <= j
          /\ ~Buffered(deliver_next) /\ SkipTo(FirstAhead)
      BY <1>9, FirstAheadType DEF SkipHole
    <2>2. D < 0 \/ FirstAhead <= D BY <1>2, <1>8, <2>1
    <2>3. CursorMoves(FirstAhead) BY <1>7, <2>1
    <2> HIDE DEF D
    <2> QED BY <1>3, <2>1, <2>2, <2>3, MovedHoles DEF D
  <1>10. CASE SkipLapped
    <2>1. RingSize \in 1 .. RingSize /\ SkipTo(RingSize) /\ D < 0
      BY <1>2, <1>8, <1>10 DEF SkipLapped
    <2>2. CursorMoves(RingSize) BY <1>7, <2>1
    <2> QED BY <1>3, <2>1, <2>2, MovedHoles
  <1> QED BY <1>6, <1>9, <1>10

\* The head of a pass moves the queue as it is.
LEMMA BeginsQueued ==
  ASSUME NEW w, scan = <<>>, BeginNacks(w) PROVE Queued' = Queued
  <1>1. CASE missing = <<>> BY <1>1 DEF BeginNacks, Queued
  <1>2. CASE missing # <<>>
    <2>1. scan' = missing /\ missing' = <<>> BY <1>2 DEF BeginNacks
    <2>2. {missing'[i].seq : i \in DOMAIN missing'} = {} /\ {scan[i].seq : i \in DOMAIN scan} = {}
      BY <2>1
    <2> QED BY <2>1, <2>2 DEF Queued
  <1> QED BY <1>1, <1>2

\* What a turn of the pass takes out of the queue, at the most.
LEMMA ScanTail ==
  ASSUME TypeOK, scan # <<>>, scan' = Tail(scan), NEW s \in Queued,
         \A i \in DOMAIN missing : \E j \in DOMAIN missing' : missing'[j].seq = missing[i].seq
  PROVE  s \in Queued' \/ s = Entry.seq
  <1>1. scan \in Seq(Entries) BY DEF TypeOK
  <1>2. CASE \E i \in DOMAIN missing : s = missing[i].seq BY <1>2 DEF Queued
  <1>3. ASSUME NEW i \in DOMAIN scan, s = scan[i].seq PROVE s \in Queued' \/ s = Entry.seq
    <2>1. CASE i = 1 BY <1>1, <1>3, <2>1 DEF Entry
    <2>2. CASE i # 1
      <3>1. i - 1 \in DOMAIN Tail(scan) /\ Tail(scan)[i - 1] = scan[i] BY <1>1, <2>2
      <3> QED BY <1>3, <3>1 DEF Queued
    <2> QED BY <2>1, <2>2
  <1> QED BY <1>2, <1>3 DEF Queued

\* A turn of process_nacks drops an entry only when its sequence is buffered or
\* given up: another packet cannot be in the slot of a hole.
LEMMA NackHoles ==
  ASSUME TypeOK, Window, HInv, NackTurn PROVE HInv'
  <1>1. UNCHANGED <<ring, started, deliver_next, last_found>>
    BY DEF NackTurn, NackDrop, NackKeep, NackEnd, feedVars, streamVars, cursorVars
  <1>2. missing \in Seq(Entries) BY DEF TypeOK
  <1>3. CASE NackDrop
    <2>1. /\ scan # <<>> /\ scan' = Tail(scan) /\ missing' = missing
          /\ given_up' = IF Settled(Entry) THEN given_up ELSE given_up \cup {Entry.seq}
      BY <1>3 DEF NackDrop
    <2>2. ASSUME started, NEW s \in Holes, s \in Queued \cup given_up
          PROVE  s \in Queued' \cup given_up'
      <3>1. CASE s \in given_up BY <2>1, <3>1
      <3>2. CASE s \in Queued
        <4>1. s \in Queued' \/ s = Entry.seq BY <2>1, <3>2, ScanTail
        <4>2. CASE s = Entry.seq
          <5>1. s \in SeqNum /\ RawGap(deliver_next, s) < RingSize /\ ~Buffered(s)
            BY <2>2, HolePlace DEF HInv
          <5>2. ~Filled(Idx(s)) BY <5>1, SlotOwn DEF HInv
          <5> QED BY <2>1, <4>2, <5>2 DEF Settled
        <4> QED BY <4>1, <4>2
      <3> QED BY <2>2, <3>1, <3>2
    <2> QED BY <1>1, <2>2, HolesUnchanged
  <1>4. CASE NackKeep
    <2>1. scan # <<>> /\ scan' = Tail(scan) /\ given_up' = given_up BY <1>4 DEF NackKeep
    <2>2. PICK e : missing' = Append(missing, e) /\ e.seq = Entry.seq
      <3>1. Entry \in Entries BY <2>1, EntryType
      <3>2. Renacked(Entry).seq = Entry.seq BY <3>1 DEF Renacked, Entries
      <3> QED BY <1>4, <3>2 DEF NackKeep
    <2>3. /\ \A i \in DOMAIN missing : i \in DOMAIN missing' /\ missing'[i] = missing[i]
          /\ Len(missing) + 1 \in DOMAIN missing' /\ missing'[Len(missing) + 1] = e
      BY <1>2, <2>2
    <2>4. Entry.seq \in Queued' BY <2>2, <2>3 DEF Queued
    <2>5. ASSUME NEW s \in Queued PROVE s \in Queued'
      <3>1. s \in Queued' \/ s = Entry.seq BY <2>1, <2>3, ScanTail
      <3> QED BY <2>4, <3>1
    <2> QED BY <1>1, <2>1, <2>5, HolesUnchanged
  <1>5. CASE NackEnd
    <2>1. Queued' = Queued /\ given_up' = given_up BY <1>5 DEF NackEnd, Queued
    <2> QED BY <1>1, <2>1, HolesUnchanged
  <1> QED BY <1>3, <1>4, <1>5 DEF NackTurn

\* The walk of mark_missing queues every position between a last_found behind
\* it and the packet.
LEMMA GapMarked ==
  ASSUME TypeOK, NEW p \in Packets, NEW path \in Paths, FeedAccept(p, path), WalkedWhole(p),
         Advances(p), RawGap(deliver_next, p.seq) < Half,
         NEW j \in Nat, Distance(deliver_next, last_found) < j, j < RawGap(deliver_next, p.seq)
  PROVE  WrappingAdd(deliver_next, j) \in Queued'
  <1> DEFINE D == Distance(deliver_next, last_found)
             g == RawGap(deliver_next, p.seq)
             gap == WrappingSub(p.seq, last_found)
             n == MarkCount(gap, Framing(p))
             M == Marked(p, ring', short_seq')
  <1>1. /\ deliver_next \in SeqNum /\ last_found \in SeqNum /\ p.seq \in SeqNum
        /\ missing \in Seq(Entries) /\ Len(missing) \in Nat
    BY PacketType DEF TypeOK
  <1>2. D \in Int /\ g \in Nat /\ j \in 0 .. Half - 1 /\ g \in 0 .. Half - 1 /\ D < Half /\ D < g
    <2>1. D \in -(Half - 1) .. Half BY <1>1, DistanceType
    <2>2. g \in SeqNum BY <1>1, WrappingType
    <2>3. g \in Nat BY <2>2 DEF SeqNum
    <2> QED BY <2>1, <2>3
  <1>3. gap = g - D
    <2>1. WrappingAdd(deliver_next, g) = p.seq BY <1>1, AddRawGap
    <2> HIDE DEF D, g
    <2>2. WrappingSub(WrappingAdd(deliver_next, g), last_found) = g - D
      BY <1>1, <1>2, CountedFrom DEF D
    <2> QED BY <2>1, <2>2
  <1>4. n >= gap - 1 BY <1>2 DEF WalkedWhole
  <1>5. short_seq' = Framing(p) /\ missing' = missing \o M BY DEF FeedAccept
  <1> DEFINE i == j - D
  <1>6. /\ i \in 1 .. gap - 1
        /\ WrappingAdd(last_found, i) = WrappingAdd(deliver_next, j)
    <2>1. i \in 1 .. gap - 1 BY <1>2, <1>3
    <2> QED BY <1>1, <1>2, <2>1, CountedFrom
  <1>7. gap \in Nat /\ n \in Nat
    <2>0. gap \in SeqNum BY <1>1, WrappingType
    <2>1. gap \in Nat BY <2>0 DEF SeqNum
    <2> HIDE DEF gap
    <2> QED BY <1>1, <2>1, SMTT(30) DEF MarkCount, MinOf, MaxOf
  <1>8. i \in 1 .. n
    <2> HIDE DEF n, gap, i
    <2> QED BY <1>4, <1>6, <1>7
  <1>9. M \in Seq(Entries)
    <2>1. TypeOK' BY FeedAcceptType
    <2> QED BY <2>1, MarkedType DEF TypeOK
  <1>10. /\ Len(M) = n
         /\ \E t : M[i] = MissingEntry(WrappingAdd(last_found, i), t)
    <2> HIDE DEF n, i
    <2>1. M = [x \in 1 .. n |-> MissingEntry(WrappingAdd(last_found, x),
               AnchorTime(ring') + x * Interpacket(PktTime(p), ring', gap))]
      BY <1>5 DEF Marked, n
    <2> HIDE DEF M
    <2>2. M[i] = MissingEntry(WrappingAdd(last_found, i),
               AnchorTime(ring') + i * Interpacket(PktTime(p), ring', gap))
      BY <1>8, <2>1
    <2>3. Len(M) = n BY <1>7, <2>1
    <2> QED BY <2>2, <2>3
  <1>11. M[i].seq = WrappingAdd(deliver_next, j) BY <1>6, <1>10 DEF MissingEntry
  <1> HIDE DEF M, n, i
  <1>12. Len(missing) + i \in DOMAIN missing' /\ missing'[Len(missing) + i] = M[i]
    BY <1>1, <1>5, <1>7, <1>8, <1>9, <1>10
  <1> QED BY <1>11, <1>12 DEF Queued

\* An accepted packet leaves every buffered one in its slot, and the holes it
\* adds behind it are queued.
LEMMA AcceptHoles ==
  ASSUME TypeOK, Window, HInv, NEW p \in Packets, NEW path \in Paths, FeedAccept(p, path),
         RawGap(deliver_next, p.seq) < RingSize, WalkedWhole(p)
  PROVE  HInv'
  <1> DEFINE D == Distance(deliver_next, last_found)
             g == RawGap(deliver_next, p.seq)
  <1>1. /\ p.seq \in SeqNum /\ Idx(p.seq) \in Index /\ deliver_next \in SeqNum
        /\ last_found \in SeqNum /\ ring \in [Index -> Slots]
        /\ missing \in Seq(Entries)
    BY PacketType, IdxType DEF TypeOK, Slots
  <1>2. /\ started /\ started' = started /\ deliver_next' = deliver_next
        /\ ring' = [ring EXCEPT ![Idx(p.seq)] = Slot(p, PktTime(p))]
        /\ last_found' = (IF Advances(p) THEN p.seq ELSE last_found)
        /\ missing' = missing \o Marked(p, ring', short_seq')
        /\ scan' = scan /\ given_up' = given_up
    BY DEF FeedAccept, cursorVars
  <1>3. /\ \A i \in Index : i # Idx(p.seq) => ring'[i] = ring[i]
        /\ ring'[Idx(p.seq)].seq = p.seq
    BY <1>1, <1>2 DEF Slot
  <1>4. WithinRing'
    <2> SUFFICES ASSUME NEW i \in Index, Filled(i)'
                 PROVE  RawGap(deliver_next', ring'[i].seq) < RingSize
      BY DEF WithinRing
    <2> QED BY <1>2, <1>3 DEF HInv, WithinRing, Filled
  <1>5. ASSUME NEW s \in SeqNum, Buffered(s) PROVE Buffered(s)'
    <2>1. Idx(s) \in Index /\ ring[Idx(s)].seq = s BY <1>5, IdxType DEF Buffered
    <2>2. CASE Idx(s) # Idx(p.seq) BY <1>3, <2>1, <2>2 DEF Buffered
    <2>3. CASE Idx(s) = Idx(p.seq)
      <3>1. Filled(Idx(s)) BY <2>1 DEF Filled, Vacant, SeqNum
      <3>2. RawGap(deliver_next, s) < RingSize BY <2>1, <3>1 DEF HInv, WithinRing
      <3>3. s = p.seq BY <1>1, <2>3, <3>2, SameSlot
      <3> QED BY <1>3, <3>3 DEF Buffered
    <2> QED BY <2>2, <2>3
  <1>6. ASSUME NEW s \in Queued PROVE s \in Queued'
    <2>1. Marked(p, ring', short_seq') \in Seq(Entries)
      <3>1. TypeOK' BY FeedAcceptType
      <3> QED BY <3>1, MarkedType DEF TypeOK
    <2>2. \A i \in DOMAIN missing : i \in DOMAIN missing' /\ missing'[i] = missing[i]
      BY <1>1, <1>2, <2>1
    <2> QED BY <1>2, <2>2 DEF Queued
  <1>7. g \in 0 .. RingSize - 1 /\ g \in 0 .. Half - 1 /\ D \in Int /\ D < RingSize
    <2>1. D \in -(Half - 1) .. Half BY <1>1, DistanceType
    <2>2. g \in SeqNum BY <1>1, WrappingType
    <2>3. g \in Nat BY <2>2 DEF SeqNum
    <2>4. D < RingSize BY <1>2 DEF HInv, AnchorBuffered
    <2> QED BY <2>1, <2>3, <2>4
  <1>8. D >= 0 => Buffered(last_found) /\ ring'[Idx(last_found)].seq = last_found
    <2>1. D >= 0 => Buffered(last_found) BY <1>2 DEF HInv, AnchorBuffered
    <2> HIDE DEF D
    <2>2. Buffered(last_found) => ring'[Idx(last_found)].seq = last_found
      BY <1>1, <1>5 DEF Buffered
    <2> QED BY <2>1, <2>2
  <1>9. ASSUME NEW j \in 0 .. D, WrappingAdd(deliver_next, j) # last_found,
                ring'[Idx(WrappingAdd(deliver_next, j))].seq # WrappingAdd(deliver_next, j)
         PROVE  WrappingAdd(deliver_next, j) \in Queued' \cup given_up'
    <2> DEFINE s == WrappingAdd(deliver_next, j)
    <2>1. j \in 0 .. Half - 1 BY <1>7
    <2>2. s \in SeqNum BY <1>1, <2>1, GapOf
    <2>3. ~Buffered(s) BY <1>5, <1>9, <2>2 DEF Buffered
    <2>4. s \in Holes BY <1>9, <2>3 DEF Holes
    <2> QED BY <1>2, <1>6, <2>4 DEF HInv, HolesTracked
  <1>10. CASE ~Advances(p)
    <2>1. last_found' = last_found BY <1>2, <1>10
    <2>2. AnchorBuffered' BY <1>2, <1>7, <1>8, <2>1 DEF AnchorBuffered, Buffered
    <2>3. ASSUME NEW s \in Holes' PROVE s \in Queued' \cup given_up'
      <3>1. PICK j \in 0 .. D : s = WrappingAdd(deliver_next, j) BY <1>2, <2>1 DEF Holes
      <3>2. ring'[Idx(s)].seq # s /\ s # last_found BY <2>1, <2>3 DEF Holes, Buffered
      <3> QED BY <1>9, <3>1, <3>2
    <2> QED BY <1>4, <2>2, <2>3 DEF HInv, HolesTracked
  <1>11. CASE Advances(p)
    <2>1. last_found' = p.seq BY <1>2, <1>11
    <2>2. Distance(deliver_next, p.seq) = g BY <1>1, <1>7, GapDistance
    <2>3. Distance(deliver_next, last_found)' = g BY <1>2, <2>1, <2>2
    <2>4. AnchorBuffered' BY <1>3, <1>7, <2>1, <2>3 DEF AnchorBuffered, Buffered
    <2>5. ASSUME NEW s \in Holes' PROVE s \in Queued' \cup given_up'
      <3>1. PICK j \in 0 .. g : s = WrappingAdd(deliver_next, j) BY <1>2, <2>3 DEF Holes
      <3>2. ring'[Idx(s)].seq # s /\ s # p.seq BY <2>1, <2>5 DEF Holes, Buffered
      <3>3. j # g BY <1>1, <3>1, <3>2, AddRawGap
      <3>4. CASE j <= D
        <4>1. s # last_found BY <1>7, <1>8, <3>1, <3>2, <3>4
        <4>2. j \in 0 .. D BY <1>7, <3>1, <3>4
        <4> QED BY <1>9, <3>1, <3>2, <4>1, <4>2
      <3>5. CASE D < j
        <4>1. j \in Nat /\ j < g /\ g < Half BY <1>7, <3>1, <3>3
        <4> QED BY <1>11, <3>1, <3>5, <4>1, GapMarked
      <3> QED BY <1>7, <3>1, <3>4, <3>5
    <2> QED BY <1>4, <2>4, <2>5 DEF HInv, HolesTracked
  <1> QED BY <1>10, <1>11

LEMMA HoleStep ==
  ASSUME QInv, HInv, [Next]_vars, [InReach]_vars PROVE HInv'
  <1>0. /\ TypeOK /\ Window /\ PlayoutShadow /\ (~Walking => scan = <<>>)
    BY DEF QInv, IInv, Window, NackShadowed
  <1>1. ASSUME UNCHANGED <<ring, started, deliver_next, last_found>>,
               Queued' = Queued, given_up' = given_up
        PROVE  HInv'
    BY <1>1, HolesUnchanged
  <1>2. CASE UNCHANGED vars
    BY <1>1, <1>2 DEF vars, feedVars, streamVars, cursorVars, nackVars, Queued
  <1>3. CASE ~ UNCHANGED vars
    <2>1. InReach BY <1>3
    <2>2. ASSUME NEW p \in Packets, NEW path \in Paths, FeedAnchor(p, path) PROVE HInv'
      BY <1>0, <2>2, AnchorHoles
    <2>3. ASSUME NEW p \in Packets, NEW path \in Paths, FeedAccept(p, path) PROVE HInv'
      BY <1>0, <2>1, <2>3, AcceptHoles DEF InReach
    <2>4. CASE EmitDeliver \/ SkipHole \/ SkipLapped
      <3>1. started BY <1>0, <2>4 DEF EmitDeliver, SkipHole, SkipLapped, PlayoutShadow
      <3> QED BY <1>0, <2>1, <2>4, <3>1, DeliverHoles
    <2>5. CASE NackTurn BY <1>0, <2>5, NackHoles
    <2>6. CASE EndDeliver \/ NackTimer
      <3>1. UNCHANGED <<ring, started, deliver_next, last_found, given_up>>
        BY <2>6 DEF EndDeliver, NackTimer, feedVars, streamVars, cursorVars
      <3>2. scan = <<>>
        BY <1>0, <2>6 DEF EndDeliver, NackTimer, Fires, Delivering, Walking
      <3>3. Queued' = Queued
        <4>1. ASSUME UNCHANGED <<missing, scan>> PROVE Queued' = Queued BY <4>1 DEF Queued
        <4> QED BY <2>6, <3>2, <4>1, BeginsQueued DEF EndDeliver, NackTimer
      <3> QED BY <1>1, <3>1, <3>3
    <2>7. CASE \/ \E p \in Packets : FeedDiscard(p)
               \/ PlayoutTimer \/ EchoTimer \/ FlowTick
               \/ \E s \in RttSamples : EchoResponse(s)
               \/ \E b \in SenderMaxBuffers : SetSenderMaxBuffer(b)
               \/ \E m \in RttMultipliers : SetRttMultiplier(m)
               \/ Advance \/ Stopped
      <3>1. UNCHANGED <<ring, started, deliver_next, last_found, given_up, missing, scan>>
        BY <2>7, <1>3 DEF FeedDiscard, PlayoutTimer, EchoTimer, FlowTick, EchoResponse,
             SetSenderMaxBuffer, SetRttMultiplier, Advance, Stopped, feedVars, streamVars,
             cursorVars, nackVars
      <3> QED BY <1>1, <3>1 DEF Queued
    <2> QED BY <1>3, <2>2, <2>3, <2>4, <2>5, <2>6, <2>7 DEF Next, Feed, DeliverTurn
  <1> QED BY <1>2, <1>3

\* Recovery loses no hole: whatever order packets, retransmissions, passes and
\* deliveries come in, a sequence between the cursor and the newest in-order
\* packet that is not buffered is queued, or was given up.
THEOREM HolesAreTracked == Spec /\ [][InReach]_vars => []HolesTracked
  <1>1. Init => HInv
    <2> SUFFICES ASSUME Init PROVE HInv OBVIOUS
    <2>1. ~started /\ \A i \in Index : ~Filled(i) BY DEF Init, Filled, NoSlot
    <2> QED BY <2>1 DEF HInv, WithinRing, AnchorBuffered, HolesTracked
  <1>2. QInv /\ HInv /\ [Next]_vars /\ [InReach]_vars => HInv' BY HoleStep
  <1>3. HInv => HolesTracked BY DEF HInv
  <1> QED BY <1>1, <1>2, <1>3, QAlways, PTL DEF Spec
=============================================================================
