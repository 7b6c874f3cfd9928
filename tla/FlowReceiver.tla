---------------------------- MODULE FlowReceiver ----------------------------
(***************************************************************************)
(* The receiver half of the flow core (rist-core/src/flow/receiver.rs and  *)
(* the receiver branches of flow/mod.rs), driven by a host that feeds it   *)
(* packets, keeps its timers and drains its outputs after every call.      *)
(*                                                                         *)
(* The ring, the cursors, the missing queue and the timer shadows keep the *)
(* names of ReceiverState.  Two calls contain a loop: deliver_due (one     *)
(* delivery or one skip per turn) and process_nacks (one queue entry per   *)
(* turn).  A turn is one step here; phase says which loop is running, and  *)
(* no other action is enabled until it has ended, so a call stays atomic.  *)
(***************************************************************************)
EXTENDS SeqArith, Clock, Sequences

CONSTANTS
  RingSize,                   \* effective_ring_size(): slots, a power of two
  TimingMode,                 \* "Source" | "Arrival" | "Rtc"
  NoRecovery,                 \* cfg.no_recovery
  RecoveryMin, RecoveryMax,   \* cfg.recovery_buffer_min / _max
  ReorderBuffer,              \* cfg.reorder_buffer
  RttMin, RttMax,             \* cfg.rtt_min / rtt_max
  MaxRetries,                 \* cfg.max_retries
  MissingCounterMax,          \* derive_missing_counter_max(cfg)
  MaxGap16,                   \* seq::MAX_GAP_16
  NackCadence,                \* NACK_CADENCE
  RttEchoInterval,            \* RTT_ECHO_INTERVAL
  NackRate, NackCost, NackBurst,  \* token bucket, see RefillTokens
  SrcWrapNtp, SrcWrapMicros,  \* SRC_WRAP_PERIOD_NTP / _MICROS
  BufferDecreaseStep,         \* BUFFER_DECREASE_STEP
  HighLossThreshold           \* BUFFER_HIGH_LOSS_THRESHOLD

CONSTANTS  \* what the environment may do, and the bounds of a model
  Packets,                    \* the MediaPackets the network may hand over
  Paths,                      \* the paths they may arrive on
  RttSamples,                 \* RTT samples an echo response may yield
  SenderMaxBuffers,           \* values of buffer-negotiation messages
  RttMultipliers,             \* rtt_multiplier: the first value and later ones
  MaxNow,                     \* the clock stops here
  FeedUntil,                  \* no input from the network after this instant
  MaxLate                     \* how late the host may fire a timer

ASSUME ReceiverAssumption ==
  /\ RingSize \in Nat /\ RingSize > 1 /\ RingSize <= Half
  /\ TimingMode \in {"Source", "Arrival", "Rtc"}
  /\ NoRecovery \in BOOLEAN
  /\ RecoveryMin \in Nat /\ RecoveryMax \in Nat /\ RecoveryMin <= RecoveryMax
  /\ ReorderBuffer \in Nat /\ RttMin \in Nat /\ RttMax \in Nat
  /\ MaxOf(RttMin, RttFloor) <= RttMax
  /\ MaxRetries \in Nat /\ MissingCounterMax \in Nat /\ MaxGap16 \in Nat
  /\ NackCadence \in Nat /\ RttEchoInterval \in Nat
  /\ NackRate \in Nat /\ NackCost \in Nat /\ NackBurst \in Nat
  /\ SrcWrapNtp \in Nat /\ SrcWrapMicros \in Nat
  /\ BufferDecreaseStep \in Nat /\ HighLossThreshold \in Nat
  /\ Packets \subseteq [seq: SeqNum, source_time: Nat, ssrc: Nat,
                        retransmit: BOOLEAN, short_seq: BOOLEAN]
  /\ Paths \subseteq Nat /\ RttSamples \subseteq Int
  /\ SenderMaxBuffers \subseteq Nat /\ RttMultipliers \subseteq Nat
  /\ RttMultipliers # {}
  /\ MaxNow \in Nat /\ FeedUntil \in Nat /\ MaxLate \in Nat

\* RingSize is a power of two, and so divides the sequence space.
ASSUME RingAssumption == SeqSize % RingSize = 0

VARIABLES
  now,                        \* the host clock
  phase,                      \* which loop of the core is running
  ring,                       \* the slots, indexed by seq & mask
  started, ssrc, short_seq,
  clock,                      \* offset, max_source_time, last_packet_time, last_resync
                              \* and the counter stats.clock_resync
  last_found, highest, deliver_next,
  pending_discontinuity, last_path,
  missing,                    \* the FIFO missing queue (kept, during a pass)
  scan, batch,                \* process_nacks: entries still to visit, NACKed so far
  playout_armed, playout_deadline, nack_armed,
  wheel,                      \* the host's timer map
  recovery_buffer, est, rtt_multiplier, sender_max_buffer,
  lost_delta, recovered_delta, \* lost - loss_snap, recovered - recovered_snap
  nack_tokens, nack_tokens_time,
  pos,                        \* history: deliver_next, counted from the anchor
  event,                      \* the last Event::Deliver, in positions
  given_up                    \* history: sequences ahead whose recovery was abandoned

streamVars == <<started, ssrc, last_path>>
cursorVars == <<deliver_next, pending_discontinuity, pos, event>>
nackVars   == <<missing, scan, batch, given_up, nack_armed, nack_tokens, nack_tokens_time>>
playVars   == <<playout_armed, playout_deadline>>
scaleVars  == <<recovery_buffer, est, rtt_multiplier, sender_max_buffer>>
deltaVars  == <<lost_delta, recovered_delta>>
feedVars   == <<short_seq, clock, last_found, highest>>
vars == <<now, phase, ring, wheel, feedVars,
          streamVars, cursorVars, nackVars, playVars, scaleVars, deltaVars>>

-----------------------------------------------------------------------------
Vacant  == -1                 \* SlotState::Empty, in the seq field of a slot
Off     == -1                 \* no such timer in the host's map
TimerId == {"Playout", "Nack", "RttEcho"}
NoSlot  == [seq |-> Vacant, source_time |-> 0, packet_time |-> 0, output_time |-> 0]

Index == 0 .. RingSize - 1
Idx(s) == s % RingSize        \* seq & mask
Filled(i) == ring[i].seq # Vacant
Buffered(s) == ring[Idx(s)].seq = s

Init ==
  /\ now = 0 /\ phase = "idle"
  /\ ring = [i \in Index |-> NoSlot]
  /\ started = FALSE /\ ssrc = 0 /\ short_seq = FALSE
  /\ clock = [offset |-> 0, max_source_time |-> 0, last_packet_time |-> 0,
              last_resync |-> 0, clock_resync |-> 0]
  /\ last_found = 0 /\ highest = 0 /\ deliver_next = 0
  /\ pending_discontinuity = FALSE /\ last_path = 0
  /\ missing = <<>> /\ scan = <<>> /\ batch = <<>>
  /\ playout_armed = FALSE /\ playout_deadline = 0 /\ nack_armed = FALSE
  /\ wheel = [t \in TimerId |-> Off]
  /\ recovery_buffer = (RecoveryMax - RecoveryMin) \div 2 + RecoveryMin
  /\ est = EstimatorNew(RttMin)
  /\ rtt_multiplier \in RttMultipliers
  /\ sender_max_buffer = 0 /\ lost_delta = 0 /\ recovered_delta = 0
  /\ nack_tokens = NackBurst * NackCost /\ nack_tokens_time = 0
  /\ pos = 0 /\ event = [pos |-> -1, discontinuity |-> FALSE] /\ given_up = {}

-----------------------------------------------------------------------------
(* Timers.  The core pushes SetTimer / ClearTimer outputs, which the host  *)
(* applies to its wheel before it does anything else.                      *)

\* Slip: any outstanding request stands, even a later one.
ArmPlayoutOnce(deadline) ==
  IF playout_armed
  THEN UNCHANGED playVars
  ELSE playout_armed' = TRUE /\ playout_deadline' = deadline

\* arm_playout: an earlier or equal request stands.
ArmPlayout(deadline) ==
  IF playout_armed /\ deadline >= playout_deadline
  THEN UNCHANGED playVars
  ELSE playout_armed' = TRUE /\ playout_deadline' = deadline

\* disarm_playout
DisarmPlayout == playout_armed' = FALSE /\ UNCHANGED playout_deadline

\* schedule_nack, for the queue q.
ScheduleNack(q) == nack_armed' = (nack_armed \/ q # <<>>)

\* The Playout timer in the wheel once the outputs of a call are drained: the
\* core asks for a timer only when its shadow of it changes.
PlayoutOutput ==
  IF playout_armed /\ ~playout_armed' THEN Off
  ELSE IF playout_armed' /\ (playout_armed => playout_deadline' # playout_deadline)
       THEN playout_deadline'
       ELSE wheel["Playout"]

\* The wheel after a call: echo is the RttEcho deadline it leaves.
DrainTimers(echo) ==
  wheel' = [wheel EXCEPT
    !["Playout"] = PlayoutOutput,
    !["Nack"] = IF nack_armed' /\ ~nack_armed THEN now + NackCadence ELSE @,
    !["RttEcho"] = echo]

-----------------------------------------------------------------------------
(* recv_feed *)

FlowId(x) == x \div 2         \* ssrc & !0x1

NewFlow(p) == started /\ ~p.retransmit /\ FlowId(p.ssrc) # FlowId(ssrc)

\* The timing baseline after the framing-change re-lock.
Reframed(p) ==
  IF ~p.retransmit /\ p.short_seq # short_seq
  THEN [clock EXCEPT !.offset = now - ToTimestamp(p.source_time),
                     !.max_source_time = p.source_time,
                     !.last_packet_time = now, !.last_resync = now]
  ELSE clock

MapSourceTime(offset, source_time) == SatAdd(ToTimestamp(source_time), offset)

\* The wrap test of receiver_packet_time on baseline c.
SourceWrapped(c, p) ==
  /\ TimingMode = "Source"
  /\ ~p.retransmit
  /\ c.max_source_time - p.source_time > SrcWrapNtp \div 2
  /\ now - c.last_resync >= 3 * recovery_buffer

\* receiver_packet_time: the baseline it leaves.
Reanchored(c, p) ==
  IF SourceWrapped(c, p)
  THEN [offset |-> c.offset + SrcWrapMicros, max_source_time |-> p.source_time,
        last_packet_time |-> MapSourceTime(c.offset + SrcWrapMicros, p.source_time),
        last_resync |-> now, clock_resync |-> c.clock_resync + 1]
  ELSE c

\* receiver_packet_time: its result on the baseline it leaves.
PacketTime(c, p) ==
  IF TimingMode = "Arrival" THEN now ELSE MapSourceTime(c.offset, p.source_time)

\* The newest source time seen, and its packet time.
Newest(c, p) ==
  IF p.source_time > c.max_source_time
  THEN [c EXCEPT !.max_source_time = p.source_time, !.last_packet_time = PacketTime(c, p)]
  ELSE c

Baseline(p) == Newest(Reanchored(Reframed(p), p), p)
PktTime(p) == PacketTime(Reanchored(Reframed(p), p), p)

\* Older than the newest packet time and not the successor of last_found.
Behind(p) ==
  /\ TimingMode # "Arrival"
  /\ PktTime(p) < Baseline(p).last_packet_time
  /\ p.seq # WrappingAdd(last_found, 1)

TooLate(p) ==
  \/ Behind(p) /\ now > PktTime(p) + Mul11(recovery_buffer)
  \/ Less(p.seq, deliver_next)

IsDuplicate(p) == Buffered(p.seq) /\ ring[Idx(p.seq)].source_time = p.source_time

\* Neither a retransmission nor out of order: the packet moves last_found.
Advances(p) == ~p.retransmit /\ ~Behind(p)

Slot(p, packet_time) ==
  [seq |-> p.seq, source_time |-> p.source_time, packet_time |-> packet_time,
   output_time |-> packet_time + recovery_buffer]

-----------------------------------------------------------------------------
(* mark_missing *)

MaxGap(short) == IF short THEN MaxGap16 ELSE RingSize \div 2

\* Slip: the walk stops one short of the packet's predecessor.
MarkCountShort(gap, short) ==
  IF NoRecovery \/ gap <= 1 \/ gap > MaxGap(short) THEN 0
  ELSE MinOf(MinOf(gap - 2, RingSize - 1), MaxOf(0, MissingCounterMax + 1 - Len(missing)))

\* Slip: each gap gets the whole bound, whatever is queued already.
MarkCountFresh(gap, short) ==
  IF NoRecovery \/ gap = 0 \/ gap > MaxGap(short) THEN 0
  ELSE MinOf(MinOf(gap - 1, RingSize - 1), MissingCounterMax + 1)

\* How many entries the walk over the gap appends before one of its three
\* bounds stops it.
MarkCount(gap, short) ==
  IF NoRecovery \/ gap = 0 \/ gap > MaxGap(short) THEN 0
  ELSE MinOf(MinOf(gap - 1, RingSize - 1), MaxOf(0, MissingCounterMax + 1 - Len(missing)))

\* Time between two packets of the gap, from the anchor's packet time.
AnchorTime(r) == IF r[Idx(last_found)].seq = last_found
                 THEN r[Idx(last_found)].packet_time ELSE now
Interpacket(packet_time, r, gap) ==
  MaxOf(packet_time - AnchorTime(r), 0) \div (gap + 1)

\* Slip: the reorder buffer is forgotten.
FirstDelayRtt == Clamped(est, RttMin, RttMax) \div 2

FirstDelay == MaxOf(Clamped(est, RttMin, RttMax) \div 2, ReorderBuffer)

\* add_missing: the entry for sequence s, interpolated at nack_time.
MissingEntry(s, nack_time) ==
  [seq |-> s, nack_count |-> 0,
   insertion_time |-> IF nack_time > now \/ nack_time < SatAdd(now, -recovery_buffer)
                      THEN now ELSE nack_time,
   next_nack |-> now + FirstDelay]

\* The entries mark_missing appends when p arrives; r is the ring with p in it.
Marked(p, r, short) ==
  LET gap == WrappingSub(p.seq, last_found)
      step == Interpacket(PktTime(p), r, gap)
  IN IF Advances(p)
     THEN [i \in 1 .. MarkCount(gap, short) |->
             MissingEntry(WrappingAdd(last_found, i), AnchorTime(r) + i * step)]
     ELSE <<>>

-----------------------------------------------------------------------------
(* The three outcomes of recv_feed.  A retransmission that meets a flow    *)
(* that has not started changes nothing and is not an action.              *)

CanFeed == phase = "idle" /\ now <= FeedUntil

\* Slip: the slots of the old flow survive the reset.
AnchoredRingKept(p) == [ring EXCEPT ![Idx(p.seq)] = Slot(p, now)]

\* The ring after start: reset_receiver has emptied it.
AnchoredRing(p) == [i \in Index |-> IF i = Idx(p.seq) THEN Slot(p, now) ELSE NoSlot]

\* start, after reset_receiver when the flow id changed.
FeedAnchor(p, path) ==
  /\ CanFeed
  /\ ~p.retransmit
  /\ ~started \/ NewFlow(p)
  /\ started' = TRUE /\ ssrc' = p.ssrc /\ short_seq' = p.short_seq
  /\ clock' = [offset |-> now - ToTimestamp(p.source_time),
               max_source_time |-> p.source_time,
               last_packet_time |-> now, last_resync |-> now,
               clock_resync |-> clock.clock_resync]
  /\ last_found' = p.seq /\ highest' = p.seq /\ deliver_next' = p.seq
  /\ last_path' = path /\ pending_discontinuity' = FALSE
  /\ ring' = AnchoredRing(p)
  /\ missing' = <<>> /\ nack_armed' = FALSE
  /\ playout_armed' = TRUE /\ playout_deadline' = now + recovery_buffer
  /\ DrainTimers(IF NoRecovery THEN wheel["RttEcho"] ELSE now + RttEchoInterval)
  /\ pos' = 0 /\ event' = [pos |-> -1, discontinuity |-> FALSE] /\ given_up' = {}
  /\ UNCHANGED <<now, phase, scan, batch, nack_tokens, nack_tokens_time,
                 scaleVars, deltaVars>>

Framing(p) == IF p.retransmit THEN short_seq ELSE p.short_seq

\* Shed as too late, or dropped as a copy of a buffered packet.
FeedDiscard(p) ==
  /\ CanFeed
  /\ started /\ ~NewFlow(p)
  /\ TooLate(p) \/ IsDuplicate(p)
  /\ clock' = Baseline(p) /\ short_seq' = Framing(p)
  /\ UNCHANGED <<now, phase, ring, last_found, highest, wheel, streamVars,
                 cursorVars, nackVars, playVars, scaleVars, deltaVars>>

\* Inserted, with missing detection and timer scheduling.
FeedAccept(p, path) ==
  /\ CanFeed
  /\ started /\ ~NewFlow(p)
  /\ ~TooLate(p) /\ ~IsDuplicate(p)
  /\ clock' = Baseline(p) /\ short_seq' = Framing(p)
  /\ ring' = [ring EXCEPT ![Idx(p.seq)] = Slot(p, PktTime(p))]
  /\ highest' = IF Less(highest, p.seq) THEN p.seq ELSE highest
  /\ last_path' = path
  /\ missing' = missing \o Marked(p, ring', short_seq')
  /\ last_found' = IF Advances(p) THEN p.seq ELSE last_found
  /\ ArmPlayout(PktTime(p) + recovery_buffer)
  /\ ScheduleNack(missing')
  /\ DrainTimers(wheel["RttEcho"])
  /\ UNCHANGED <<now, phase, started, ssrc, cursorVars, scan, batch, nack_tokens,
                 nack_tokens_time, scaleVars, deltaVars, given_up>>

-----------------------------------------------------------------------------
(* deliver_due: one turn of its loop per step. *)

\* Loss is measured from the moment auto-scaling is switched on.
Counted(n) == IF sender_max_buffer > 0 THEN n ELSE 0

Delivering == phase \in {"deliver", "tick"}
Dist == Distance(deliver_next, highest)
\* Slip: the scan stops one slot short of a full ring.
AheadShort ==
  {k \in 1 .. MinOf(Dist, RingSize - 1) : Buffered(WrappingAdd(deliver_next, k))}
Ahead == {k \in 1 .. MinOf(Dist, RingSize) : Buffered(WrappingAdd(deliver_next, k))}
FirstAhead == CHOOSE k \in Ahead : \A j \in Ahead : k <= j
OutputTime(s) == ring[Idx(s)].output_time

\* emit_deliver
EmitDeliver ==
  /\ Delivering
  /\ Buffered(deliver_next)
  /\ now >= OutputTime(deliver_next)
  /\ ring' = [ring EXCEPT ![Idx(deliver_next)] = NoSlot]
  /\ event' = [pos |-> pos, discontinuity |-> pending_discontinuity]
  /\ pending_discontinuity' = FALSE
  /\ deliver_next' = WrappingAdd(deliver_next, 1) /\ pos' = pos + 1
  /\ UNCHANGED <<now, phase, feedVars, wheel, streamVars, nackVars, playVars,
                 scaleVars, deltaVars>>

\* Slip: the skip is not flagged.
SkipToSilent(k) ==
  /\ ring' = [i \in Index |->
                IF \E j \in 0 .. k - 1 : i = Idx(WrappingAdd(deliver_next, j))
                THEN NoSlot ELSE ring[i]]
  /\ deliver_next' = WrappingAdd(deliver_next, k) /\ pos' = pos + k
  /\ lost_delta' = lost_delta + Counted(k)
  /\ UNCHANGED <<now, phase, feedVars, event, wheel, streamVars, nackVars,
                 playVars, scaleVars, recovered_delta, pending_discontinuity>>

\* skip_to(deliver_next + k): every slot index passed over is emptied.
SkipTo(k) ==
  /\ ring' = [i \in Index |->
                IF \E j \in 0 .. k - 1 : i = Idx(WrappingAdd(deliver_next, j))
                THEN NoSlot ELSE ring[i]]
  /\ deliver_next' = WrappingAdd(deliver_next, k) /\ pos' = pos + k
  /\ pending_discontinuity' = TRUE
  /\ lost_delta' = lost_delta + Counted(k)
  /\ UNCHANGED <<now, phase, feedVars, event, wheel, streamVars, nackVars,
                 playVars, scaleVars, recovered_delta>>

\* A hole whose next buffered packet is due.
SkipHole ==
  /\ Delivering
  /\ ~Buffered(deliver_next) /\ Ahead # {}
  /\ now >= OutputTime(WrappingAdd(deliver_next, FirstAhead))
  /\ SkipTo(FirstAhead)

\* A whole ring span without a packet although highest is further ahead.
SkipLapped ==
  /\ Delivering
  /\ ~Buffered(deliver_next) /\ Ahead = {} /\ Dist > RingSize
  /\ SkipTo(RingSize)

\* The return-bandwidth bucket: NackCost units buy one NACKed sequence, one
\* unit of time refills NackRate units, NackRate = 0 means unlimited.
RefillTokens ==
  IF NackRate = 0 THEN UNCHANGED <<nack_tokens, nack_tokens_time>>
  ELSE /\ nack_tokens' = MinOf(nack_tokens + MaxOf(now - nack_tokens_time, 0) * NackRate,
                               NackBurst * NackCost)
       /\ nack_tokens_time' = now

\* The head of process_nacks: an empty queue returns at once.
BeginNacks(walking) ==
  IF missing = <<>>
  THEN phase' = "idle" /\ UNCHANGED <<missing, scan, batch, nack_tokens, nack_tokens_time>>
  ELSE /\ phase' = walking
       /\ scan' = missing /\ missing' = <<>> /\ batch' = <<>>
       /\ RefillTokens

\* The loop returns: wait for the next buffered packet, or for nothing.
EndDeliver ==
  /\ Delivering
  /\ \/ /\ Buffered(deliver_next) /\ now < OutputTime(deliver_next)
        /\ ArmPlayout(OutputTime(deliver_next))
     \/ /\ ~Buffered(deliver_next) /\ Ahead # {}
        /\ now < OutputTime(WrappingAdd(deliver_next, FirstAhead))
        /\ ArmPlayout(OutputTime(WrappingAdd(deliver_next, FirstAhead)))
     \/ /\ ~Buffered(deliver_next) /\ Ahead = {} /\ Dist <= RingSize
        /\ DisarmPlayout
  /\ IF phase = "tick"
     THEN BeginNacks("tick_nack")
     ELSE phase' = "idle" /\ UNCHANGED <<missing, scan, batch, nack_tokens, nack_tokens_time>>
  /\ UNCHANGED nack_armed
  /\ DrainTimers(wheel["RttEcho"])
  /\ UNCHANGED <<now, ring, feedVars, streamVars, cursorVars, scaleVars,
                 deltaVars, given_up>>

-----------------------------------------------------------------------------
(* process_nacks: one entry of the queue per step. *)

Walking == phase \in {"nack", "tick_nack"}
Entry == Head(scan)

\* The slot was filled, by this sequence or by another one; or the entry is
\* out of retries or too old.
Settled(e) == Filled(Idx(e.seq))
Abandoned(e) == \/ e.nack_count >= MaxRetries
                \/ now - e.insertion_time > Mul11(recovery_buffer)

\* Slip: a due entry is NACKed whatever the bucket holds.
NackDueUnbudgeted(e) == now >= e.next_nack

NackDue(e) == now >= e.next_nack /\ (NackRate = 0 \/ nack_tokens >= NackCost)

Renacked(e) == [e EXCEPT !.nack_count = @ + 1,
                         !.next_nack = now + RetryInterval(est, RttMin, RttMax)]

\* The entry leaves the queue.
NackDrop ==
  /\ Walking /\ scan # <<>>
  /\ Settled(Entry) \/ Abandoned(Entry)
  /\ scan' = Tail(scan)
  /\ recovered_delta' = recovered_delta +
       Counted(IF Buffered(Entry.seq) /\ Entry.nack_count > 0 THEN 1 ELSE 0)
  /\ given_up' = IF Settled(Entry) THEN given_up ELSE given_up \cup {Entry.seq}
  /\ UNCHANGED <<now, phase, ring, feedVars, wheel,
                 missing, batch, nack_armed, nack_tokens, nack_tokens_time,
                 lost_delta, streamVars, cursorVars, playVars, scaleVars>>

\* The entry stays; it joins the NACK when it is due and a token is left.
NackKeep ==
  /\ Walking /\ scan # <<>>
  /\ ~Settled(Entry) /\ ~Abandoned(Entry)
  /\ scan' = Tail(scan)
  /\ IF NackDue(Entry)
     THEN /\ missing' = Append(missing, Renacked(Entry))
          /\ batch' = Append(batch, Entry.seq)
          /\ nack_tokens' = IF NackRate = 0 THEN nack_tokens ELSE nack_tokens - NackCost
     ELSE /\ missing' = Append(missing, Entry)
          /\ UNCHANGED <<batch, nack_tokens>>
  /\ UNCHANGED <<now, phase, feedVars, ring, wheel, nack_armed, nack_tokens_time,
                 deltaVars, streamVars, cursorVars, playVars, scaleVars,
                 given_up>>

\* Slip: the timer handler does not schedule the next pass.
NackEndForgetful ==
  /\ Walking /\ scan = <<>>
  /\ phase' = "idle" /\ batch' = <<>>
  /\ UNCHANGED nack_armed
  /\ UNCHANGED playVars
  /\ DrainTimers(wheel["RttEcho"])
  /\ UNCHANGED <<now, ring, feedVars, missing, scan, nack_tokens,
                 nack_tokens_time, streamVars, cursorVars, scaleVars, deltaVars,
                 given_up>>

\* The pass ends: the batch leaves as one Feedback::Nack on last_path, and the
\* timer handler (not tick) schedules the next pass.
NackEnd ==
  /\ Walking /\ scan = <<>>
  /\ phase' = "idle" /\ batch' = <<>>
  /\ IF phase = "nack" THEN ScheduleNack(missing) ELSE UNCHANGED nack_armed
  /\ UNCHANGED playVars
  /\ DrainTimers(wheel["RttEcho"])
  /\ UNCHANGED <<now, ring, feedVars, missing, scan, nack_tokens,
                 nack_tokens_time, streamVars, cursorVars, scaleVars, deltaVars,
                 given_up>>

-----------------------------------------------------------------------------
(* auto_scale_buffer *)

ScalingOn == rtt_multiplier # 0 /\ RecoveryMin # RecoveryMax /\ sender_max_buffer > 0

\* Smoothed RTT times the multiplier plus reordering, grown by 5 % per lost
\* and 2 % per recovered packet; heavy loss asks for all the sender retains.
Desired ==
  IF lost_delta > HighLossThreshold THEN sender_max_buffer
  ELSE ((Smoothed(est) * rtt_multiplier + ReorderBuffer)
          * (100 + 5 * lost_delta + 2 * recovered_delta)) \div 100

\* The buffer shrinks by at most BufferDecreaseStep.
RateLimited(d) == MaxOf(d, recovery_buffer - BufferDecreaseStep)

Scaled == MinOf(ClampRange(RateLimited(Desired), RecoveryMin, RecoveryMax),
                sender_max_buffer)

AutoScaleBuffer ==
  IF ScalingOn
  THEN recovery_buffer' = Scaled /\ lost_delta' = 0 /\ recovered_delta' = 0
  ELSE UNCHANGED <<recovery_buffer, deltaVars>>

-----------------------------------------------------------------------------
(* handle_timer and the other inputs of the core *)

\* The host takes the timer out of its map and calls handle_timer.
Fires(t) == phase = "idle" /\ wheel[t] # Off /\ wheel[t] <= now

\* Slip: the handler leaves the shadow of the fired timer set.
PlayoutTimerStale ==
  /\ Fires("Playout")
  /\ wheel' = [wheel EXCEPT !["Playout"] = Off]
  /\ phase' = "deliver"
  /\ UNCHANGED <<now, ring, feedVars, streamVars, cursorVars,
                 nackVars, playVars, scaleVars, deltaVars>>

PlayoutTimer ==
  /\ Fires("Playout")
  /\ wheel' = [wheel EXCEPT !["Playout"] = Off]
  /\ playout_armed' = FALSE
  /\ phase' = "deliver"
  /\ UNCHANGED <<now, ring, feedVars, playout_deadline, streamVars, cursorVars,
                 nackVars, scaleVars, deltaVars>>

NackTimer ==
  /\ Fires("Nack")
  /\ wheel' = [wheel EXCEPT !["Nack"] = Off]
  /\ nack_armed' = FALSE
  /\ BeginNacks("nack")
  /\ UNCHANGED <<now, ring, feedVars, streamVars, cursorVars, playVars,
                 scaleVars, deltaVars, given_up>>

EchoTimer ==
  /\ Fires("RttEcho")
  /\ wheel' = [wheel EXCEPT !["RttEcho"] = IF started THEN now + RttEchoInterval ELSE Off]
  /\ IF started THEN AutoScaleBuffer ELSE UNCHANGED <<recovery_buffer, deltaVars>>
  /\ UNCHANGED <<now, phase, feedVars, ring, est, rtt_multiplier,
                 sender_max_buffer, streamVars, cursorVars, nackVars, playVars>>

\* tick: deliver_due, then process_nacks; legal at any time.
FlowTick ==
  /\ CanFeed /\ started
  /\ phase' = "tick"
  /\ UNCHANGED <<now, ring, feedVars, wheel, streamVars, cursorVars, nackVars,
                 playVars, scaleVars, deltaVars>>

\* feed_feedback(RttEchoResponse)
EchoResponse(sample) ==
  /\ CanFeed
  /\ est' = Observe(est, sample)
  /\ UNCHANGED <<now, phase, feedVars, ring, wheel, streamVars, cursorVars,
                 nackVars, playVars, recovery_buffer, rtt_multiplier,
                 sender_max_buffer, deltaVars>>

\* set_sender_max_buffer: activation re-bases the loss counters.
SetSenderMaxBuffer(max_buffer) ==
  /\ CanFeed
  /\ sender_max_buffer' = IF max_buffer < RecoveryMin THEN 0 ELSE max_buffer
  /\ IF sender_max_buffer = 0 \/ sender_max_buffer' = 0
     THEN lost_delta' = 0 /\ recovered_delta' = 0
     ELSE UNCHANGED deltaVars
  /\ UNCHANGED <<now, phase, feedVars, ring, wheel, streamVars, cursorVars,
                 nackVars, playVars, recovery_buffer, est, rtt_multiplier>>

SetRttMultiplier(m) ==
  /\ CanFeed
  /\ rtt_multiplier' = m
  /\ UNCHANGED <<now, phase, feedVars, ring, wheel, streamVars, cursorVars,
                 nackVars, playVars, recovery_buffer, est, sender_max_buffer,
                 deltaVars>>

\* Time passes, but the host never leaves a timer due for more than MaxLate.
Advance ==
  /\ phase = "idle" /\ now < MaxNow
  /\ \A t \in TimerId : wheel[t] # Off => now < wheel[t] + MaxLate
  /\ now' = now + 1
  /\ UNCHANGED <<phase, ring, feedVars, wheel, streamVars, cursorVars, nackVars,
                 playVars, scaleVars, deltaVars>>

\* The model's clock has run out and the host has nothing left to do.
Stopped ==
  /\ phase = "idle" /\ now = MaxNow /\ now > FeedUntil
  /\ \A t \in TimerId : wheel[t] # Off => wheel[t] > now
  /\ UNCHANGED vars

Feed == \E p \in Packets : FeedDiscard(p) \/
          \E path \in Paths : FeedAnchor(p, path) \/ FeedAccept(p, path)

DeliverTurn == EmitDeliver \/ SkipHole \/ SkipLapped \/ EndDeliver
NackTurn == NackDrop \/ NackKeep \/ NackEnd

Next ==
  \/ Feed
  \/ PlayoutTimer \/ NackTimer \/ EchoTimer \/ FlowTick
  \/ DeliverTurn \/ NackTurn
  \/ \E s \in RttSamples : EchoResponse(s)
  \/ \E b \in SenderMaxBuffers : SetSenderMaxBuffer(b)
  \/ \E m \in RttMultipliers : SetRttMultiplier(m)
  \/ Advance \/ Stopped

Spec == Init /\ [][Next]_vars

\* The host's select loop runs on.  A running call ends, since nothing else can
\* happen meanwhile; time passes and due timers fire even if input keeps coming,
\* because sleep_until is one of the branches the loop selects from.
Fairness ==
  /\ WF_vars(DeliverTurn) /\ WF_vars(NackTurn)
  /\ SF_vars(PlayoutTimer) /\ SF_vars(NackTimer) /\ SF_vars(EchoTimer)
  /\ SF_vars(Advance)

FairSpec == Spec /\ Fairness

-----------------------------------------------------------------------------
(* Properties *)

Entries == [seq: SeqNum, nack_count: Nat, insertion_time: Nat, next_nack: Nat]

\* Every variable keeps its type: in particular offsets may be negative but
\* timestamps never are, and a slot is vacant or holds a sequence number.
TypeOK ==
  /\ now \in Nat
  /\ phase \in {"idle", "deliver", "tick", "nack", "tick_nack"}
  /\ ring \in [Index -> [seq: SeqNum \cup {Vacant}, source_time: Nat,
                         packet_time: Nat, output_time: Nat]]
  /\ started \in BOOLEAN /\ ssrc \in Nat /\ short_seq \in BOOLEAN
  /\ clock \in [offset: Int, max_source_time: Nat, last_packet_time: Nat,
                last_resync: Nat, clock_resync: Nat]
  /\ last_found \in SeqNum /\ highest \in SeqNum /\ deliver_next \in SeqNum
  /\ pending_discontinuity \in BOOLEAN /\ last_path \in Nat
  /\ missing \in Seq(Entries) /\ scan \in Seq(Entries) /\ batch \in Seq(SeqNum)
  /\ playout_armed \in BOOLEAN /\ playout_deadline \in Nat /\ nack_armed \in BOOLEAN
  /\ wheel \in [TimerId -> Nat \cup {Off}]
  /\ recovery_buffer \in Nat /\ est \in Nat /\ rtt_multiplier \in Nat
  /\ sender_max_buffer \in Nat /\ lost_delta \in Nat /\ recovered_delta \in Nat
  /\ nack_tokens \in Nat /\ nack_tokens_time \in Nat
  /\ pos \in Nat
  /\ event \in [pos: Nat \cup {-1}, discontinuity: BOOLEAN]
  /\ given_up \subseteq SeqNum

\* A slot holds a sequence that belongs there, never one the playout cursor has
\* passed, and never one beyond highest: the cursor guard of recv_feed, the
\* clearing of skip_to and the comparison that moves highest agree although all
\* of them are circular, so the scan of deliver_due that highest bounds misses
\* no packet.
CursorWindow ==
  /\ started => Dist \in -1 .. Half - 1
  /\ \A i \in Index : Filled(i) =>
       /\ Idx(ring[i].seq) = i
       /\ RawGap(deliver_next, ring[i].seq) <= Dist

\* Playout never stalls: between calls, a ring that holds anything has its
\* playout timer armed, and the host's wheel agrees with the core's shadow
\* (arm_playout, disarm_playout, the implicit disarming of reset_receiver).
PlayoutArmed ==
  phase = "idle" =>
    /\ (\E i \in Index : Filled(i)) => playout_armed
    /\ wheel["Playout"] = IF playout_armed THEN playout_deadline ELSE Off

\* Recovery never stalls: between calls, a queued hole has the NACK timer
\* running, due no later than one cadence from now (schedule_nack).
NackArmed ==
  phase = "idle" /\ missing # <<>> =>
    nack_armed /\ wheel["Nack"] # Off /\ wheel["Nack"] <= now + NackCadence

\* Neither half of the receiver waits for a timer that will not come.
TimersArmed == PlayoutArmed /\ NackArmed

\* The packets at and ahead of the cursor, as distances.
BufferedAhead == {k \in 0 .. Half - 1 : Buffered(WrappingAdd(deliver_next, k))}
HeadTime == OutputTime(WrappingAdd(deliver_next,
              CHOOSE k \in BufferedAhead : \A j \in BufferedAhead : k <= j))

\* The first buffered packet is never kept past its output_time by more than
\* the host's timer lateness: time does not pass while it is overdue ("nothing
\* past its deadline").
PlayoutOnTime ==
  [][now' > now /\ BufferedAhead # {} => now < HeadTime + MaxLate]_vars

Queued == {missing[i].seq : i \in DOMAIN missing} \cup {scan[i].seq : i \in DOMAIN scan}
Holes == {s \in {WrappingAdd(deliver_next, k) : k \in 0 .. Distance(deliver_next, last_found)} :
            ~Buffered(s) /\ s # last_found}

\* Every hole between the cursor and the newest in-order packet is queued for
\* recovery until it is filled, skipped or abandoned: mark_missing, the walk of
\* process_nacks and out-of-order arrivals lose none.
HolesTracked == started => Holes \subseteq Queued \cup given_up

\* The missing queue stops growing one past missing_counter_max, however long
\* the burst and however the NACK pass is interleaved with new gaps.
QueueBounded == Len(missing) + Len(scan) <= MissingCounterMax + 1

\* The recovery buffer stays in its configured window whatever buffers the peer
\* negotiates (auto_scale_buffer with set_sender_max_buffer).
BufferInWindow == recovery_buffer \in RecoveryMin .. RecoveryMax

\* What the receiver holds, and for how long, stays within its configuration
\* (mark_missing, auto_scale_buffer).
ResourcesBounded == QueueBounded /\ BufferInWindow

\* Shrinking is rate-limited to BufferDecreaseStep per recalculation.
ShrinkLimited ==
  [][recovery_buffer' >= recovery_buffer - BufferDecreaseStep]_recovery_buffer

\* skip_to "clears stale slots passed over": deliver_due never takes a packet
\* out of the ring that is still ahead of the cursor.
OnlyStaleCleared ==
  [][\A i \in Index : Delivering /\ Filled(i) /\ ring'[i] = NoSlot
       => Less(ring[i].seq, deliver_next')]_vars

\* mark_missing: what the queue bound left unmarked "is re-detected on the next
\* packet", that is, once a later packet arrives and the queue has room.
TailRedetected ==
  [][last_found' # last_found /\ Len(missing') <= MissingCounterMax => HolesTracked']_vars

\* Only sequences that have not arrived are queued as missing.
OnlyMissingQueued ==
  [][phase = "idle" /\ phase' = "idle" =>
       \A i \in DOMAIN missing' \ DOMAIN missing :
         ring'[Idx(missing'[i].seq)].seq # missing'[i].seq]_vars

\* A buffered packet eventually leaves the ring: delivered, or given up.
PacketsLeave == \A i \in Index : Filled(i) ~> ~Filled(i)

\* Recovery ends: a queue that holds holes is empty again some time later,
\* because each entry is recovered, runs out of retries or ages out.
RecoveryEnds == (missing # <<>>) ~> (missing = <<>> /\ scan = <<>>)

\* Neither packets nor holes stay for ever (release_gap, process_nacks).
NothingLingers == PacketsLeave /\ RecoveryEnds

\* The deliveries are those of the abstract stream.
Stream == INSTANCE PlayoutStream
PlayoutSpec == Stream!Spec
=============================================================================
