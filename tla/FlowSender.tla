----------------------------- MODULE FlowSender -----------------------------
(***************************************************************************)
(* The sender half of the flow core: rist-core/src/flow/sender.rs, the     *)
(* bit-rate windows of flow/congestion.rs and the sender branches of       *)
(* flow/mod.rs, driven by an application that pushes payloads and a peer   *)
(* that returns NACKs and echo responses.                                  *)
(*                                                                         *)
(* service_nack is a loop over the requested sequences.  One request is    *)
(* one step here: todo holds the rest of the loop, and no other action is  *)
(* enabled until it is empty, so the call stays atomic.  The state of a    *)
(* slot other than what the gates and the packet read is left out.         *)
(***************************************************************************)
EXTENDS SeqArith, Clock, Sequences

CONSTANTS
  HistorySize,                \* effective_ring_size(): slots of the history
  NoRecovery,                 \* cfg.no_recovery
  RttMin, RttMax,             \* cfg.rtt_min / rtt_max
  MaxRetries,                 \* cfg.max_retries
  RttEchoInterval,            \* RTT_ECHO_INTERVAL
  Congestion,                 \* "Off" | "Normal" | "Aggressive"
  MaxRate,                    \* cfg.recovery_maxbitrate, in bits per second
  MaxNacks,                   \* derive_max_nacks_per_loop(cfg)
  SlowWindow, FastWindow,     \* BITRATE_SLOW_WINDOW_US / _FAST_WINDOW_US
  SenderSsrc, StartSeq        \* cfg.ssrc, cfg.start_seq

Absent == -1                  \* None, where an override may be given

CONSTANTS  \* what the environment may do, and the bounds of a model
  Sizes,                      \* wire_bytes of the payloads the application pushes
  Blocks,                     \* [seq, source_time] overrides, Absent for None
  Requests,                   \* the sequences of a NACK from the peer
  RttSamples,                 \* RTT samples an echo response may yield
  MaxSent,                    \* payloads pushed in a behaviour
  MaxNow                      \* the clock stops here

ASSUME SenderAssumption ==
  /\ HistorySize \in Nat \ {0} /\ HistorySize <= Half
  /\ NoRecovery \in BOOLEAN
  /\ RttMin \in Nat /\ RttMax \in Nat /\ MaxOf(RttMin, RttFloor) <= RttMax
  /\ MaxRetries \in Nat /\ RttEchoInterval \in Nat
  /\ Congestion \in {"Off", "Normal", "Aggressive"}
  /\ MaxRate \in Nat /\ MaxNacks \in Nat \ {0}
  /\ SlowWindow \in Nat \ {0} /\ FastWindow \in Nat \ {0}
  /\ SenderSsrc \in Nat /\ StartSeq \in SeqNum
  /\ Sizes \subseteq Nat
  /\ Blocks \subseteq [seq: SeqNum \cup {Absent}, source_time: Nat \cup {Absent}]
  /\ Requests \subseteq Seq(SeqNum) /\ RttSamples \subseteq Int
  /\ MaxSent \in Nat /\ MaxNow \in Nat

VARIABLES
  now,                        \* the host clock
  history,                    \* the retransmit ring, indexed by seq & mask
  sending,                    \* SenderState::started
  next_seq,
  data_bw, retry_bw,          \* the two BitrateEwmas
  last_sample,                \* est.last_sample
  echo_timer,                 \* the RttEcho timer in the host's map
  todo, emitted,              \* service_nack: requests still to visit, packets re-sent
  wire,                       \* the last Output::SendMedia
  sent,                       \* payloads pushed so far
  log                         \* history: the last first transmission of each
                              \* sequence and how often it was re-sent

serviceVars == <<todo, emitted>>
rateVars    == <<data_bw, retry_bw>>
pushVars    == <<sending, next_seq, sent, echo_timer>>
vars == <<now, history, rateVars, last_sample, serviceVars, pushVars, wire, log>>

-----------------------------------------------------------------------------
Vacant  == -1                 \* SlotState::Empty, in the seq field of a slot
Off     == -1                 \* no such timer in the host's map
NoSlot  == [seq |-> Vacant, source_time |-> 0, payload |-> 0, bytes |-> 0,
            transmit_count |-> 0, retried |-> FALSE, last_retry |-> 0]
NoPacket == [seq |-> 0, source_time |-> 0, payload |-> 0, ssrc |-> SenderSsrc,
             retransmit |-> FALSE]
NotSent == [source_time |-> 0, payload |-> 0, first_sent |-> 0, resends |-> 0]

Index == 0 .. HistorySize - 1
Idx(s) == s % HistorySize     \* seq & mask
Slot(s) == history[Idx(s)]

-----------------------------------------------------------------------------
(* BitrateEwma: a slow and a fast window, both premultiplied by eight.     *)

NewWindow == [bytes |-> 0, last |-> 0, eight |-> 0]
NewRate == [slow |-> NewWindow, fast |-> NewWindow, seeded |-> FALSE]

\* Fold n bytes into one window; a full window becomes a sample.
WindowFeed(w, n, width) ==
  IF now - w.last >= width
  THEN [bytes |-> 0, last |-> now,
        eight |-> w.eight + (8 * (w.bytes + n) * UsPerSecond) \div (now - w.last)
                          - w.eight \div 8]
  ELSE [w EXCEPT !.bytes = @ + n]

\* BitrateEwma::feed; the first call starts both windows.
RateFeed(bw, n) ==
  LET Begun(w) == IF bw.seeded THEN w ELSE [w EXCEPT !.last = now]
  IN [slow |-> WindowFeed(Begun(bw.slow), n, SlowWindow),
      fast |-> WindowFeed(Begun(bw.fast), n, FastWindow),
      seeded |-> TRUE]

Bps(w) == w.eight \div 8

\* over_budget
OverBudget ==
  \/ Congestion = "Normal" /\ Bps(data_bw.slow) + Bps(retry_bw.fast) > MaxRate
  \/ Congestion = "Aggressive" /\ Bps(data_bw.fast) + Bps(retry_bw.fast) > MaxRate

-----------------------------------------------------------------------------
Init ==
  /\ now = 0
  /\ history = [i \in Index |-> NoSlot]
  /\ sending = FALSE /\ next_seq = StartSeq /\ sent = 0
  /\ data_bw = NewRate /\ retry_bw = NewRate
  /\ last_sample = 0 /\ echo_timer = Off
  /\ todo = <<>> /\ emitted = 0
  /\ wire = NoPacket /\ log = [s \in SeqNum |-> NotSent]

Idle == todo = <<>>

Packet(s, source_time, payload, retransmit) ==
  [seq |-> s, source_time |-> source_time, payload |-> payload,
   ssrc |-> SenderSsrc, retransmit |-> retransmit]

\* send_push_app_block, for the sequence and source time it settles on.
FirstSend(s, source_time, bytes) ==
  /\ Idle /\ sent < MaxSent
  /\ sending' = TRUE
  /\ echo_timer' = IF ~sending /\ ~NoRecovery THEN now + RttEchoInterval ELSE echo_timer
  /\ next_seq' = WrappingAdd(s, 1)
  /\ sent' = sent + 1
  /\ history' = IF NoRecovery THEN history
                ELSE [history EXCEPT ![Idx(s)] =
                        [seq |-> s, source_time |-> source_time, payload |-> sent',
                         bytes |-> bytes, transmit_count |-> 0,
                         retried |-> FALSE, last_retry |-> 0]]
  /\ wire' = Packet(s, source_time, sent', FALSE)
  /\ log' = [log EXCEPT ![s] = [source_time |-> source_time, payload |-> sent',
                                first_sent |-> now, resends |-> 0]]
  /\ data_bw' = RateFeed(data_bw, bytes)
  /\ UNCHANGED <<now, retry_bw, last_sample, serviceVars>>

\* push_app, push_app_frag: the next sequence, stamped now.
PushApp(bytes) == FirstSend(next_seq, FromTimestamp(now), bytes)

\* push_app_block: either override (USE_SEQ, a source timestamp) may be absent.
PushBlock(b, bytes) ==
  FirstSend(IF b.seq = Absent THEN next_seq ELSE b.seq,
            IF b.source_time = Absent THEN FromTimestamp(now) ELSE b.source_time,
            bytes)

-----------------------------------------------------------------------------
(* service_nack *)

\* The suppression gate: the last raw sample, not the EWMA, clamped.
Gate == LastClamped(last_sample, RttMin, RttMax)
          * (IF Congestion = "Aggressive" THEN 2 ELSE 1)

\* feed_feedback(Nack): the head of service_nack, which ages the windows.
Nack(missing) ==
  /\ Idle
  /\ todo' = missing /\ emitted' = 0
  /\ data_bw' = RateFeed(data_bw, 0) /\ retry_bw' = RateFeed(retry_bw, 0)
  /\ UNCHANGED <<now, history, last_sample, pushVars, wire, log>>

\* Slip: the slot is taken without comparing its sequence.
RetainedAny(s) == Slot(s).seq # Vacant
Retained(s) == Slot(s).seq = s

Suppressed(s) == Slot(s).retried /\ now - Slot(s).last_retry < Gate

\* Slip: one retry too many.
ExhaustedLate(s) == Slot(s).transmit_count > MaxRetries
Exhausted(s) == Slot(s).transmit_count >= MaxRetries

Resendable(s) == Retained(s) /\ ~Suppressed(s) /\ ~OverBudget /\ ~Exhausted(s)

\* Unserviceable, suppressed, over budget or exhausted: only counted.
Refuse ==
  /\ ~Idle
  /\ ~Resendable(Head(todo))
  /\ todo' = Tail(todo)
  /\ UNCHANGED <<now, history, emitted, rateVars, last_sample, pushVars, wire, log>>

\* Slip: the retransmission is stamped anew.
ResendRestamped ==
  /\ ~Idle
  /\ Resendable(Head(todo))
  /\ LET s == Head(todo) IN
       /\ history' = [history EXCEPT ![Idx(s)].transmit_count = @ + 1,
                                     ![Idx(s)].retried = TRUE,
                                     ![Idx(s)].last_retry = now]
       /\ wire' = Packet(s, FromTimestamp(now), Slot(s).payload, TRUE)
       /\ log' = [log EXCEPT ![s].resends = @ + 1]
       /\ retry_bw' = RateFeed(retry_bw, Slot(s).bytes)
  /\ emitted' = emitted + 1
  /\ todo' = IF emitted' >= MaxNacks THEN <<>> ELSE Tail(todo)
  /\ UNCHANGED <<now, data_bw, last_sample, pushVars>>

\* Re-sent; the pass ends when its budget of packets is spent.
Resend ==
  /\ ~Idle
  /\ Resendable(Head(todo))
  /\ LET s == Head(todo) IN
       /\ history' = [history EXCEPT ![Idx(s)].transmit_count = @ + 1,
                                     ![Idx(s)].retried = TRUE,
                                     ![Idx(s)].last_retry = now]
       /\ wire' = Packet(s, Slot(s).source_time, Slot(s).payload, TRUE)
       /\ log' = [log EXCEPT ![s].resends = @ + 1]
       /\ retry_bw' = RateFeed(retry_bw, Slot(s).bytes)
  /\ emitted' = emitted + 1
  /\ todo' = IF emitted' >= MaxNacks THEN <<>> ELSE Tail(todo)
  /\ UNCHANGED <<now, data_bw, last_sample, pushVars>>

-----------------------------------------------------------------------------
(* Timers, echo responses and time *)

\* feed_feedback(RttEchoResponse): negative samples count as zero.
EchoResponse(sample) ==
  /\ Idle
  /\ last_sample' = MaxOf(sample, 0)
  /\ UNCHANGED <<now, history, rateVars, serviceVars, pushVars, wire, log>>

\* sender_handle_timer(RttEcho): an echo request leaves and the timer is re-armed.
EchoTimer ==
  /\ Idle
  /\ echo_timer # Off /\ echo_timer <= now
  /\ echo_timer' = IF sending THEN now + RttEchoInterval ELSE Off
  /\ UNCHANGED <<now, history, sending, next_seq, sent, rateVars, last_sample,
                 serviceVars, wire, log>>

Advance ==
  /\ Idle /\ now < MaxNow
  /\ now' = now + 1
  /\ UNCHANGED <<history, rateVars, last_sample, serviceVars, pushVars, wire, log>>

\* The model's clock has run out.
Stopped == Idle /\ now = MaxNow /\ UNCHANGED vars

Push == \E bytes \in Sizes :
          PushApp(bytes) \/ \E b \in Blocks : PushBlock(b, bytes)
Service == Refuse \/ Resend

Next ==
  \/ Push \/ Service
  \/ \E missing \in Requests : Nack(missing)
  \/ \E s \in RttSamples : EchoResponse(s)
  \/ EchoTimer \/ Advance \/ Stopped

Spec == Init /\ [][Next]_vars

-----------------------------------------------------------------------------
(* Properties *)

Slots == [seq: SeqNum \cup {Vacant}, source_time: Nat, payload: Nat, bytes: Nat,
          transmit_count: Nat, retried: BOOLEAN, last_retry: Nat]
Windows == [bytes: Nat, last: Nat, eight: Nat]
Rates == [slow: Windows, fast: Windows, seeded: BOOLEAN]

\* Every variable keeps its type; the premultiplied rates never go negative.
TypeOK ==
  /\ now \in Nat
  /\ history \in [Index -> Slots]
  /\ sending \in BOOLEAN /\ next_seq \in SeqNum /\ sent \in Nat
  /\ data_bw \in Rates /\ retry_bw \in Rates
  /\ last_sample \in Nat /\ echo_timer \in Nat \cup {Off}
  /\ todo \in Seq(SeqNum) /\ emitted \in Nat
  /\ wire \in [seq: SeqNum, source_time: Nat, payload: Nat, ssrc: Nat,
               retransmit: BOOLEAN]
  /\ log \in [SeqNum -> [source_time: Nat, payload: Nat, first_sent: Nat, resends: Nat]]

\* A retransmission repeats payload and timestamp of the last first transmission
\* of its sequence, however often the ring slot was reused (send_push_app_block
\* overwrites lazily, service_nack compares the sequence).
RetransmitFaithful ==
  wire.retransmit => /\ wire.payload = log[wire.seq].payload
                     /\ wire.source_time = log[wire.seq].source_time

\* One transmission is re-sent at most max_retries times.
RetriesBounded == \A s \in SeqNum : log[s].resends <= MaxRetries

MinGate == EffectiveMin(RttMin) * (IF Congestion = "Aggressive" THEN 2 ELSE 1)

\* However NACKs are duplicated or repeated, one packet is re-sent no more than
\* once per round-trip floor after its first retransmission (the retried /
\* last_retry gate of service_nack).
StormBounded ==
  \A s \in SeqNum : log[s].resends * MinGate <= (now - log[s].first_sent) + MinGate

\* What NACKs can make the sender do is bounded in number and in rate.
ResendsBounded == RetriesBounded /\ StormBounded

\* send_push_app_block: "a later auto-sequenced send cannot collide": a payload
\* without a sequence of its own never takes one that is still retained.
AutoSeqFresh ==
  [][\A bytes \in Sizes : PushApp(bytes) => ~Retained(next_seq)]_vars
=============================================================================
