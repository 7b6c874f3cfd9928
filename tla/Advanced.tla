------------------------------- MODULE Advanced -------------------------------
(***************************************************************************)
(* What is the Advanced profile's own: media whose sequence is whole but    *)
(* whose timestamp wraps every 65 ms, so that its time is extrapolated from *)
(* the sequence (codec_adv.rs); a sender that starts in Main framing and    *)
(* changes to Advanced framing when the peer says it can (TR-06-3 9), and   *)
(* the receiving flow that follows the change; control messages nobody      *)
(* knows (driver_adv.rs).  A packet is its index k in the stream; the flow  *)
(* is that of FlowReceiver, reduced to how a packet is placed in time.      *)
(***************************************************************************)
EXTENDS Integers, Sequences, FiniteSets

CONSTANTS
  TsMod,         \* 65536 us: the Advanced timestamp wraps
  MaxAdv,        \* packets pushed
  MaxAir,        \* packets under way at a time
  MaxUnknown,    \* control messages of an unknown index sent
  AdvCases       \* the cases of a run

\* start_main: adv_sender_start_main; gaps: times between two packets;
\* resends: packets are asked for again.
AdvCase == [start_main : BOOLEAN, gaps : SUBSET (Nat \ {0}), resends : BOOLEAN]

ASSUME AdvancedAssumption ==
  /\ TsMod \in Nat /\ TsMod % 2 = 0 /\ TsMod > 0
  /\ MaxAdv \in Nat /\ MaxAir \in Nat /\ MaxUnknown \in Nat
  /\ AdvCases \subseteq AdvCase

VARIABLES
  acase,
  pushes,     \* pushes[k]: the time packet k was pushed at; the last is now
  supports,   \* remote_supports_advanced
  beacons,    \* keep-alives with the I bit under way
  inair,      \* media under way: [k, ts, adv, retransmit]
  clock,      \* the codec's reference: [started, base_seq, base, ref_seq, ref]
  follow,     \* the flow: [started, first, short_seq, k, now, offset]
  placed,     \* history: the packet placed last
  odd         \* control messages: [unknown, answers] under way, [raised, answered] so far

advVars == <<acase, pushes, supports, beacons, inair, clock, follow, placed, odd>>

NotPlaced == [k |-> 0, at |-> 0]

AdvStart(c) ==
  /\ acase = c /\ pushes = <<>> /\ supports = FALSE /\ beacons = 0 /\ inair = {}
  /\ clock = [started |-> FALSE, base_seq |-> 0, base |-> 0, ref_seq |-> 0, ref |-> 0]
  /\ follow = [started |-> FALSE, first |-> 0, short_seq |-> FALSE, k |-> 0, now |-> 0, offset |-> 0]
  /\ placed = NotPlaced
  /\ odd = [unknown |-> 0, answers |-> 0, raised |-> 0, answered |-> 0]

AdvInit == \E c \in AdvCases : AdvStart(c)

Now == IF pushes = <<>> THEN 0 ELSE pushes[Len(pushes)]

----------------------------------------------------------------------------
(* Sender *)

\* drain: which codec frames a packet.
AdvFramed == ~acase.start_main \/ supports

\* adv::build, for one of the packets pushed; ts is the wrapping timestamp of
\* the Advanced framing, at its time at.
AdvPacket(k, at, again) ==
  [k |-> k, ts |-> at % TsMod, adv |-> AdvFramed, retransmit |-> again]

AdvSend ==
  /\ Len(pushes) < MaxAdv /\ Cardinality(inair) < MaxAir
  /\ \E gap \in acase.gaps : pushes' = Append(pushes, Now + gap)
  /\ inair' = inair \cup {AdvPacket(Len(pushes'), pushes'[Len(pushes')], FALSE)}
  /\ placed' = NotPlaced
  /\ UNCHANGED <<acase, supports, beacons, clock, follow, odd>>

\* A NACK, which a started flow alone sends, is answered in the framing of the
\* moment.
AdvResend ==
  /\ acase.resends /\ follow.started /\ Cardinality(inair) < MaxAir
  /\ \E k \in follow.first .. Len(pushes) :
       inair' = inair \cup {AdvPacket(k, pushes[k], TRUE)}
  /\ placed' = NotPlaced
  /\ UNCHANGED <<acase, pushes, supports, beacons, clock, follow, odd>>

\* The receiver's keep-alive always carries the I bit.
AdvKeepalive ==
  /\ acase.start_main /\ beacons = 0 /\ beacons' = 1
  /\ UNCHANGED <<acase, pushes, supports, inair, clock, follow, placed, odd>>

\* take_peer_adv_cap: the upgrade is never taken back.
HearKeepalive ==
  /\ beacons = 1 /\ beacons' = 0 /\ supports' = TRUE
  /\ UNCHANGED <<acase, pushes, inair, clock, follow, placed, odd>>

AdvLose ==
  /\ \/ \E m \in inair : inair' = inair \ {m} /\ UNCHANGED beacons
     \/ beacons = 1 /\ beacons' = 0 /\ UNCHANGED inair
  /\ UNCHANGED <<acase, pushes, supports, clock, follow, placed, odd>>

----------------------------------------------------------------------------
(* Receiver *)

WidenUs(wire, ref) ==
  LET cand == (ref - (ref % TsMod)) + wire
  IN IF cand - ref > TsMod \div 2 THEN cand - TsMod
     ELSE IF cand - ref < -(TsMod \div 2) THEN cand + TsMod
     ELSE cand

\* Slip: the reference is the newest packet's time, wherever k lies.
ReferenceLast(k) == clock.ref

\* The newest time, moved by the average rate since the anchor.
Reference(k) ==
  IF clock.ref_seq > clock.base_seq
  THEN clock.ref + (k - clock.ref_seq)
                     * ((clock.ref - clock.base) \div (clock.ref_seq - clock.base_seq))
  ELSE clock.ref

\* adv_source_micros; times before zero are clamped, the reference is not.
AdvTicks(m) == IF clock.started THEN WidenUs(m.ts, Reference(m.k)) ELSE m.ts
SourceMicros(m) == IF AdvTicks(m) < 0 THEN 0 ELSE AdvTicks(m)

Tracked(m) ==
  IF ~clock.started
  THEN [started |-> TRUE, base_seq |-> m.k, base |-> AdvTicks(m), ref_seq |-> m.k, ref |-> AdvTicks(m)]
  ELSE IF m.k > clock.ref_seq THEN [clock EXCEPT !.ref_seq = m.k, !.ref = AdvTicks(m)]
  ELSE clock

\* Main framing carries a timestamp that does not wrap within a session.
TimeOf(m) == IF m.adv THEN SourceMicros(m) ELSE pushes[m.k]

\* recv_feed: a fresh packet starts the flow, and one of the other framing moves
\* its clock.
Relocks(m) == ~m.retransmit /\ (~follow.started \/ follow.short_seq = m.adv)

Followed(m) ==
  IF Relocks(m)
  THEN [started |-> TRUE, first |-> IF follow.started THEN follow.first ELSE m.k,
        short_seq |-> ~m.adv, k |-> m.k, now |-> Now, offset |-> Now - TimeOf(m)]
  ELSE follow

\* The network: a fresh packet is less than half a wrap under way, and so near
\* to the anchor are packets while the rate is not known.
InTime(m) ==
  /\ ~m.retransmit => Now - pushes[m.k] < TsMod \div 2
  /\ m.adv /\ clock.started /\ clock.ref_seq = clock.base_seq =>
       pushes[m.k] - pushes[clock.base_seq] \in 1 - TsMod \div 2 .. TsMod \div 2 - 1

\* A retransmission does not start a flow, and a packet before the first is
\* behind the cursor.
AdvDeliver ==
  \E m \in inair :
    /\ InTime(m)
    /\ inair' = inair \ {m}
    /\ clock' = IF m.adv THEN Tracked(m) ELSE clock
    /\ follow' = Followed(m)
    /\ placed' = IF follow'.started /\ m.k >= follow'.first
                 THEN [k |-> m.k, at |-> TimeOf(m) + follow'.offset] ELSE NotPlaced
    /\ UNCHANGED <<acase, pushes, supports, beacons, odd>>

----------------------------------------------------------------------------
(* Control messages of an index the other end does not know *)

SendUnknown ==
  /\ odd.raised < MaxUnknown
  /\ odd' = [odd EXCEPT !.raised = @ + 1, !.unknown = @ + 1]
  /\ UNCHANGED <<acase, pushes, supports, beacons, inair, clock, follow, placed>>

\* Slip: the response is a message nobody knows, too.
QueuesAny(kind) == TRUE

\* decode_control_msg: a response is recognised and never answered.
Queues(kind) == kind = "unknown"

\* send_unsupported answers what decoding has queued.
HearControl ==
  \E kind \in {"unknown", "answers"} :
    /\ odd[kind] > 0
    /\ odd' = IF Queues(kind)
              THEN [[odd EXCEPT ![kind] = @ - 1] EXCEPT !.answers = @ + 1, !.answered = @ + 1]
              ELSE [odd EXCEPT ![kind] = @ - 1]
    /\ UNCHANGED <<acase, pushes, supports, beacons, inair, clock, follow, placed>>

AdvNext == \/ AdvSend \/ AdvResend \/ AdvKeepalive \/ HearKeepalive \/ AdvLose
           \/ AdvDeliver \/ SendUnknown \/ HearControl

AdvSpec == AdvInit /\ [][AdvNext]_advVars

----------------------------------------------------------------------------
(* Properties *)

\* Every packet is placed in the epoch of the packet that set the flow's clock:
\* the extrapolated reference keeps "a retransmit's timestamp in the same epoch
\* as its original" (adv_source_micros) over any number of wraps, losses and
\* re-ordering, and a change of framing leaves no packet on the clock of the
\* other.  (Within it a time before the codec's zero is clamped to zero.)
SameEpoch ==
  placed # NotPlaced =>
    placed.at - (follow.now + pushes[placed.k] - pushes[follow.k])
      \in 1 - TsMod \div 2 .. TsMod \div 2 - 1

\* "An inbound Unsupported is logged at the host but never answered (a reply
\* would loop)": between two such ends every unknown message raises one answer.
AnsweredOnce == odd.answered + odd.unknown <= odd.raised
=============================================================================
