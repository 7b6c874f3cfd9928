----------------------------- MODULE ArqSystem ------------------------------
(***************************************************************************)
(* A sender flow and a receiver flow joined by a network, as the           *)
(* simulation fabric of rist-core/tests joins them: the outputs of either  *)
(* end (SendMedia, SendFeedback) become messages, a message is handed to   *)
(* the other end between MinDelay and MaxDelay later, in any order, or     *)
(* lost, or handed over twice.                                             *)
(*                                                                         *)
(* The receiver is FlowReceiver, whose actions are taken as they are; the  *)
(* sender is an instance S of FlowSender over the variables below.  A call *)
(* into either core runs to its end before anything else happens (Calm):   *)
(* the two ends share nothing but messages.                                *)
(***************************************************************************)
EXTENDS FlowReceiver

CONSTANTS
  HistorySize, Congestion, MaxRate, MaxNacks, SlowWindow, FastWindow,
  SenderSsrc, StartSeq,       \* see FlowSender
  NumPackets,                 \* payloads the application pushes
  PushGap,                    \* at most this long between two of them
  MinDelay, MaxDelay,         \* of a message that is not lost
  MaxLoss, MaxDup             \* messages lost, messages handed over twice

ASSUME SystemAssumption ==
  /\ SenderSsrc \in Nat /\ StartSeq \in SeqNum /\ HistorySize \in Nat \ {0}
  /\ NumPackets \in Nat /\ PushGap \in Nat
  /\ MinDelay \in Nat /\ MaxDelay \in Nat /\ MinDelay <= MaxDelay
  /\ MaxDelay <= PushGap
  /\ MaxLoss \in Nat /\ MaxDup \in Nat

VARIABLES
  history, sending, next_seq, data_bw, retry_bw, last_sample, echo_timer,
  todo, emitted, wire, sent, log,   \* the sender, see FlowSender
  media,                      \* [pkt, at]: packets on their way, sent at the instant at
  nacks,                      \* [missing, at]: NACKs on their way
  echoes,                     \* [to, request, stamp, at]: echo requests and responses
  losses, dups                \* messages lost and duplicated so far

S == INSTANCE FlowSender WITH
       Sizes <- {1}, Blocks <- {}, Requests <- Seq(SeqNum), MaxSent <- NumPackets

senderVars == <<history, sending, next_seq, data_bw, retry_bw, last_sample,
                echo_timer, todo, emitted, wire, sent, log>>
receiverVars == <<phase, ring, wheel, feedVars, streamVars, cursorVars, nackVars,
                  playVars, scaleVars, deltaVars>>
netVars == <<media, nacks, echoes, losses, dups>>
sysVars == <<now, senderVars, receiverVars, netVars>>

SysInit ==
  /\ Init /\ S!Init
  /\ media = {} /\ nacks = {} /\ echoes = {} /\ losses = 0 /\ dups = 0

Calm == phase = "idle" /\ S!Idle

-----------------------------------------------------------------------------
(* The sender's steps.  What its codec decodes to at the other end is the  *)
(* packet it was given, with the native framing of the Advanced profile.   *)

Decoded(w) == [seq |-> w.seq, source_time |-> w.source_time, ssrc |-> w.ssrc,
               retransmit |-> w.retransmit, short_seq |-> FALSE]

\* The first packet anchors the flow: the second is not pushed before that.
Push ==
  /\ Calm
  /\ sent = 1 => started
  /\ S!PushApp(1)
  /\ media' = media \cup {[pkt |-> Decoded(wire'), at |-> now]}
  /\ UNCHANGED <<receiverVars, nacks, echoes, losses, dups>>

Resend ==
  /\ S!Resend
  /\ media' = media \cup {[pkt |-> Decoded(wire'), at |-> now]}
  /\ UNCHANGED <<receiverVars, nacks, echoes, losses, dups>>

Refuse == S!Refuse /\ UNCHANGED <<receiverVars, netVars>>

Request(to) == [to |-> to, request |-> TRUE, stamp |-> FromTimestamp(now), at |-> now]

SenderEcho ==
  /\ Calm
  /\ S!EchoTimer
  /\ echoes' = echoes \cup {Request("receiver")}
  /\ UNCHANGED <<receiverVars, media, nacks, losses, dups>>

-----------------------------------------------------------------------------
(* The receiver's steps. *)

Playout == S!Idle /\ (PlayoutTimer \/ DeliverTurn)
           /\ UNCHANGED <<senderVars, netVars>>

NackPass ==
  /\ S!Idle
  /\ \/ (NackTimer \/ NackDrop \/ NackKeep) /\ UNCHANGED nacks
     \/ NackEnd /\ nacks' = IF batch = <<>> THEN nacks
                            ELSE nacks \cup {[missing |-> batch, at |-> now]}
  /\ UNCHANGED <<senderVars, media, echoes, losses, dups>>

ReceiverEcho ==
  /\ S!Idle
  /\ EchoTimer
  /\ echoes' = IF started THEN echoes \cup {Request("sender")} ELSE echoes
  /\ UNCHANGED <<senderVars, media, nacks, losses, dups>>

-----------------------------------------------------------------------------
(* The network *)

Arrived(m) == now >= m.at + MinDelay

\* recv_feed, whichever way it ends.
Fed(p) == FeedAnchor(p, 0) \/ FeedAccept(p, 0) \/ FeedDiscard(p)

\* The message leaves the network, or a copy of it stays.
Handed(m, net, net_next) ==
  \/ net_next = net \ {m} /\ UNCHANGED dups
  \/ net_next = net /\ dups < MaxDup /\ dups' = dups + 1

ArriveMedia ==
  /\ Calm
  /\ \E m \in media : Arrived(m) /\ Fed(m.pkt) /\ Handed(m, media, media')
  /\ UNCHANGED <<senderVars, nacks, echoes, losses>>

ArriveNack ==
  /\ Calm
  /\ \E m \in nacks : Arrived(m) /\ S!Nack(m.missing) /\ Handed(m, nacks, nacks')
  /\ UNCHANGED <<receiverVars, media, echoes, losses>>

Peer(end) == IF end = "sender" THEN "receiver" ELSE "sender"

\* feed_feedback(RttEchoRequest): answered at once, with the same stamp.
ArriveEchoRequest ==
  /\ Calm
  /\ \E m \in echoes :
       /\ m.request /\ Arrived(m)
       /\ echoes' = (echoes \ {m}) \cup {[m EXCEPT !.to = Peer(m.to), !.request = FALSE,
                                                   !.at = now]}
  /\ UNCHANGED <<now, senderVars, receiverVars, media, nacks, losses, dups>>

ArriveEchoResponse ==
  /\ Calm
  /\ \E m \in echoes :
       /\ ~m.request /\ Arrived(m)
       /\ echoes' = echoes \ {m}
       /\ LET sample == now - ToTimestamp(m.stamp) IN
            IF m.to = "receiver"
            THEN EchoResponse(sample) /\ UNCHANGED senderVars
            ELSE S!EchoResponse(sample) /\ UNCHANGED receiverVars
  /\ UNCHANGED <<media, nacks, losses, dups>>

\* Recoverable loss: neither the first nor the last packet, whose loss no later
\* packet would reveal.
Guarded(p) == ~p.retransmit /\ p.seq \in {StartSeq, WrappingAdd(StartSeq, NumPackets - 1)}

Lose ==
  /\ Calm
  /\ losses < MaxLoss /\ losses' = losses + 1
  /\ \/ \E m \in media : ~Guarded(m.pkt) /\ media' = media \ {m} /\ UNCHANGED nacks
     \/ \E m \in nacks : nacks' = nacks \ {m} /\ UNCHANGED media
  /\ UNCHANGED <<now, senderVars, receiverVars, echoes, dups>>

-----------------------------------------------------------------------------
LastPush == IF sent = 0 THEN 0 ELSE log[WrappingSub(next_seq, 1)].first_sent

\* Time passes, but no message is older than MaxDelay, no timer later than
\* MaxLate, and the application does not pause for longer than PushGap.
Tick ==
  /\ Calm
  /\ Advance
  /\ \A m \in media \cup nacks \cup echoes : now < m.at + MaxDelay
  /\ echo_timer # Off => now < echo_timer + MaxLate
  /\ sent < NumPackets => now < LastPush + PushGap
  /\ UNCHANGED <<senderVars, netVars>>

\* The model's clock has run out.
Finished == Calm /\ now = MaxNow /\ UNCHANGED sysVars

SysNext ==
  \/ Push \/ Resend \/ Refuse \/ SenderEcho
  \/ Playout \/ NackPass \/ ReceiverEcho
  \/ ArriveMedia \/ ArriveNack \/ ArriveEchoRequest \/ ArriveEchoResponse \/ Lose
  \/ Tick \/ Finished

SysSpec == SysInit /\ [][SysNext]_sysVars

\* Both hosts and the network run on.  The bounds in Tick leave nothing else to
\* assume: what is due happens before time passes.
SysFairSpec == SysSpec /\ WF_sysVars(SysNext)

-----------------------------------------------------------------------------
(* Properties *)

\* "Completeness under recoverable loss", with "no duplicate delivered" and "in
\* order": the payloads the application pushed come out, every one, once and in
\* order, as long as no more than MaxLoss messages are lost.
Reliable == INSTANCE ReliableStream WITH pushed <- sent, received <- event.pos + 1
Complete == Reliable!Spec

\* "Nothing past its deadline": a payload comes out one recovery buffer after the
\* instant it was pushed, plus the delay of the packet that anchored the flow,
\* whether it arrived at once or was recovered by a retransmission.
ConstantLatency ==
  [][event' # event /\ event'.pos >= 0 =>
       LET due == log[WrappingAdd(StartSeq, event'.pos)].first_sent
                    + clock.offset + recovery_buffer
       IN now \in due .. due + MaxLate]_sysVars

\* No needless retransmission: a sender whose packets were reordered by less than
\* the reorder buffer, but not lost, is not asked for any.
NothingResent == losses = 0 => \A s \in SeqNum : log[s].resends = 0

\* The application gets the last payload in the end.
AllOut == <>(event.pos = NumPackets - 1)
=============================================================================
