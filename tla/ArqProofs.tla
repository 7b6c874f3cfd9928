------------------------------ MODULE ArqProofs -------------------------------
(***************************************************************************)
(* The two ends joined by a network: what is proved of either end alone    *)
(* holds in the system, because whatever the network carries is input that *)
(* the end accepts.                                                        *)
(***************************************************************************)
EXTENDS ArqSystem, FlowReceiverProofs

USE HalfAssumption, ClockAssumption, SystemAssumption

\* What one end hands to the other: the packets the sender's codec decodes to.
Decodes == [seq: SeqNum, source_time: Nat, ssrc: Nat, retransmit: BOOLEAN, short_seq: BOOLEAN]

\* FlowReceiver leaves the inputs of a receiver to its constants, which SysSpec
\* does not read: here they stand for every packet, path and sample there is.
AnyInput == Packets = Decodes /\ 0 \in Paths /\ RttSamples = Int

\* The sender's part in what travels: the sequences it still visits, the one it
\* pushes next and the timestamps it retains.
SenderTyped ==
  /\ todo \in Seq(SeqNum) /\ next_seq \in SeqNum /\ sent \in Nat
  /\ history \in [S!Index -> S!Slots]

Echoes == [to: {"sender", "receiver"}, request: BOOLEAN, stamp: Nat, at: Nat]

\* Every message on its way is one that the other end's codec can decode.
Carried ==
  /\ \A m \in media : m.pkt \in Decodes
  /\ \A m \in nacks : m.missing \in Seq(SeqNum)
  /\ echoes \subseteq Echoes

SysInv == TypeOK /\ SenderTyped /\ Carried

-----------------------------------------------------------------------------
(* The sender's steps *)

\* A timestamp becomes an NTP-64 value.
LEMMA StampType == ASSUME NEW t \in Nat PROVE FromTimestamp(t) \in Nat
  <1>1. t \div UsPerSecond \in Nat /\ t % UsPerSecond \in Nat BY DivNat
  <1>2. (t \div UsPerSecond) % SecMod \in Nat BY <1>1
  <1>3. ((t \div UsPerSecond) % SecMod) * FracMod \in Nat BY <1>2, ProductNat
  <1>4. (t % UsPerSecond) * FracMod \in Nat BY <1>1, ProductNat
  <1>5. UsPerSecond \div 2 \in Nat BY DivNat
  <1>6. ((t % UsPerSecond) * FracMod + UsPerSecond \div 2) \div UsPerSecond \in Nat
    BY <1>4, <1>5, DivNat
  <1> QED BY <1>3, <1>6 DEF FromTimestamp

LEMMA HistoryIndex == ASSUME NEW s \in SeqNum PROVE S!Idx(s) \in S!Index
  <1>1. s \in Nat BY DEF SeqNum
  <1> QED BY <1>1, ModRange DEF S!Idx, S!Index

\* The head of a NACK that is being served, and the rest of it.
LEMMA TodoType ==
  ASSUME SenderTyped, ~S!Idle
  PROVE  Head(todo) \in SeqNum /\ Tail(todo) \in Seq(SeqNum)
  BY HeadTailProperties DEF SenderTyped, S!Idle

\* A first transmission: what is retained and what leaves.
LEMMA PushTyped ==
  ASSUME TypeOK, SenderTyped, S!PushApp(1)
  PROVE  SenderTyped' /\ Decoded(wire') \in Decodes /\ now' = now
  <1> DEFINE slot == [seq |-> next_seq, source_time |-> FromTimestamp(now), payload |-> sent',
                      bytes |-> 1, transmit_count |-> 0, retried |-> FALSE, last_retry |-> 0]
  <1>1. now \in Nat /\ FromTimestamp(now) \in Nat BY StampType DEF TypeOK
  <1>2. next_seq \in SeqNum /\ sent' \in Nat /\ todo' = todo /\ now' = now
    BY DEF SenderTyped, S!PushApp, S!FirstSend, S!serviceVars
  <1>3. next_seq' \in SeqNum
    <2>1. next_seq' = WrappingAdd(next_seq, 1)
      BY DEF S!PushApp, S!FirstSend, S!WrappingAdd, WrappingAdd, S!SeqSize, SeqSize
    <2> QED BY <1>2, <2>1 DEF WrappingAdd, SeqNum, SeqSize
  <1>4. history' \in [S!Index -> S!Slots]
    <2>1. slot \in S!Slots
      BY <1>1, <1>2 DEF S!Slots, S!SeqNum, SeqNum, S!SeqSize, SeqSize
    <2>2. history' = history \/ history' = [history EXCEPT ![S!Idx(next_seq)] = slot]
      BY DEF S!PushApp, S!FirstSend, S!FromTimestamp, FromTimestamp
    <2> HIDE DEF slot
    <2> QED BY <2>1, <2>2 DEF SenderTyped
  <1>5. Decoded(wire') \in Decodes
    <2>1. wire' = [seq |-> next_seq, source_time |-> FromTimestamp(now), payload |-> sent',
                   ssrc |-> SenderSsrc, retransmit |-> FALSE]
      BY DEF S!PushApp, S!FirstSend, S!Packet, S!FromTimestamp, FromTimestamp
    <2> QED BY <1>1, <1>2, <2>1 DEF Decoded, Decodes
  <1> QED BY <1>2, <1>3, <1>4, <1>5 DEF SenderTyped

\* The slot of a packet that was re-sent.
LEMMA RetriedType ==
  ASSUME NEW r \in S!Slots, NEW t \in Nat
  PROVE  [r EXCEPT !.transmit_count = @ + 1, !.retried = TRUE, !.last_retry = t] \in S!Slots
  <1>1. r.transmit_count + 1 \in Nat BY DEF S!Slots
  <1> QED BY ONLY <1>1, r \in S!Slots, t \in Nat DEF S!Slots

\* A retransmission repeats the timestamp the history retains.
LEMMA ResendTyped ==
  ASSUME TypeOK, SenderTyped, S!Resend
  PROVE  SenderTyped' /\ Decoded(wire') \in Decodes /\ now' = now
  <1> DEFINE s == Head(todo)
             i == S!Idx(s)
             slot == [history[i] EXCEPT !.transmit_count = @ + 1, !.retried = TRUE,
                                        !.last_retry = now]
  <1>1. s \in SeqNum /\ Tail(todo) \in Seq(SeqNum)
    BY TodoType DEF S!Resend
  <1>2. i \in S!Index /\ history[i] \in S!Slots
    BY <1>1, HistoryIndex DEF SenderTyped
  <1>3. history[i].seq = s
    BY DEF S!Resend, S!Resendable, S!Retained, S!Slot
  <1>4. wire' = [seq |-> s, source_time |-> history[i].source_time,
                 payload |-> history[i].payload, ssrc |-> SenderSsrc, retransmit |-> TRUE]
    BY DEF S!Resend, S!Packet, S!Slot
  <1>5. history[i].source_time \in Nat BY <1>2 DEF S!Slots
  <1>6. Decoded(wire') \in Decodes BY <1>1, <1>4, <1>5 DEF Decoded, Decodes
  <1>7. now' = now /\ next_seq' = next_seq /\ sent' = sent
    BY DEF S!Resend, S!pushVars
  <1>8. todo' \in Seq(SeqNum)
    <2>1. todo' = <<>> \/ todo' = Tail(todo) BY DEF S!Resend
    <2> QED BY <1>1, <2>1, EmptySeq
  <1>9. history' \in [S!Index -> S!Slots]
    <2>1. history' = [history EXCEPT ![i] = slot] BY <1>2 DEF S!Resend, SenderTyped
    <2>2. now \in Nat BY DEF TypeOK
    <2>3. slot \in S!Slots
      BY <1>2, <2>2, RetriedType
    <2> HIDE DEF slot
    <2> QED BY <1>2, <2>1, <2>3 DEF SenderTyped
  <1> QED BY <1>6, <1>7, <1>8, <1>9 DEF SenderTyped

\* Everything else the sender does.
LEMMA ServiceTyped ==
  ASSUME SenderTyped,
         \/ S!Refuse
         \/ \E missing_seqs \in Seq(SeqNum) : S!Nack(missing_seqs)
         \/ \E sample \in Int : S!EchoResponse(sample)
         \/ S!EchoTimer
  PROVE  SenderTyped' /\ now' = now
  <1>1. CASE S!Refuse
    BY <1>1, TodoType DEF S!Refuse, S!pushVars, SenderTyped
  <1>2. CASE \E missing_seqs \in Seq(SeqNum) : S!Nack(missing_seqs)
    BY <1>2 DEF S!Nack, S!pushVars, SenderTyped
  <1>3. CASE \E sample \in Int : S!EchoResponse(sample)
    BY <1>3 DEF S!EchoResponse, S!pushVars, S!serviceVars, SenderTyped
  <1>4. CASE S!EchoTimer
    BY <1>4 DEF S!EchoTimer, S!serviceVars, SenderTyped
  <1> QED BY <1>1, <1>2, <1>3, <1>4

LEMMA SenderStill == ASSUME SenderTyped, UNCHANGED senderVars PROVE SenderTyped'
  BY DEF senderVars, SenderTyped

-----------------------------------------------------------------------------
(* The receiver's steps *)

\* No turn and no timer of the receiver moves the clock.
LEMMA ReceiverInstant ==
  ASSUME \/ PlayoutTimer \/ DeliverTurn \/ NackTimer \/ NackTurn \/ EchoTimer
         \/ \E p \in Decodes : Fed(p)
         \/ \E sample \in Int : EchoResponse(sample)
  PROVE  now' = now
  <1>1. CASE PlayoutTimer \/ NackTimer \/ EchoTimer
    BY <1>1 DEF PlayoutTimer, NackTimer, EchoTimer
  <1>2. CASE DeliverTurn
    BY <1>2 DEF DeliverTurn, EmitDeliver, SkipHole, SkipLapped, SkipTo, EndDeliver
  <1>3. CASE NackTurn
    BY <1>3 DEF NackTurn, NackDrop, NackKeep, NackEnd
  <1>4. CASE \E p \in Decodes : Fed(p)
    BY <1>4 DEF Fed, FeedAnchor, FeedAccept, FeedDiscard
  <1>5. CASE \E sample \in Int : EchoResponse(sample)
    BY <1>5 DEF EchoResponse
  <1> QED BY <1>1, <1>2, <1>3, <1>4, <1>5

LEMMA ReceiverStill ==
  ASSUME UNCHANGED receiverVars, now' = now PROVE UNCHANGED vars
  BY DEF receiverVars, vars

LEMMA SenderUnmoved ==
  ASSUME UNCHANGED senderVars, now' = now PROVE UNCHANGED S!vars
  BY DEF senderVars, S!vars, S!rateVars, S!serviceVars, S!pushVars

-----------------------------------------------------------------------------
(* What a step of the system is to either end *)

\* What arrives is of the kinds the ends accept.
LEMMA CarriedType ==
  ASSUME SysInv
  PROVE  /\ \A m \in media : m.pkt \in Decodes
         /\ \A m \in nacks : m.missing \in Seq(SeqNum)
         /\ \A m \in echoes : m.stamp \in Nat /\ now - ToTimestamp(m.stamp) \in Int
  <1>1. now \in Nat BY DEF SysInv, TypeOK
  <1>2. \A m \in echoes : m.stamp \in Nat BY DEF SysInv, Carried, Echoes
  <1>3. \A m \in echoes : now - ToTimestamp(m.stamp) \in Int
    <2> SUFFICES ASSUME NEW m \in echoes PROVE now - ToTimestamp(m.stamp) \in Int
      OBVIOUS
    <2>1. ToTimestamp(m.stamp) \in Nat BY <1>2, ToTimestampType
    <2> QED BY ONLY <1>1, <2>1
  <1> QED BY <1>2, <1>3 DEF SysInv, Carried

\* Either the receiver stands still, or this is a step of its own; and so for
\* the sender, whose part keeps its type.
LEMMA EndsStep ==
  ASSUME SysInv, AnyInput, [SysNext]_sysVars
  PROVE  [Next]_vars /\ [S!Next]_(S!vars) /\ SenderTyped'
  <1>0. TypeOK /\ SenderTyped BY DEF SysInv
  <1>1. CASE Push
    <2>1. S!PushApp(1) /\ UNCHANGED receiverVars BY <1>1 DEF Push
    <2>2. SenderTyped' /\ now' = now BY <1>0, <2>1, PushTyped
    <2>3. S!Next BY <2>1 DEF S!Next, S!Push
    <2> QED BY <2>1, <2>2, <2>3, ReceiverStill
  <1>2. CASE Resend
    <2>1. S!Resend /\ UNCHANGED receiverVars BY <1>2 DEF Resend
    <2>2. SenderTyped' /\ now' = now BY <1>0, <2>1, ResendTyped
    <2>3. S!Next BY <2>1 DEF S!Next, S!Service
    <2> QED BY <2>1, <2>2, <2>3, ReceiverStill
  <1>3. CASE Refuse
    <2>1. S!Refuse /\ UNCHANGED receiverVars BY <1>3 DEF Refuse
    <2>2. SenderTyped' /\ now' = now BY <1>0, <2>1, ServiceTyped
    <2>3. S!Next BY <2>1 DEF S!Next, S!Service
    <2> QED BY <2>1, <2>2, <2>3, ReceiverStill
  <1>4. CASE SenderEcho
    <2>1. S!EchoTimer /\ UNCHANGED receiverVars BY <1>4 DEF SenderEcho
    <2>2. SenderTyped' /\ now' = now BY <1>0, <2>1, ServiceTyped
    <2>3. S!Next BY <2>1 DEF S!Next
    <2> QED BY <2>1, <2>2, <2>3, ReceiverStill
  <1>5. CASE Playout \/ NackPass \/ ReceiverEcho
    <2>1. /\ UNCHANGED senderVars
          /\ PlayoutTimer \/ DeliverTurn \/ NackTimer \/ NackTurn \/ EchoTimer
      BY <1>5 DEF Playout, NackPass, ReceiverEcho, NackTurn
    <2>2. Next BY <2>1 DEF Next
    <2>3. now' = now BY <2>1, ReceiverInstant
    <2> QED BY <1>0, <2>1, <2>2, <2>3, SenderUnmoved, SenderStill
  <1>6. CASE ArriveMedia
    <2>1. UNCHANGED senderVars /\ \E p \in Decodes : Fed(p)
      BY <1>6, CarriedType DEF ArriveMedia
    <2>2. Next BY <2>1 DEF Next, Feed, Fed, AnyInput
    <2>3. now' = now BY <2>1, ReceiverInstant
    <2> QED BY <1>0, <2>1, <2>2, <2>3, SenderUnmoved, SenderStill
  <1>7. CASE ArriveNack
    <2>1. UNCHANGED receiverVars /\ \E missing_seqs \in Seq(SeqNum) : S!Nack(missing_seqs)
      BY <1>7, CarriedType DEF ArriveNack
    <2>2. SenderTyped' /\ now' = now BY <1>0, <2>1, ServiceTyped
    <2>3. S!Next BY <2>1 DEF S!Next
    <2> QED BY <2>1, <2>2, <2>3, ReceiverStill
  <1>8. CASE ArriveEchoRequest \/ Lose
    <2>1. UNCHANGED senderVars /\ UNCHANGED receiverVars /\ now' = now
      BY <1>8 DEF ArriveEchoRequest, Lose
    <2> QED BY <1>0, <2>1, ReceiverStill, SenderUnmoved, SenderStill
  <1>9. CASE ArriveEchoResponse
    <2>1. \E sample \in Int : \/ EchoResponse(sample) /\ UNCHANGED senderVars
                              \/ S!EchoResponse(sample) /\ UNCHANGED receiverVars
      BY <1>9, CarriedType DEF ArriveEchoResponse
    <2>2. CASE \E sample \in Int : EchoResponse(sample) /\ UNCHANGED senderVars
      <3>1. Next BY <2>2 DEF Next, AnyInput
      <3>2. now' = now BY <2>2, ReceiverInstant
      <3> QED BY <1>0, <2>2, <3>1, <3>2, SenderUnmoved, SenderStill
    <2>3. CASE \E sample \in Int : S!EchoResponse(sample) /\ UNCHANGED receiverVars
      <3>1. SenderTyped' /\ now' = now BY <1>0, <2>3, ServiceTyped
      <3>2. S!Next BY <2>3 DEF S!Next, AnyInput
      <3> QED BY <2>3, <3>1, <3>2, ReceiverStill
    <2> QED BY <2>1, <2>2, <2>3
  <1>10. CASE Tick
    <2>1. Advance /\ S!Idle /\ UNCHANGED senderVars BY <1>10 DEF Tick, Calm
    <2>2. Next BY <2>1 DEF Next
    <2>3. S!Advance
      BY <2>1 DEF Advance, S!Advance, senderVars, S!rateVars, S!serviceVars, S!pushVars
    <2>4. S!Next BY <2>3 DEF S!Next
    <2> QED BY <1>0, <2>1, <2>2, <2>4, SenderStill
  <1>11. CASE UNCHANGED sysVars
    <2>1. UNCHANGED senderVars /\ UNCHANGED receiverVars /\ now' = now
      BY <1>11 DEF sysVars
    <2> QED BY <1>0, <2>1, ReceiverStill, SenderUnmoved, SenderStill
  <1> QED BY <1>1, <1>2, <1>3, <1>4, <1>5, <1>6, <1>7, <1>8, <1>9, <1>10, <1>11
          DEF SysNext, Finished

\* Neither end puts anything on the network that the other does not accept.
LEMMA CarriedStep ==
  ASSUME SysInv, [SysNext]_sysVars PROVE Carried'
  <1>0. /\ TypeOK /\ SenderTyped /\ Carried
        /\ batch \in Seq(SeqNum) /\ FromTimestamp(now) \in Nat
    BY StampType DEF SysInv, TypeOK
  <1>1. CASE Push
    <2>1. Decoded(wire') \in Decodes BY <1>0, <1>1, PushTyped DEF Push
    <2> QED BY <1>0, <1>1, <2>1 DEF Push, Carried
  <1>2. CASE Resend
    <2>1. Decoded(wire') \in Decodes BY <1>0, <1>2, ResendTyped DEF Resend
    <2>2. media' = media \cup {[pkt |-> Decoded(wire'), at |-> now]} /\ UNCHANGED <<nacks, echoes>>
      BY <1>2 DEF Resend
    <2> QED BY <1>0, <2>1, <2>2 DEF Carried
  <1>3. CASE SenderEcho \/ ReceiverEcho
    <2>1. UNCHANGED <<media, nacks>>
          /\ echoes' \subseteq echoes \cup {Request("sender"), Request("receiver")}
      BY <1>3 DEF SenderEcho, ReceiverEcho
    <2>2. Request("sender") \in Echoes /\ Request("receiver") \in Echoes
      BY <1>0 DEF Request, Echoes, TypeOK
    <2> QED BY <1>0, <2>1, <2>2 DEF Carried
  <1>4. CASE Refuse \/ Playout \/ Tick
    BY <1>0, <1>4 DEF Refuse, Playout, Tick, netVars, Carried
  <1>5. CASE NackPass
    <2>1. UNCHANGED <<media, echoes>>
          /\ nacks' \subseteq nacks \cup {[missing |-> batch, at |-> now]}
      BY <1>5 DEF NackPass
    <2> QED BY <1>0, <2>1 DEF Carried
  <1>6. CASE ArriveMedia \/ ArriveNack \/ ArriveEchoResponse \/ Lose
    <2>1. media' \subseteq media /\ nacks' \subseteq nacks /\ echoes' \subseteq echoes
      BY <1>6 DEF ArriveMedia, ArriveNack, ArriveEchoResponse, Lose, Handed
    <2> QED BY <1>0, <2>1 DEF Carried
  <1>7. CASE ArriveEchoRequest
    <2>1. PICK m \in echoes : echoes' = (echoes \ {m}) \cup {[m EXCEPT !.to = Peer(m.to), !.request = FALSE, !.at = now]}
      BY <1>7 DEF ArriveEchoRequest
    <2>2. [m EXCEPT !.to = Peer(m.to), !.request = FALSE, !.at = now] \in Echoes
      <3>1. m \in Echoes /\ now \in Nat BY <1>0 DEF Carried, TypeOK
      <3>2. Peer(m.to) \in {"sender", "receiver"} BY DEF Peer
      <3> QED BY ONLY <3>1, <3>2 DEF Echoes
    <2>3. UNCHANGED <<media, nacks>> BY <1>7 DEF ArriveEchoRequest
    <2> QED BY <1>0, <2>1, <2>2, <2>3 DEF Carried
  <1>8. CASE UNCHANGED sysVars
    BY <1>0, <1>8 DEF sysVars, netVars, Carried
  <1> QED BY <1>1, <1>2, <1>3, <1>4, <1>5, <1>6, <1>7, <1>8 DEF SysNext, Finished

LEMMA SysStep ==
  ASSUME SysInv, AnyInput, [SysNext]_sysVars PROVE SysInv'
  <1>1. TypeOK' BY EndsStep, TypeStep DEF SysInv
  <1>2. SenderTyped' BY EndsStep
  <1>3. Carried' BY CarriedStep
  <1> QED BY <1>1, <1>2, <1>3 DEF SysInv

LEMMA SysInitial == SysInit => SysInv /\ Init /\ S!Init
  <1> SUFFICES ASSUME SysInit PROVE SysInv /\ Init /\ S!Init OBVIOUS
  <1>1. Init /\ S!Init /\ Carried
    BY DEF SysInit, Carried
  <1>2. TypeOK BY <1>1, InitType
  <1>3. SenderTyped
    <2>1. /\ todo = <<>> /\ next_seq = StartSeq /\ sent = 0
          /\ history = [i \in S!Index |-> S!NoSlot]
      BY <1>1 DEF S!Init
    <2>2. S!NoSlot \in S!Slots
      BY DEF S!NoSlot, S!Slots
    <2> QED BY <2>1, <2>2, EmptySeq DEF SenderTyped
  <1> QED BY <1>1, <1>2, <1>3 DEF SysInv

LEMMA SysHolds == ASSUME AnyInput PROVE SysSpec => []SysInv
  <1>1. SysInit => SysInv BY SysInitial
  <1>2. SysInv /\ [SysNext]_sysVars => SysInv' BY SysStep
  <1> QED BY <1>1, <1>2, PTL DEF SysSpec

-----------------------------------------------------------------------------
(* Either end of the system is the component of the other modules *)

\* The receiver of the system behaves as FlowReceiver says, whatever the network
\* loses, delays, re-orders and repeats: a packet of a real sender, a response to
\* a real request and nothing else is an input that recv_feed is specified for.
THEOREM ReceiverInSystem == ASSUME AnyInput PROVE SysSpec => Spec
  <1>1. SysInit => Init BY SysInitial
  <1>2. SysInv /\ [SysNext]_sysVars => [Next]_vars BY EndsStep
  <1> QED BY <1>1, <1>2, SysHolds, PTL DEF SysSpec, Spec

\* And the sender as FlowSender says: every NACK it serves lists sequence numbers
\* and every echo response yields a sample, negative ones too.
THEOREM SenderInSystem == ASSUME AnyInput PROVE SysSpec => S!Spec
  <1>1. SysInit => S!Init BY SysInitial
  <1>2. SysInv /\ [SysNext]_sysVars => [S!Next]_(S!vars) BY EndsStep
  <1> QED BY <1>1, <1>2, SysHolds, PTL DEF SysSpec, S!Spec

\* So the receiver's guarantees are the system's: the delivery window is intact,
\* a buffered packet and a queued hole keep their timers, the missing queue and
\* the token bucket stay bounded, and what comes out is the stream of
\* PlayoutStream, whatever happens on the way.
THEOREM SystemReceiver ==
  ASSUME AnyInput
  PROVE  /\ SysSpec => []CursorWindow /\ []TimersArmed /\ []ResourcesBounded
         /\ SysSpec => PlayoutSpec
  BY ReceiverInSystem, WindowHolds, TimersAlwaysArmed, ResourcesHold, ImplementsStream, PTL
=============================================================================
