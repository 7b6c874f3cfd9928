------------------------------ MODULE HostProofs ------------------------------
(***************************************************************************)
(* The host around the flows: what the channels of a session promise the   *)
(* application, when a session may time out, what keeps the flows of a     *)
(* shared socket apart, how a bonded session judges its paths and picks    *)
(* those that media and feedback take, and when source adaptation asks for *)
(* a higher rate.                                                          *)
(***************************************************************************)
EXTENDS Bonded, Pump, Multi, Adapt, Integers, FiniteSetTheorems, SequenceTheorems, TLAPS

-----------------------------------------------------------------------------
(* A session's tasks and channels: types.                                  *)

Packets == {"media", "control"}
Peer     == [known : BOOLEAN, seen : BOOLEAN, silent : Nat]
Rebinds  == [attempts : Nat, ago : Nat]
Blocks   == [queued : Nat, offered : Nat, sent : Nat]
Quiet    == [age : Nat, fresh : BOOLEAN]

PumpTyped ==
  /\ handle \in {"open", "closed", "dropped"}
  /\ task \in {"running", "delivering", "ended", "aborted"}
  /\ reader \in {"reading", "parked", "exited"}
  /\ sock \in [queue : Seq(Packets), ok : BOOLEAN]
  /\ inbound \in Seq(Packets) /\ parked \in Seq(Packets) /\ Len(parked) <= 1
  /\ appIn \in Seq(Nat) /\ onWire \in Seq(Nat) /\ accepted \in Nat
  /\ dataOut \in Seq(Nat) /\ events \in Seq(Nat) /\ held \in Seq(Nat) /\ got \in Seq(Nat)
  /\ fed \in Nat /\ peer \in Peer /\ rebinds \in Rebinds
  /\ tick \in BOOLEAN /\ stalled \in BOOLEAN
  /\ quiet \in Quiet /\ blocks \in Blocks
  /\ PumpTypeOK

LEMMA HeardType ==
  ASSUME NEW p \in Peer, NEW d
  PROVE  Heard(p, d) \in Peer /\ ObservePeer(p) \in Peer
         /\ Heard(p, d).silent = 0 /\ ObservePeer(p).silent = 0
  BY DEF Heard, ObservePeer, Peer

LEMMA Assoc == \A a, b, c \in Seq(Nat) : (a \o b) \o c = a \o (b \o c)
  BY ConcatAssociative, SMTT(30)

LEMMA ConcatType == \A a, b \in Seq(Nat) : a \o b \in Seq(Nat)
  BY ConcatProperties

LEMMA TailType ==
  ASSUME NEW S, NEW s \in Seq(S), s # <<>>
  PROVE  Head(s) \in S /\ Tail(s) \in Seq(S) /\ Len(Tail(s)) = Len(s) - 1 /\ Len(s) \in Nat
         /\ s = <<Head(s)>> \o Tail(s)
  <1>1. /\ Head(s) \in S /\ Tail(s) \in Seq(S) /\ Len(Tail(s)) = Len(s) - 1 /\ Len(s) \in Nat
        /\ \A i \in 1 .. Len(Tail(s)) : Tail(s)[i] = s[i + 1]
    BY HeadTailProperties, LenProperties
  <1>2. <<Head(s)>> \in Seq(S) /\ Len(<<Head(s)>>) = 1 /\ <<Head(s)>>[1] = s[1]
    BY <1>1
  <1>3. /\ <<Head(s)>> \o Tail(s) \in Seq(S) /\ Len(<<Head(s)>> \o Tail(s)) = Len(s)
        /\ \A i \in 1 .. Len(s) : (<<Head(s)>> \o Tail(s))[i] = IF i <= 1 THEN <<Head(s)>>[i] ELSE Tail(s)[i - 1]
    BY <1>1, <1>2, ConcatProperties
  <1>4. \A i \in 1 .. Len(s) : (<<Head(s)>> \o Tail(s))[i] = s[i]
    BY <1>1, <1>2, <1>3
  <1> QED BY <1>1, <1>3, <1>4, SeqEqual

\* A drain moves events to the channel without reordering or losing any, and
\* fills the channel no further than its capacity.
LEMMA HandOverKeeps ==
  ASSUME NEW evs \in Seq(Nat), NEW out \in Seq(Nat), Len(out) <= DataCap
  PROVE  LET h == HandOver(evs, out) IN
         /\ h.events \in Seq(Nat) /\ h.out \in Seq(Nat) /\ Len(h.out) <= DataCap
         /\ handle = "open" => h.out \o h.events = out \o evs
  <1>0. DataCap \in Nat /\ Len(out) \in Nat /\ Len(evs) \in Nat
    BY PumpAssumption, LenProperties
  <1>1. CASE handle # "open"
    BY <1>1, TailType DEF HandOver
  <1>2. CASE handle = "open"
    <2> DEFINE n == Len(evs)
               r == DataCap - Len(out)
               k == IF n < r THEN n ELSE r
    <2>1. k \in 0 .. n /\ Len(out) + k <= DataCap
      BY <1>0
    <2> HIDE DEF k
    <2>3. \A i \in 1 .. n : evs[i] \in Nat
      BY ElementOfSeq
    <2>4. /\ SubSeq(evs, 1, k) \in Seq(Nat) /\ SubSeq(evs, k + 1, n) \in Seq(Nat)
          /\ Len(SubSeq(evs, 1, k)) = k
      <3>1. /\ SubSeq(evs, 1, k) \in Seq(Nat)
            /\ Len(SubSeq(evs, 1, k)) = IF 1 <= k THEN k - 1 + 1 ELSE 0
        BY <1>0, <2>1, <2>3, SubSeqProperties
      <3>2. SubSeq(evs, k + 1, n) \in Seq(Nat)
        BY <1>0, <2>1, <2>3, SubSeqProperties
      <3> QED BY <2>1, <3>1, <3>2
    <2>5. /\ out \o SubSeq(evs, 1, k) \in Seq(Nat)
          /\ Len(out \o SubSeq(evs, 1, k)) = Len(out) + k
      BY <2>4, ConcatProperties
    <2>6. SubSeq(evs, 1, k) \o SubSeq(evs, k + 1, n) = evs
      <3>1. SubSeq(evs, 1, k) \o SubSeq(evs, k + 1, n) = SubSeq(evs, 1, n)
        <4>1. 1 \in 1 .. Len(evs) + 1 /\ k \in 1 - 1 .. Len(evs) /\ n \in k .. Len(evs)
          BY <1>0, <2>1
        <4> QED BY ONLY evs \in Seq(Nat), <4>1, ConcatAdjacentSubSeq
      <3> QED BY <3>1, SubSeqFull
    <2>7. (out \o SubSeq(evs, 1, k)) \o SubSeq(evs, k + 1, n)
            = out \o (SubSeq(evs, 1, k) \o SubSeq(evs, k + 1, n))
      <3> DEFINE a == SubSeq(evs, 1, k)
                 b == SubSeq(evs, k + 1, n)
      <3>1. a \in Seq(Nat) /\ b \in Seq(Nat)
        BY <2>4
      <3> HIDE DEF a, b
      <3>2. (out \o a) \o b = out \o (a \o b)
        BY <3>1, Assoc, Zenon
      <3> QED BY <3>2 DEF a, b
    <2>8. (out \o SubSeq(evs, 1, k)) \o SubSeq(evs, k + 1, n) = out \o evs
      BY <2>6, <2>7
    <2>9. Len(out \o SubSeq(evs, 1, k)) <= DataCap
      BY <2>1, <2>5
    <2>10. /\ HandOver(evs, out).events = SubSeq(evs, k + 1, n)
           /\ HandOver(evs, out).out = out \o SubSeq(evs, 1, k)
      BY <1>2 DEF HandOver, k
    <2> QED BY <2>4, <2>5, <2>8, <2>9, <2>10
  <1> QED BY <1>1, <1>2

LEMMA DrainType ==
  ASSUME NEW evs \in Seq(Nat), dataOut \in Seq(Nat), Len(dataOut) <= DataCap, Drain(evs)
  PROVE  /\ events' \in Seq(Nat) /\ dataOut' \in Seq(Nat) /\ Len(dataOut') <= DataCap
         /\ task' \in {"running", "delivering"}
         /\ handle = "open" => dataOut' \o events' = dataOut \o evs
  BY HandOverKeeps DEF Drain

LEMMA NeverType == Never \in Nat /\ Never > SessionTimeout
  <1>1. SessionTimeout \in Nat /\ RebindSilence \in Nat /\ MaxRebinds \in Nat /\ RebindSilence >= SessionTimeout
    BY PumpAssumption
  <1>2. MaxRebinds * SessionTimeout \in Nat
    BY <1>1
  <1> QED BY <1>1, <1>2 DEF Never

LEMMA UpType ==
  ASSUME NEW n \in Nat, NEW top \in Nat
  PROVE  Up(n, top) \in Nat /\ Up(n, top) >= n
  BY DEF Up

\* What remains of the blocks when their channel is dropped is in bounds.
LEMMA BlocksDroppedType ==
  ASSUME blocks \in Blocks, blocks.queued + blocks.sent <= blocks.offered, BlocksDropped
  PROVE  /\ blocks' \in Blocks /\ blocks'.queued <= BlockCap
         /\ blocks'.queued + blocks'.sent <= blocks'.offered
  BY PumpAssumption DEF Blocks, BlocksDropped

LEMMA InitPumpTyped == PumpInit => PumpTyped
  <1> SUFFICES ASSUME NEW s \in Sessions, PumpStart(s) PROVE PumpTyped
    BY DEF PumpInit
  <1>1. <<>> \in Seq(Packets) /\ <<>> \in Seq(Nat) /\ Len(<<>>) = 0
    BY EmptySeq
  <1>2. s.caller \in BOOLEAN /\ Hold \in Nat /\ SessionTimeout \in Nat /\ RebindSilence \in Nat /\ MaxRebinds \in Nat
        /\ InboundCap \in Nat /\ DataCap \in Nat /\ AppCap \in Nat /\ BlockCap \in Nat
    BY PumpAssumption
  <1>3. Never \in Nat
    BY NeverType
  <1>4. PumpTypeOK
    BY <1>1, <1>2 DEF PumpStart, PumpTypeOK, NoTimer
  <1>5. sock \in [queue : Seq(Packets), ok : BOOLEAN] /\ peer \in Peer /\ rebinds \in Rebinds
    BY <1>1, <1>2, <1>3 DEF PumpStart, Peer, Rebinds
  <1>8. quiet \in Quiet /\ blocks \in Blocks
    BY DEF PumpStart, Quiet, Uncounted, Blocks
  <1>6. parked \in Seq(Packets) /\ Len(parked) <= 1 /\ inbound \in Seq(Packets)
    BY <1>1 DEF PumpStart
  <1>7. /\ appIn \in Seq(Nat) /\ onWire \in Seq(Nat) /\ accepted \in Nat
        /\ dataOut \in Seq(Nat) /\ events \in Seq(Nat) /\ held \in Seq(Nat) /\ got \in Seq(Nat)
    BY <1>1 DEF PumpStart
  <1> QED BY <1>4, <1>5, <1>6, <1>7, <1>8 DEF PumpStart, PumpTyped

-----------------------------------------------------------------------------
\* No step leaves the types, overfills a channel or loses track of the timer.
LEMMA PumpTypedStep == PumpTyped /\ [PumpNext]_pumpVars => PumpTyped'
  <1> SUFFICES ASSUME PumpTyped, [PumpNext]_pumpVars PROVE PumpTyped'
    OBVIOUS
  <1> USE DEF PumpTyped
  <1>0. /\ Hold \in Nat \ {0} /\ MaxRebinds \in Nat /\ NoTimer \in Nat /\ NoTimer > Hold
        /\ InboundCap \in Nat \ {0} /\ DataCap \in Nat \ {0} /\ AppCap \in Nat \ {0}
        /\ BlockCap \in Nat \ {0}
        /\ <<>> \in Seq(Packets) /\ <<>> \in Seq(Nat) /\ Len(<<>>) = 0
        /\ "media" \in Packets /\ "control" \in Packets
        /\ sock.queue \in Seq(Packets) /\ sock.ok \in BOOLEAN
    BY PumpAssumption, EmptySeq DEF NoTimer, Packets
  <1>1. CASE Arrive
    <2>1. Append(sock.queue, "media") \in Seq(Packets) /\ Append(sock.queue, "control") \in Seq(Packets)
      BY <1>0, AppendProperties
    <2>2. sock' \in [queue : Seq(Packets), ok : BOOLEAN]
      BY <1>1, <2>1 DEF Arrive
    <2>3. quiet' \in Quiet
      BY <1>1 DEF Arrive, Quiet
    <2> QED BY <1>1, <2>2, <2>3 DEF Arrive, app, chan, core, PumpTypeOK
  <1>2. CASE PeerGone
    BY <1>2 DEF PeerGone, app, chan, core, PumpTypeOK
  <1>3. CASE SocketFails
    BY <1>0, <1>3 DEF SocketFails, app, chan, core, env, PumpTypeOK
  <1>4. CASE Send
    <2>1. Append(appIn, accepted + 1) \in Seq(Nat) /\ Len(Append(appIn, accepted + 1)) = Len(appIn) + 1
      BY AppendProperties
    <2>2. Len(appIn) \in Nat
      BY LenProperties
    <2> QED BY <1>0, <1>4, <2>1, <2>2 DEF Send, app, core, PumpTypeOK
  <1>5. CASE Recv
    <2>1. Head(dataOut) \in Nat /\ Tail(dataOut) \in Seq(Nat) /\ Len(Tail(dataOut)) = Len(dataOut) - 1
          /\ Len(dataOut) \in Nat
      BY <1>5, TailType DEF Recv
    <2>2. Append(got, Head(dataOut)) \in Seq(Nat)
      BY <2>1, AppendProperties
    <2> QED BY <1>0, <1>5, <2>1, <2>2 DEF Recv, core, env, PumpTypeOK
  <1>6. CASE CloseHandle
    BY <1>0, <1>6, BlocksDroppedType DEF CloseHandle, core, env, PumpTypeOK
  <1>7. CASE DropHandle
    BY <1>0, <1>7 DEF DropHandle, core, env, PumpTypeOK
  <1>8. CASE ReaderReads
    <2>1. Head(sock.queue) \in Packets /\ Tail(sock.queue) \in Seq(Packets)
      BY <1>0, <1>8, TailType DEF ReaderReads
    <2>2. /\ Append(inbound, Head(sock.queue)) \in Seq(Packets)
          /\ Len(Append(inbound, Head(sock.queue))) = Len(inbound) + 1 /\ Len(inbound) \in Nat
      BY <2>1, AppendProperties, LenProperties
    <2>3. sock' \in [queue : Seq(Packets), ok : BOOLEAN]
      BY <1>8, <2>1 DEF ReaderReads
    <2>4. inbound' \in Seq(Packets) /\ Len(inbound') <= InboundCap
      <3>1. \/ UNCHANGED inbound
            \/ Len(inbound) < InboundCap /\ inbound' = Append(inbound, Head(sock.queue))
        BY <1>8 DEF ReaderReads
      <3>2. inbound \in Seq(Packets) /\ Len(inbound) <= InboundCap
        BY DEF PumpTypeOK
      <3> QED BY ONLY <1>0, <2>2, <3>1, <3>2
    <2>5. /\ parked' \in Seq(Packets) /\ (parked' # <<>>) = (reader' = "parked")
          /\ reader' \in {"reading", "parked", "exited"} /\ Len(parked') <= 1
      <3>1. <<Head(sock.queue)>> \in Seq(Packets) /\ <<Head(sock.queue)>> # <<>>
            /\ Len(<<Head(sock.queue)>>) = 1
        BY <2>1
      <3>2. \/ UNCHANGED parked /\ reader' \in {"reading", "exited"}
            \/ reader' = "parked" /\ parked' = <<Head(sock.queue)>>
        BY <1>8 DEF ReaderReads
      <3>3. parked = <<>>
        BY <1>8 DEF ReaderReads, PumpTypeOK
      <3>4. CASE UNCHANGED parked /\ reader' \in {"reading", "exited"}
        BY ONLY <1>0, <3>3, <3>4
      <3>5. CASE reader' = "parked" /\ parked' = <<Head(sock.queue)>>
        BY ONLY <3>1, <3>5
      <3> QED BY <3>2, <3>4, <3>5
    <2> QED BY <1>8, <2>3, <2>4, <2>5 DEF ReaderReads, app, core, env, PumpTypeOK
  <1>9. CASE ReaderUnparks
    <2>1. inbound \o parked \in Seq(Packets) /\ Len(inbound \o parked) = Len(inbound) + Len(parked)
      BY ConcatProperties
    <2>2. Len(inbound) \in Nat /\ Len(parked) \in Nat
      BY LenProperties
    <2>3. inbound' \in Seq(Packets) /\ Len(inbound') <= InboundCap
      <3>1. \/ UNCHANGED inbound
            \/ inbound' = inbound \o parked /\ Len(inbound) < InboundCap
        BY <1>9 DEF ReaderUnparks
      <3>2. inbound \in Seq(Packets) /\ Len(inbound) <= InboundCap /\ Len(parked) <= 1
        BY DEF PumpTypeOK
      <3>3. CASE UNCHANGED inbound
        BY ONLY <3>2, <3>3
      <3>4. CASE inbound' = inbound \o parked /\ Len(inbound) < InboundCap
        BY ONLY <1>0, <2>1, <2>2, <3>2, <3>4
      <3> QED BY <3>1, <3>3, <3>4
    <2> QED BY <1>0, <1>9, <2>3, SMTT(30) DEF ReaderUnparks, app, core, env, PumpTypeOK
  <1>10. CASE ReaderFails
    BY <1>10 DEF ReaderFails, app, chan, core, env, PumpTypeOK
  <1>11. CASE OnInbound
    <2>1. Head(inbound) \in Packets /\ Tail(inbound) \in Seq(Packets)
          /\ Len(Tail(inbound)) = Len(inbound) - 1 /\ Len(inbound) \in Nat
      BY <1>11, TailType DEF OnInbound
    <2>2. peer' \in Peer
      BY <1>11, HeardType DEF OnInbound
    <2>3. /\ events' \in Seq(Nat) /\ dataOut' \in Seq(Nat) /\ Len(dataOut') <= DataCap
          /\ task' \in {"running", "delivering"}
      BY <1>11, DrainType DEF OnInbound, PumpTypeOK
    <2>4. fed + 1 \in Nat /\ Append(held, fed + 1) \in Seq(Nat) /\ Append(held, fed + 1) # <<>>
      <3>1. fed + 1 \in Nat
        OBVIOUS
      <3>2. held \in Seq(Nat)
        OBVIOUS
      <3> QED BY ONLY <3>1, <3>2, AppendProperties
    <2>5. /\ held' \in Seq(Nat) /\ fed' \in Nat /\ timer' \in 0 .. NoTimer
          /\ (held' # <<>>) = (timer' # NoTimer)
      <3>1. \/ UNCHANGED <<held, timer, fed>>
            \/ /\ fed' = fed + 1 /\ held' = Append(held, fed + 1)
               /\ timer' = IF timer = NoTimer THEN Hold ELSE timer
        BY <1>11 DEF OnInbound
      <3>2. held \in Seq(Nat) /\ fed \in Nat /\ timer \in 0 .. NoTimer /\ (held # <<>>) = (timer # NoTimer)
        BY DEF PumpTypeOK
      <3>3. CASE UNCHANGED <<held, timer, fed>>
        BY ONLY <3>2, <3>3
      <3>4. CASE /\ fed' = fed + 1 /\ held' = Append(held, fed + 1)
                 /\ timer' = IF timer = NoTimer THEN Hold ELSE timer
        BY ONLY <1>0, <2>4, <3>2, <3>4
      <3> QED BY <3>1, <3>3, <3>4
    <2>6. inbound' \in Seq(Packets) /\ Len(inbound') <= InboundCap
      <3>1. inbound' = Tail(inbound) /\ Len(inbound) <= InboundCap
        BY <1>11 DEF OnInbound, PumpTypeOK
      <3> QED BY ONLY <1>0, <2>1, <3>1
    <2> QED BY <1>11, <2>2, <2>3, <2>5, <2>6 DEF OnInbound, app, env, PumpTypeOK
  <1>12. CASE InboundCloses
    BY <1>0, <1>12, BlocksDroppedType DEF InboundCloses, Exit, app, core, env, PumpTypeOK
  <1>13. CASE OnApp
    <2>1. Head(appIn) \in Nat /\ Tail(appIn) \in Seq(Nat) /\ Len(Tail(appIn)) = Len(appIn) - 1
          /\ Len(appIn) \in Nat
      BY <1>13, TailType DEF OnApp
    <2>2. Append(onWire, Head(appIn)) \in Seq(Nat)
      BY <2>1, AppendProperties
    <2> QED BY <1>0, <1>13, <2>1, <2>2 DEF OnApp, app, core, env, PumpTypeOK
  <1>14. CASE AppCloses
    BY <1>0, <1>14, BlocksDroppedType DEF AppCloses, Exit, app, core, env, PumpTypeOK
  <1>15. CASE OnTimer
    <2>1. events \o held \in Seq(Nat)
      BY ConcatProperties
    <2>2. /\ events' \in Seq(Nat) /\ dataOut' \in Seq(Nat) /\ Len(dataOut') <= DataCap
          /\ task' \in {"running", "delivering"}
      BY <1>15, <2>1, DrainType DEF OnTimer, PumpTypeOK
    <2> QED BY <1>0, <1>15, <2>2 DEF OnTimer, app, env, PumpTypeOK
  <1>16. CASE Delivered
    <2>1. /\ events' \in Seq(Nat) /\ dataOut' \in Seq(Nat) /\ Len(dataOut') <= DataCap
          /\ task' \in {"running", "delivering"}
      BY <1>16, DrainType DEF Delivered, PumpTypeOK
    <2> QED BY <1>16, <2>1 DEF Delivered, app, env, PumpTypeOK
  <1>17. CASE OnKeepalive
    <2>1. rebinds.attempts \in 0 .. MaxRebinds /\ rebinds.ago \in Nat
      BY DEF PumpTypeOK, Rebinds
    <2>2. Attempts \in 0 .. MaxRebinds
      BY <1>0, <2>1 DEF Attempts
    <2>3. /\ rebinds' \in Rebinds /\ rebinds'.attempts \in 0 .. MaxRebinds
      <3>1. CASE UNCHANGED rebinds
        BY <2>1, <3>1
      <3>2. CASE ~GivesUp /\ ~TooEarly /\ Rebind
        BY <1>0, <2>1, <2>2, <3>2 DEF Rebind, Rebinds, GivesUp
      <3>4. CASE rebinds' = [rebinds EXCEPT !.attempts = Attempts]
        <4>1. rebinds \in Rebinds /\ Attempts \in Nat
          BY <1>0, <2>2
        <4> QED BY ONLY <2>2, <3>4, <4>1 DEF Rebinds
      <3>3. CASE rebinds' = [rebinds EXCEPT !.attempts = IF TooEarly THEN @ ELSE Attempts]
        <4> DEFINE a == IF TooEarly THEN rebinds.attempts ELSE Attempts
        <4>1. a \in 0 .. MaxRebinds /\ a \in Nat
          BY <1>0, <2>1, <2>2
        <4>2. rebinds' = [rebinds EXCEPT !.attempts = a]
          BY <3>3
        <4> HIDE DEF a
        <4> QED BY <4>1, <4>2 DEF Rebinds
      <3> QED BY <1>17, <3>1, <3>2, <3>3, <3>4 DEF OnKeepalive
    <2>4. peer' \in Peer /\ sock' \in [queue : Seq(Packets), ok : BOOLEAN]
      <3>1. \/ UNCHANGED <<peer, sock>>
            \/ peer' = ObservePeer(peer) /\ sock' = [queue |-> <<>>, ok |-> TRUE]
        BY <1>17 DEF OnKeepalive, Rebind
      <3>2. peer \in Peer /\ sock \in [queue : Seq(Packets), ok : BOOLEAN]
        OBVIOUS
      <3>3. CASE peer' = ObservePeer(peer) /\ sock' = [queue |-> <<>>, ok |-> TRUE]
        BY ONLY <1>0, <3>2, <3>3, HeardType
      <3> QED BY <3>1, <3>2, <3>3
    <2>5. /\ (parked' # <<>>) = (reader' = "parked") /\ parked' \in Seq(Packets)
          /\ reader' \in {"reading", "parked", "exited"}
          /\ task' \in {"running", "delivering", "ended", "aborted"}
          /\ Len(parked') <= 1
          /\ inbound' \in Seq(Packets) /\ Len(inbound') <= InboundCap
          /\ appIn' \in Seq(Nat) /\ Len(appIn') <= AppCap
          /\ blocks' \in Blocks /\ blocks'.queued <= BlockCap
          /\ blocks'.queued + blocks'.sent <= blocks'.offered
      <3>1. CASE Exit("timeout")
        BY <1>0, <3>1, BlocksDroppedType DEF Exit, PumpTypeOK
      <3>2. CASE Rebind /\ UNCHANGED <<task, reason, inbound, appIn, blocks>>
        BY <1>0, <3>2 DEF Rebind, PumpTypeOK
      <3>3. CASE UNCHANGED <<task, reason, reader, parked, inbound, appIn, blocks>>
        BY <3>3 DEF PumpTypeOK
      <3> QED BY <1>17, <3>1, <3>2, <3>3 DEF OnKeepalive
    <2> QED BY <1>17, <2>3, <2>4, <2>5 DEF OnKeepalive, app, core, env, PumpTypeOK
  <1>18. CASE Elapse
    <2>1. Never \in Nat
      BY NeverType
    <2>2. peer.silent \in Nat /\ rebinds.ago \in Nat /\ rebinds.attempts \in Nat
      BY DEF Peer, Rebinds
    <2>3. Up(peer.silent, Never) \in Nat /\ Up(rebinds.ago, Never) \in Nat
      BY <2>1, <2>2, UpType
    <2>6. quiet' \in Quiet
      <3>1. quiet.age \in Nat /\ Up(quiet.age, SessionTimeout + 1) \in Nat
        <4>1. quiet.age \in Nat /\ SessionTimeout + 1 \in Nat
          BY PumpAssumption DEF Quiet
        <4> QED BY ONLY <4>1, UpType
      <3> QED BY <1>18, <3>1 DEF Elapse, Quiet, Uncounted
    <2>4. peer' \in Peer /\ rebinds' \in Rebinds /\ rebinds'.attempts = rebinds.attempts
      BY <1>18, <2>3 DEF Elapse, Peer, Rebinds
    <2>5. timer' \in 0 .. NoTimer /\ (timer' # NoTimer) = (timer # NoTimer)
      <3>1. timer \in 0 .. NoTimer /\ timer' = IF timer \in {0, NoTimer} THEN timer ELSE timer - 1
        BY <1>18 DEF Elapse, PumpTypeOK
      <3> QED BY ONLY <1>0, <3>1
    <2> QED BY <1>18, <2>3, <2>4, <2>5, <2>6 DEF Elapse, app, chan, env, PumpTypeOK
  <1>19. CASE UNCHANGED pumpVars
    BY <1>19 DEF pumpVars, app, chan, core, env, PumpTypeOK
  <1>20. CASE SendBlock
    <2>1. /\ blocks' \in Blocks /\ blocks'.queued <= BlockCap
          /\ blocks'.queued + blocks'.sent <= blocks'.offered
      <3>1. /\ blocks \in Blocks /\ blocks.queued <= BlockCap
            /\ blocks.queued + blocks.sent <= blocks.offered
        BY DEF PumpTypeOK
      <3>2. blocks' = [blocks EXCEPT !.queued = @ + 1, !.offered = @ + 1] /\ blocks.queued < BlockCap
        BY <1>20 DEF SendBlock
      <3>3. BlockCap \in Nat
        BY <1>0
      <3>4. blocks' = [queued |-> blocks.queued + 1, offered |-> blocks.offered + 1, sent |-> blocks.sent]
        BY ONLY <3>1, <3>2 DEF Blocks
      <3>5. blocks.queued \in Nat /\ blocks.offered \in Nat /\ blocks.sent \in Nat
        BY ONLY <3>1 DEF Blocks
      <3> QED BY ONLY <3>1, <3>2, <3>3, <3>4, <3>5 DEF Blocks
    <2> QED BY <1>20, <2>1 DEF SendBlock, app, chan, core, env, PumpTypeOK
  <1>21. CASE OnBlock
    <2>1. /\ blocks' \in Blocks /\ blocks'.queued <= BlockCap
          /\ blocks'.queued + blocks'.sent <= blocks'.offered
      <3>1. /\ blocks \in Blocks /\ blocks.queued <= BlockCap
            /\ blocks.queued + blocks.sent <= blocks.offered
        BY DEF PumpTypeOK
      <3>2. blocks' = [blocks EXCEPT !.queued = @ - 1, !.sent = @ + 1] /\ blocks.queued > 0
        BY <1>21 DEF OnBlock
      <3>3. BlockCap \in Nat
        BY <1>0
      <3>4. blocks' = [queued |-> blocks.queued - 1, offered |-> blocks.offered, sent |-> blocks.sent + 1]
        BY ONLY <3>1, <3>2 DEF Blocks
      <3>5. blocks.queued \in Nat /\ blocks.offered \in Nat /\ blocks.sent \in Nat
        BY ONLY <3>1 DEF Blocks
      <3> QED BY ONLY <3>1, <3>2, <3>3, <3>4, <3>5 DEF Blocks
    <2> QED BY <1>21, <2>1 DEF OnBlock, app, chan, core, env, PumpTypeOK
  <1> QED BY <1>1, <1>2, <1>3, <1>4, <1>5, <1>6, <1>7, <1>8, <1>9, <1>10, <1>11, <1>12, <1>13,
             <1>14, <1>15, <1>16, <1>17, <1>18, <1>19, <1>20, <1>21 DEF PumpNext, PumpEnv, Driver, Reader

\* Every channel stays within its capacity, the reader parks with exactly one
\* datagram, the caller rebinds no more often than REBIND_MAX_ATTEMPTS, and the
\* timer is armed exactly while the flow holds a packet (driver.rs: run;
\* driver_main.rs: maybe_rebind_caller).
THEOREM PumpTypeCorrect == PumpSpec => []PumpTypeOK
  <1>1. PumpTyped => PumpTypeOK
    BY DEF PumpTyped
  <1> QED BY InitPumpTyped, PumpTypedStep, <1>1, PTL DEF PumpSpec

-----------------------------------------------------------------------------
(* From the flow to the application and back.                              *)

\* Every packet the flow took in is with the application, in the channel, among
\* the core's events or still held, in order.
Conveyed == handle = "open" => got \o dataOut \o events \o held = [i \in 1 .. fed |-> i]

\* Every payload accepted is on the wire or in the channel while the driver
\* lives; a reader stops under a living driver only when its socket has failed;
\* and a driver that ends of itself with a working socket has sent everything.
Flushed ==
  /\ Alive => Len(onWire) + Len(appIn) = accepted
  /\ Alive /\ reader = "exited" => ~sock.ok
  /\ task = "ended" /\ reason = "none" /\ sock.ok => Len(onWire) = accepted

LEMMA CountUp ==
  ASSUME NEW n \in Nat, NEW s \in Seq(Nat), s = [i \in 1 .. n |-> i]
  PROVE  Append(s, n + 1) = [i \in 1 .. n + 1 |-> i] /\ Len(s) = n
  <1>1. Len(s) = n
    BY LenProperties
  <1>2. /\ Append(s, n + 1) \in Seq(Nat) /\ Len(Append(s, n + 1)) = n + 1
        /\ \A i \in 1 .. n : Append(s, n + 1)[i] = s[i]
        /\ Append(s, n + 1)[n + 1] = n + 1
    BY <1>1, AppendProperties
  <1>3. DOMAIN Append(s, n + 1) = 1 .. n + 1 /\ Append(s, n + 1) \in [1 .. n + 1 -> Nat]
    BY <1>2, LenProperties
  <1>4. \A i \in 1 .. n + 1 : Append(s, n + 1)[i] = i
    <2> TAKE i \in 1 .. n + 1
    <2>1. CASE i \in 1 .. n
      BY <1>2, <2>1
    <2>2. CASE i = n + 1
      BY <1>2, <2>2
    <2> QED BY <2>1, <2>2
  <1> QED BY <1>1, <1>3, <1>4

LEMMA InitConveyed == PumpInit => Conveyed
  <1> SUFFICES ASSUME NEW s \in Sessions, PumpStart(s) PROVE Conveyed
    BY DEF PumpInit
  <1>1. <<>> \o <<>> = <<>>
    BY EmptySeq, ConcatEmptySeq
  <1>2. <<>> = [i \in 1 .. 0 |-> i]
    OBVIOUS
  <1> QED BY <1>1, <1>2 DEF PumpStart, Conveyed

\* No step takes a packet out of the line, or out of its turn.
LEMMA ConveyedStep == PumpTyped /\ Conveyed /\ [PumpNext]_pumpVars => Conveyed'
  <1> SUFFICES ASSUME PumpTyped, Conveyed, [PumpNext]_pumpVars, handle' = "open"
               PROVE  (got \o dataOut \o events \o held)' = [i \in 1 .. fed' |-> i]
    BY DEF Conveyed
  <1>0. /\ dataOut \in Seq(Nat) /\ events \in Seq(Nat) /\ held \in Seq(Nat) /\ got \in Seq(Nat)
        /\ fed \in Nat /\ Len(dataOut) <= DataCap
    BY DEF PumpTyped, PumpTypeOK
  <1>1. CASE handle = "open" /\ UNCHANGED <<got, dataOut, events, held, fed>>
    BY <1>1 DEF Conveyed
  <1>2. CASE Recv
    <2>1. /\ Head(dataOut) \in Nat /\ Tail(dataOut) \in Seq(Nat) /\ dataOut = <<Head(dataOut)>> \o Tail(dataOut)
      BY <1>0, <1>2, TailType DEF Recv
    <2>2. <<Head(dataOut)>> \in Seq(Nat) /\ got' = got \o <<Head(dataOut)>>
      BY <1>0, <1>2, <2>1, AppendIsConcat DEF Recv
    <2>3. got' \o dataOut' = got \o dataOut
      <3>1. dataOut' = Tail(dataOut)
        BY <1>2 DEF Recv
      <3>2. (got \o <<Head(dataOut)>>) \o Tail(dataOut) = got \o (<<Head(dataOut)>> \o Tail(dataOut))
        BY <1>0, <2>1, <2>2, Assoc, Zenon
      <3> QED BY <2>1, <2>2, <3>1, <3>2
    <2> QED BY <1>2, <2>3 DEF Recv, core, Conveyed
  <1>3. CASE handle = "open" /\ Drain(events) /\ UNCHANGED <<got, held, fed>>
    <2>1. events' \in Seq(Nat) /\ dataOut' \in Seq(Nat) /\ dataOut' \o events' = dataOut \o events
      BY <1>0, <1>3, DrainType
    <2>2. got \o dataOut' \o events' \o held = got \o (dataOut' \o events') \o held
      <3>1. (got \o dataOut') \o events' = got \o (dataOut' \o events')
        BY <1>0, <2>1, Assoc, Zenon
      <3> QED BY <3>1, Zenon
    <2>3. got \o dataOut \o events \o held = got \o (dataOut \o events) \o held
      <3>1. (got \o dataOut) \o events = got \o (dataOut \o events)
        BY <1>0, Assoc, Zenon
      <3> QED BY <3>1, Zenon
    <2> QED BY <1>3, <2>1, <2>2, <2>3 DEF Conveyed
  <1>4. CASE handle = "open" /\ Drain(events) /\ held' = Append(held, fed + 1) /\ fed' = fed + 1 /\ UNCHANGED got
    <2>1. events' \in Seq(Nat) /\ dataOut' \in Seq(Nat) /\ dataOut' \o events' = dataOut \o events
      BY <1>0, <1>4, DrainType
    <2>2. held' = held \o <<fed + 1>> /\ <<fed + 1>> \in Seq(Nat) /\ held' \in Seq(Nat) /\ fed + 1 \in Nat
      <3>1. fed + 1 \in Nat
        BY <1>0
      <3>2. <<fed + 1>> \in Seq(Nat) /\ Append(held, fed + 1) \in Seq(Nat)
        BY <1>0, <3>1, AppendProperties
      <3>3. Append(held, fed + 1) = held \o <<fed + 1>>
        BY <1>0, <3>1, AppendIsConcat
      <3> QED BY <1>4, <3>1, <3>2, <3>3
    <2>3. got \o dataOut' \o events' \o held' = got \o (dataOut \o events) \o held'
      <3>1. (got \o dataOut') \o events' = got \o (dataOut' \o events')
        BY <1>0, <2>1, Assoc, Zenon
      <3> QED BY <2>1, <3>1, Zenon
    <2>4. got \o (dataOut \o events) \o held' = (got \o (dataOut \o events) \o held) \o <<fed + 1>>
      <3>1. got \o (dataOut \o events) \in Seq(Nat)
        BY <1>0, ConcatProperties
      <3> DEFINE front == got \o (dataOut \o events)
                 last  == <<fed + 1>>
      <3>2. front \in Seq(Nat) /\ last \in Seq(Nat)
        BY <2>2, <3>1
      <3> HIDE DEF front, last
      <3>3. (front \o held) \o last = front \o (held \o last)
        <4>1. front \in Seq(Nat) /\ held \in Seq(Nat) /\ last \in Seq(Nat)
          BY <1>0, <3>2
        <4> QED BY ONLY <4>1, Assoc, Zenon
      <3> QED BY <2>2, <3>3 DEF front, last
    <2> DEFINE all == got \o dataOut \o events \o held
    <2>5. all = got \o (dataOut \o events) \o held /\ all \in Seq(Nat)
      <3>1. (got \o dataOut) \o events = got \o (dataOut \o events) /\ dataOut \o events \in Seq(Nat)
        BY <1>0, Assoc, ConcatType, Zenon
      <3>2. got \o (dataOut \o events) \in Seq(Nat)
        BY <1>0, <3>1, ConcatType, Zenon
      <3>3. got \o (dataOut \o events) \o held \in Seq(Nat)
        BY <1>0, <3>2, ConcatType, Zenon
      <3> QED BY <3>1, <3>3, Zenon
    <2>6. all = [i \in 1 .. fed |-> i]
      BY <1>4 DEF Conveyed
    <2> HIDE DEF all
    <2>7. all \o <<fed + 1>> = Append(all, fed + 1)
      BY <2>2, <2>5, AppendIsConcat
    <2>8. Append(all, fed + 1) = [i \in 1 .. fed + 1 |-> i]
      BY <1>0, <2>5, <2>6, CountUp
    <2> QED BY <1>4, <2>3, <2>4, <2>5, <2>7, <2>8
  <1>5. CASE handle = "open" /\ OnTimer
    <2>1. events \o held \in Seq(Nat)
      BY <1>0, ConcatProperties
    <2>2. events' \in Seq(Nat) /\ dataOut' \in Seq(Nat) /\ dataOut' \o events' = dataOut \o (events \o held)
      BY <1>0, <1>5, <2>1, DrainType DEF OnTimer
    <2>3. got \o dataOut' \o events' \o <<>> = got \o (dataOut' \o events')
      <3>1. got \o dataOut' \o events' \in Seq(Nat) /\ got \o dataOut' \o events' = got \o (dataOut' \o events')
        BY <1>0, <2>2, ConcatType, Assoc, Zenon
      <3> QED BY <3>1, ConcatEmptySeq
    <2>4. got \o (dataOut \o (events \o held)) = got \o dataOut \o events \o held
      <3>1. got \o (dataOut \o (events \o held)) = (got \o dataOut) \o (events \o held)
        BY <1>0, <2>1, Assoc, Zenon
      <3> DEFINE front == got \o dataOut
      <3>2. front \in Seq(Nat)
        BY <1>0, ConcatType, Zenon
      <3> HIDE DEF front
      <3>3. (front \o events) \o held = front \o (events \o held)
        BY <1>0, <3>2, Assoc, Zenon
      <3> QED BY <3>1, <3>3 DEF front
    <2> QED BY <1>5, <2>2, <2>3, <2>4 DEF OnTimer, app, Conveyed
  <1>6. CASE OnInbound
    <2>1. handle = "open" /\ Drain(events) /\ UNCHANGED got
      BY <1>6 DEF OnInbound, app
    <2>2. UNCHANGED <<held, fed>> \/ (held' = Append(held, fed + 1) /\ fed' = fed + 1)
      BY <1>6 DEF OnInbound
    <2> QED BY <1>3, <1>4, <2>1, <2>2
  <1>7. CASE Delivered
    BY <1>3, <1>7 DEF Delivered, app
  <1>8. CASE PumpEnv /\ ~Recv
    <2>1. handle = "open" /\ UNCHANGED <<got, dataOut, events, held, fed>>
      BY <1>8 DEF PumpEnv, Arrive, PeerGone, SocketFails, Send, SendBlock, CloseHandle, DropHandle, app, chan, core
    <2> QED BY <1>1, <2>1
  <1>9. CASE Reader \/ Elapse
    <2>1. handle = "open" /\ UNCHANGED <<got, dataOut, events, held, fed>>
      BY <1>9 DEF Reader, ReaderReads, ReaderUnparks, ReaderFails, Elapse, app, chan, core
    <2> QED BY <1>1, <2>1
  <1>10. CASE InboundCloses \/ OnApp \/ OnBlock \/ AppCloses \/ OnKeepalive
    <2>1. handle = "open" /\ UNCHANGED <<got, dataOut, events, held, fed>>
      BY <1>10 DEF InboundCloses, OnApp, OnBlock, AppCloses, OnKeepalive, app, chan, core
    <2> QED BY <1>1, <2>1
  <1>11. CASE UNCHANGED pumpVars
    BY <1>1, <1>11 DEF pumpVars, app, chan, core
  <1>12. CASE OnTimer
    BY <1>5, <1>12 DEF OnTimer, app
  <1> QED BY <1>2, <1>6, <1>7, <1>8, <1>9, <1>10, <1>11, <1>12 DEF PumpNext, PumpEnv, Driver

LEMMA InitFlushed == PumpInit => Flushed
  <1> SUFFICES ASSUME NEW s \in Sessions, PumpStart(s) PROVE Flushed
    BY DEF PumpInit
  <1>1. Len(<<>>) = 0
    BY EmptySeq
  <1> QED BY <1>1 DEF PumpStart, Flushed, Alive

LEMMA FlushedStep == PumpTyped /\ Flushed /\ [PumpNext]_pumpVars => Flushed'
  <1> SUFFICES ASSUME PumpTyped, Flushed, [PumpNext]_pumpVars PROVE Flushed'
    OBVIOUS
  <1> DEFINE sent == <<onWire, appIn, accepted>>
  <1>0. /\ onWire \in Seq(Nat) /\ appIn \in Seq(Nat) /\ accepted \in Nat
        /\ Len(onWire) \in Nat /\ Len(appIn) \in Nat /\ Len(<<>>) = 0
    BY LenProperties, EmptySeq DEF PumpTyped
  <1>1. CASE Arrive \/ PeerGone \/ Recv \/ DropHandle
    <2>1. UNCHANGED <<sent, task, reason, reader, sock.ok>>
      BY <1>1 DEF Arrive, PeerGone, Recv, DropHandle, app, chan, core, env, PumpTyped
    <2> QED BY <2>1 DEF Flushed, Alive
  <1>2. CASE SocketFails
    <2>1. UNCHANGED <<sent, task, reason, reader>> /\ sock'.ok = FALSE
      BY <1>2 DEF SocketFails, app, chan, env
    <2> QED BY <2>1 DEF Flushed, Alive
  <1>3. CASE Send
    <2>1. Len(appIn') = Len(appIn) + 1 /\ accepted' = accepted + 1
      BY <1>0, <1>3, AppendProperties DEF Send
    <2>2. Alive /\ UNCHANGED <<onWire, task, reason, reader, sock>>
      BY <1>3 DEF Send
    <2> QED BY <1>0, <2>1, <2>2 DEF Flushed, Alive
  <1>4. CASE CloseHandle
    <2>1. UNCHANGED <<onWire, accepted, reason, reader, sock>> /\ task' \in {"aborted", task} /\ task' \notin {"running", "delivering"}
      BY <1>4 DEF CloseHandle, Alive, env
    <2> QED BY <2>1 DEF Flushed, Alive
  <1>5. CASE ReaderReads
    <2>1. UNCHANGED <<sent, task, reason, sock.ok>> /\ (reader' = "exited" => ~Alive)
      BY <1>5 DEF ReaderReads, env, PumpTyped
    <2> QED BY <2>1 DEF Flushed, Alive
  <1>6. CASE ReaderUnparks
    <2>1. UNCHANGED <<sent, task, reason, sock>> /\ (reader' = "exited" => ~Alive)
      BY <1>6 DEF ReaderUnparks, env
    <2> QED BY <2>1 DEF Flushed, Alive
  <1>7. CASE ReaderFails
    <2>1. UNCHANGED <<sent, task, reason, sock>> /\ ~sock.ok
      BY <1>7 DEF ReaderFails, chan, env
    <2> QED BY <2>1 DEF Flushed, Alive
  <1>8. CASE OnInbound \/ OnTimer \/ Delivered
    <2>1. UNCHANGED <<sent, reason, reader, sock>> /\ Alive /\ task' \in {"running", "delivering"}
      BY <1>8 DEF OnInbound, OnTimer, Delivered, Drain, Alive, Running, env
    <2> QED BY <2>1 DEF Flushed, Alive
  <1>9. CASE InboundCloses
    <2>1. UNCHANGED <<onWire, accepted, sock>> /\ ~sock.ok /\ task' = "ended"
      BY <1>9 DEF InboundCloses, Exit, Flushed, Alive, Running, env
    <2> QED BY <2>1 DEF Flushed, Alive
  <1>10. CASE OnApp
    <2>1. Len(appIn') = Len(appIn) - 1 /\ Len(onWire') = Len(onWire) + 1
      <3>1. Head(appIn) \in Nat /\ Tail(appIn) \in Seq(Nat) /\ Len(Tail(appIn)) = Len(appIn) - 1
        BY <1>0, <1>10, TailType DEF OnApp
      <3>2. Len(Append(onWire, Head(appIn))) = Len(onWire) + 1
        BY <1>0, <3>1, AppendProperties
      <3> QED BY <1>10, <3>1, <3>2 DEF OnApp
    <2>2. Running /\ UNCHANGED <<accepted, task, reason, reader, sock>>
      BY <1>10 DEF OnApp, env
    <2>3. Len(onWire) + Len(appIn) = accepted
      BY <2>2 DEF Flushed, Alive, Running
    <2>4. Len(onWire') + Len(appIn') = accepted'
      <3>1. (Len(onWire) + 1) + (Len(appIn) - 1) = accepted
        BY ONLY <1>0, <2>3, SMTT(30)
      <3> QED BY ONLY <2>1, <2>2, <3>1
    <2> QED BY <2>2, <2>4 DEF Flushed, Alive, Running
  <1>11. CASE AppCloses
    <2>1. UNCHANGED <<onWire, accepted, sock>> /\ task' = "ended" /\ Running /\ Len(appIn) = 0
      BY <1>0, <1>11 DEF AppCloses, Exit, Drained, env
    <2> QED BY <1>0, <2>1 DEF Flushed, Alive, Running
  <1>12. CASE OnKeepalive
    <2>1. UNCHANGED <<onWire, accepted>> /\ Alive
      BY <1>12 DEF OnKeepalive, env, Alive, Running
    <2>2. CASE Exit("timeout")
      BY <2>1, <2>2 DEF Exit, Flushed, Alive
    <2>3. CASE Rebind /\ UNCHANGED <<task, reason, inbound, appIn, blocks>>
      BY <2>1, <2>3 DEF Rebind, Flushed, Alive
    <2>4. CASE UNCHANGED <<task, reason, reader, parked, inbound, appIn, blocks, sock>>
      BY <2>1, <2>4 DEF Flushed, Alive
    <2> QED BY <1>12, <2>2, <2>3, <2>4 DEF OnKeepalive
  <1>13. CASE SendBlock \/ OnBlock \/ Elapse \/ UNCHANGED pumpVars
    <2>1. UNCHANGED <<sent, task, reason, reader, sock>>
      BY <1>13 DEF SendBlock, OnBlock, Elapse, pumpVars, chan, env
    <2> QED BY <2>1 DEF Flushed, Alive
  <1> QED BY <1>1, <1>2, <1>3, <1>4, <1>5, <1>6, <1>7, <1>8, <1>9, <1>10, <1>11, <1>12, <1>13
          DEF PumpNext, PumpEnv, Driver, Reader

\* For every capacity of the channels and every schedule of the application, the
\* driver and the reader: what the application reads is what the flow took in, in
\* order and without a hole, and a sender whose handle is dropped has sent all it
\* accepted when its driver ends (driver.rs: drain, deliver_out, the app_in arm).
THEOREM PumpDropsNothing == PumpSpec => []NothingDropped
  <1> DEFINE I == PumpTyped /\ Conveyed /\ Flushed
  <1>1. PumpInit => I
    BY InitPumpTyped, InitConveyed, InitFlushed
  <1>2. I /\ [PumpNext]_pumpVars => I'
    BY PumpTypedStep, ConveyedStep, FlushedStep
  <1>3. I => NothingDropped
    <2> SUFFICES ASSUME PumpTyped, Conveyed, Flushed PROVE NothingDropped
      OBVIOUS
    <2>1. HandedOver
      <3> SUFFICES ASSUME handle = "open"
                   PROVE  LET all == got \o dataOut \o events \o held
                          IN Len(all) = fed /\ \A i \in 1 .. fed : all[i] = i
        BY DEF HandedOver
      <3>1. got \o dataOut \o events \o held = [i \in 1 .. fed |-> i] /\ fed \in Nat
        BY DEF Conveyed, PumpTyped
      <3> QED BY <3>1
    <2>2. DroppedFlushes
      BY DEF DroppedFlushes, Flushed
    <2> QED BY <2>1, <2>2 DEF NothingDropped
  <1> QED BY <1>1, <1>2, <1>3, PTL DEF PumpSpec

-----------------------------------------------------------------------------
(* The silence of the peer.                                                *)

Pending == sock.queue # <<>> \/ inbound # <<>> \/ parked # <<>>

\* The driver's count of silence is no longer than the socket's was when the last
\* interval ended, as far as the latter is counted; a datagram that has reached the socket since is on its way to
\* the driver or was heard by it; and a session that has timed out did so on a
\* silent socket that nobody reads now.
Punctual ==
  /\ Alive /\ ~stalled /\ sock.ok =>
       /\ peer.silent <= quiet.age \/ quiet.age > SessionTimeout
       /\ quiet.fresh => Pending \/ peer.silent = 0
  /\ Alive /\ reader = "exited" => ~sock.ok
  /\ reason = "timeout" => task = "ended" /\ reader = "exited"
  /\ reason = "timeout" /\ ~stalled /\ sock.ok => quiet.age > SessionTimeout

LEMMA InitPunctual == PumpInit => Punctual
  <1> SUFFICES ASSUME NEW s \in Sessions, PumpStart(s) PROVE Punctual
    BY DEF PumpInit
  <1> QED BY DEF PumpStart, Punctual, Uncounted, Alive

\* When an interval may pass and nobody was held up, nothing is on its way from
\* the socket to the driver.
LEMMA QuiescentEmpty ==
  ASSUME PumpTyped, Punctual, Elapse, ~stalled', sock.ok
  PROVE  ~Pending /\ ~stalled /\ Running
  <1>1. ~stalled /\ Running /\ ~DriverReady /\ ~ReaderReady
    BY DEF Elapse, PumpTyped, Alive, Running
  <1>2. inbound = <<>>
    BY <1>1 DEF DriverReady
  <1>3. Len(inbound) < InboundCap
    BY <1>2, EmptySeq, PumpAssumption
  <1>4. reader = "reading"
    BY <1>1, <1>3 DEF ReaderReady, Punctual, Alive, Running, PumpTyped
  <1>5. sock.queue = <<>> /\ parked = <<>>
    BY <1>1, <1>4 DEF ReaderReady, PumpTyped, PumpTypeOK
  <1> QED BY <1>1, <1>2, <1>5 DEF Pending

LEMMA PunctualStep == PumpTyped /\ Punctual /\ [PumpNext]_pumpVars => Punctual'
  <1> SUFFICES ASSUME PumpTyped, Punctual, [PumpNext]_pumpVars PROVE Punctual'
    OBVIOUS
  <1> DEFINE clocks == <<peer, quiet, stalled, tick, reason>>
             line   == <<sock, inbound, parked>>
  <1>0. /\ quiet \in Quiet /\ quiet.age \in Nat /\ peer.silent \in Nat /\ SessionTimeout \in Nat
        /\ sock.queue \in Seq(Packets) /\ inbound \in Seq(Packets)
        /\ sock \in [queue : Seq(Packets), ok : BOOLEAN]
    BY PumpAssumption DEF PumpTyped, Peer, Quiet
  <1>1. CASE Arrive
    <2>1. sock'.queue # <<>> /\ sock'.ok = sock.ok
      <3>1. \E d \in Packets : sock' = [sock EXCEPT !.queue = Append(@, d)]
        BY <1>1 DEF Arrive, Packets
      <3>2. \A d \in Packets : Append(sock.queue, d) # <<>>
        BY <1>0, AppendProperties
      <3> QED BY <1>0, <3>1, <3>2
    <2>2. reader # "exited" /\ UNCHANGED <<peer, reason, task, reader, stalled>> /\ quiet'.age = quiet.age
      BY <1>0, <1>1 DEF Arrive, Quiet
    <2> QED BY <2>1, <2>2 DEF Punctual, Pending, Alive
  <1>2. CASE PeerGone \/ Recv \/ DropHandle \/ Send \/ SendBlock
    <2>1. UNCHANGED <<clocks, line, task, reader>>
      BY <1>2 DEF PeerGone, Recv, DropHandle, Send, SendBlock, chan
    <2> QED BY <2>1 DEF Punctual, Pending, Alive
  <1>3. CASE SocketFails
    <2>1. UNCHANGED <<clocks, task, reader>> /\ sock'.ok = FALSE
      BY <1>3 DEF SocketFails
    <2> QED BY <2>1 DEF Punctual, Alive
  <1>4. CASE CloseHandle
    <2>1. UNCHANGED <<clocks, reader, sock>> /\ task' \notin {"running", "delivering"} /\ (task = "ended" => task' = "ended")
      BY <1>4 DEF CloseHandle, Alive
    <2> QED BY <2>1 DEF Punctual, Alive
  <1>5. CASE ReaderReads
    <2>1. /\ UNCHANGED <<clocks, task, sock.ok>> /\ (reader' = "exited" => ~Alive) /\ reader = "reading"
          /\ Alive => inbound' # <<>> \/ parked' # <<>>
      <3>1. sock'.ok = sock.ok
        BY <1>0, <1>5 DEF ReaderReads
      <3>2. Head(sock.queue) \in Packets
        BY <1>0, <1>5, TailType DEF ReaderReads
      <3>3. Append(inbound, Head(sock.queue)) # <<>> /\ <<Head(sock.queue)>> # <<>>
        BY <1>0, <3>2, AppendProperties
      <3> QED BY <1>5, <3>1, <3>3 DEF ReaderReads
    <2>2. Pending
      BY <1>5 DEF ReaderReads, Pending
    <2> QED BY <2>1, <2>2 DEF Punctual, Pending, Alive
  <1>6. CASE ReaderUnparks
    <2>1. UNCHANGED <<clocks, task, sock>> /\ (reader' = "exited" => ~Alive) /\ reader = "parked"
      BY <1>6 DEF ReaderUnparks
    <2>2. parked \in Seq(Packets) /\ parked # <<>> /\ (Alive => inbound' = inbound \o parked)
      BY <1>6 DEF ReaderUnparks, PumpTyped, PumpTypeOK
    <2>3. Alive => inbound' # <<>>
      BY <1>0, <2>2, ConcatEqualIffEmpty
    <2>4. Pending
      BY <2>2 DEF Pending
    <2> QED BY <2>1, <2>3, <2>4 DEF Punctual, Pending, Alive
  <1>7. CASE ReaderFails
    <2>1. UNCHANGED <<clocks, line, task>> /\ ~sock.ok /\ reader = "reading"
      BY <1>7 DEF ReaderFails, chan
    <2> QED BY <2>1 DEF Punctual, Pending, Alive
  <1>8. CASE OnInbound
    <2>1. UNCHANGED <<quiet, stalled, tick, reason, sock, reader>> /\ Running
      BY <1>8 DEF OnInbound
    <2>2. peer'.silent = 0
      BY <1>8, HeardType DEF OnInbound, PumpTyped
    <2> QED BY <1>0, <2>1, <2>2 DEF Punctual, Alive, Running
  <1>9. CASE OnTimer \/ Delivered
    <2>1. UNCHANGED <<clocks, line, reader>> /\ Alive /\ task' \in {"running", "delivering"}
      BY <1>9 DEF OnTimer, Delivered, Drain, Alive, Running
    <2> QED BY <2>1 DEF Punctual, Pending, Alive
  <1>10. CASE InboundCloses \/ AppCloses
    <2>1. task' = "ended" /\ reason' = "none" /\ reader' = "exited"
      BY <1>10 DEF InboundCloses, AppCloses, Exit
    <2> QED BY <2>1 DEF Punctual, Alive
  <1>11. CASE OnApp \/ OnBlock
    <2>1. UNCHANGED <<clocks, line, task, reader>>
      BY <1>11 DEF OnApp, OnBlock, chan
    <2> QED BY <2>1 DEF Punctual, Pending, Alive
  <1>12. CASE OnKeepalive
    <2>1. tick /\ tick' = FALSE /\ UNCHANGED <<quiet, stalled>> /\ Running /\ reason # "timeout"
      BY <1>12 DEF OnKeepalive, Punctual, Running
    <2>2. CASE Exit("timeout") /\ UNCHANGED <<sock, peer>> /\ SilentFor(SessionTimeout)
      <3>1. peer.silent > SessionTimeout
        BY <2>2 DEF SilentFor
      <3>2. ~stalled /\ sock.ok => quiet.age > SessionTimeout
        BY <1>0, <2>1, <3>1 DEF Punctual, Alive, Running
      <3> QED BY <2>1, <2>2, <3>2 DEF Exit, Punctual, Alive
    <2>3. CASE Rebind /\ UNCHANGED <<task, reason, inbound, appIn, blocks>>
      <3>1. peer'.silent = 0
        BY <2>3, HeardType DEF Rebind, PumpTyped
      <3> QED BY <1>0, <2>1, <2>3, <3>1 DEF Rebind, Punctual, Alive
    <2>4. CASE UNCHANGED <<task, reason, reader, parked, inbound, appIn, blocks, sock, peer>>
      BY <2>1, <2>4 DEF Punctual, Pending, Alive
    <2> QED BY <1>12, <2>2, <2>3, <2>4 DEF OnKeepalive
  <1>13. CASE Elapse
    <2>1. UNCHANGED <<reason, task, reader, sock, inbound, parked>> /\ Alive
      BY <1>13 DEF Elapse, chan
    <2>2. /\ peer'.silent = Up(peer.silent, Never) /\ quiet'.fresh = FALSE
          /\ ~stalled' => quiet'.age = IF quiet.fresh THEN 1 ELSE Up(quiet.age, SessionTimeout + 1)
      BY <1>13 DEF Elapse, PumpTyped, Peer, Uncounted
    <2>3. ~stalled' /\ sock.ok =>
            (peer.silent <= quiet.age \/ quiet.age > SessionTimeout) /\ (quiet.fresh => peer.silent = 0)
      BY <1>13, <2>1, QuiescentEmpty DEF Punctual
    <2>4. ~stalled' /\ sock.ok => peer'.silent <= quiet'.age \/ quiet'.age > SessionTimeout
      <3>1. CASE quiet.fresh
        BY <1>0, <2>2, <2>3, <3>1, NeverType DEF Up
      <3>2. CASE ~quiet.fresh
        BY <1>0, <2>2, <2>3, <3>2, NeverType DEF Up
      <3> QED BY <3>1, <3>2
    <2>5. reason # "timeout"
      BY <2>1 DEF Punctual, Alive
    <2> QED BY <2>1, <2>2, <2>3, <2>4, <2>5 DEF Punctual, Alive
  <1>14. CASE UNCHANGED pumpVars
    BY <1>14 DEF pumpVars, chan, Punctual, Pending, Alive
  <1> QED BY <1>1, <1>2, <1>3, <1>4, <1>5, <1>6, <1>7, <1>8, <1>9, <1>10, <1>11, <1>12, <1>13, <1>14
          DEF PumpNext, PumpEnv, Driver, Reader

\* For every session timeout and capacity: unless the application held up the
\* driver, a session times out only when no datagram had reached its socket for
\* the session timeout as the last interval ended, in whatever order the select
\* loop takes what is ready then (driver.rs: the keepalive arm; peer.rs: expired).
THEOREM PumpTimeoutJustified == PumpSpec => []TimeoutJustified
  <1> DEFINE I == PumpTyped /\ Punctual
  <1>1. PumpInit => I
    BY InitPumpTyped, InitPunctual
  <1>2. I /\ [PumpNext]_pumpVars => I'
    BY PumpTypedStep, PunctualStep
  <1>3. I => TimeoutJustified
    BY DEF Punctual, TimeoutJustified
  <1> QED BY <1>1, <1>2, <1>3, PTL DEF PumpSpec

-----------------------------------------------------------------------------
(* The flows of a shared socket.                                           *)

Dgram   == [key : Keys, n : Nat]
Session == [key : Keys, state : {"running", "delivering", "ended"},
            receiver : {"waiting", "held", "dropped"},
            inbound : Seq(Dgram), out : Nat, took : Seq(Dgram)]

\* What a session has been given, in order.
Given(r) == r.took \o r.inbound

MultiTyped ==
  /\ inbox \in Seq(Dgram) /\ seq \in [Keys -> Nat] /\ sessions \in Seq(Session)
  /\ demux.at = "feeding" => demux.to \in Sids /\ demux.d \in Dgram
  /\ DOMAIN flows \subseteq Keys /\ IsFiniteSet(DOMAIN flows)
  /\ flows = [k \in DOMAIN flows |-> flows[k]]
  /\ \A k \in DOMAIN flows : flows[k] \in Sids /\ sessions[flows[k]].key = k

\* The map names the newest session of each of its keys; while the task runs it
\* names every session at work, and the one it feeds.
Mapped ==
  /\ \A k \in DOMAIN flows : \A s \in Sids : sessions[s].key = k => s <= flows[k]
  /\ demux.at # "aborted" =>
       \A s \in LiveSessions : sessions[s].key \in DOMAIN flows /\ flows[sessions[s].key] = s
  /\ demux.at = "feeding" => demux.d.key \in DOMAIN flows /\ flows[demux.d.key] = demux.to

\* Along a key: the sessions it had, oldest first; the datagram being fed; the
\* socket's buffer; and then what its peer will send.
Streams ==
  \A s \in Sids :
    /\ \A i \in DOMAIN Given(sessions[s]) :
         Given(sessions[s])[i].key = sessions[s].key /\ Given(sessions[s])[i].n <= seq[sessions[s].key]
    /\ \A i, j \in DOMAIN Given(sessions[s]) : i < j => Given(sessions[s])[i].n < Given(sessions[s])[j].n
    /\ \A t \in Sids : t < s /\ sessions[t].key = sessions[s].key =>
         \A i \in DOMAIN Given(sessions[s]), j \in DOMAIN Given(sessions[t]) :
           Given(sessions[t])[j].n < Given(sessions[s])[i].n

Buffered ==
  /\ \A i \in DOMAIN inbox : inbox[i].n <= seq[inbox[i].key]
  /\ \A i, j \in DOMAIN inbox : i < j /\ inbox[i].key = inbox[j].key => inbox[i].n < inbox[j].n
  /\ \A s \in Sids, i \in DOMAIN inbox : inbox[i].key = sessions[s].key =>
       \A j \in DOMAIN Given(sessions[s]) : Given(sessions[s])[j].n < inbox[i].n

BeingFed ==
  demux.at = "feeding" =>
    /\ demux.d.n <= seq[demux.d.key]
    /\ \A i \in DOMAIN inbox : inbox[i].key = demux.d.key => demux.d.n < inbox[i].n
    /\ \A s \in Sids : sessions[s].key = demux.d.key =>
         \A j \in DOMAIN Given(sessions[s]) : Given(sessions[s])[j].n < demux.d.n

MultiInv == MultiTyped /\ Mapped /\ OneSessionEach /\ Streams /\ Buffered /\ BeingFed

\* A step of a session may shorten what it was given from the end, and may end it.
Prefix(a, b) == \A i \in DOMAIN a : i \in DOMAIN b /\ a[i] = b[i]

Shrinks ==
  /\ DOMAIN sessions' = DOMAIN sessions
  /\ \A t \in Sids :
       /\ sessions'[t].key = sessions[t].key
       /\ sessions[t].state = "ended" => sessions'[t].state = "ended"
       /\ Prefix(Given(sessions'[t]), Given(sessions[t]))

LEMMA DgramAssoc == \A a, b, c \in Seq(Dgram) : (a \o b) \o c = a \o (b \o c)
  BY ConcatAssociative

LEMMA GivenType ==
  ASSUME NEW r \in Session
  PROVE  /\ Given(r) \in Seq(Dgram) /\ Len(Given(r)) \in Nat
         /\ DOMAIN Given(r) = 1 .. Len(Given(r))
         /\ \A i \in DOMAIN Given(r) : Given(r)[i] \in Dgram
         /\ \A i \in DOMAIN r.took : i \in DOMAIN Given(r) /\ Given(r)[i] = r.took[i]
  <1>1. r.took \in Seq(Dgram) /\ r.inbound \in Seq(Dgram)
    BY DEF Session
  <1>2. /\ Given(r) \in Seq(Dgram) /\ Len(Given(r)) = Len(r.took) + Len(r.inbound)
        /\ \A i \in 1 .. Len(r.took) + Len(r.inbound) :
             Given(r)[i] = IF i <= Len(r.took) THEN r.took[i] ELSE r.inbound[i - Len(r.took)]
    BY <1>1, ConcatProperties DEF Given
  <1>3. Len(Given(r)) \in Nat /\ DOMAIN Given(r) = 1 .. Len(Given(r))
    BY <1>2, LenProperties
  <1>4. Len(r.took) \in Nat /\ Len(r.inbound) \in Nat /\ DOMAIN r.took = 1 .. Len(r.took)
    BY <1>1, LenProperties
  <1>5. \A i \in DOMAIN Given(r) : Given(r)[i] \in Dgram
    BY <1>2, <1>3, ElementOfSeq
  <1>6. \A i \in DOMAIN r.took : i \in DOMAIN Given(r) /\ Given(r)[i] = r.took[i]
    <2> TAKE i \in DOMAIN r.took
    <2> DEFINE m == Len(r.took)
               n == Len(r.inbound)
    <2>0. m \in Nat /\ n \in Nat /\ i \in 1 .. m
      BY <1>4
    <2> HIDE DEF m, n
    <2>1. i \in 1 .. m + n /\ i <= m
      BY ONLY <2>0
    <2> USE DEF m, n
    <2> QED BY <1>2, <1>3, <2>1
  <1> QED BY <1>2, <1>3, <1>5, <1>6

LEMMA SessionTypes ==
  ASSUME MultiTyped
  PROVE  /\ Len(sessions) \in Nat /\ Sids = 1 .. Len(sessions)
         /\ \A s \in Sids : sessions[s] \in Session
         /\ \A s \in Sids : sessions[s].key \in Keys
         /\ \A s \in Sids : \A i \in DOMAIN Given(sessions[s]) : Given(sessions[s])[i] \in Dgram
  <1>1. Len(sessions) \in Nat /\ Sids = 1 .. Len(sessions)
    BY LenProperties DEF MultiTyped, Sids
  <1>2. \A s \in Sids : sessions[s] \in Session
    BY <1>1, ElementOfSeq DEF MultiTyped
  <1>3. \A s \in Sids : sessions[s].key \in Keys
    BY <1>2 DEF Session
  <1> QED BY <1>1, <1>2, <1>3, GivenType

LEMMA LiveFinite ==
  ASSUME MultiTyped
  PROVE  IsFiniteSet(LiveSessions) /\ Cardinality(LiveSessions) \in Nat
  <1>1. IsFiniteSet(Sids)
    BY SessionTypes, FS_Interval
  <1> QED BY <1>1, FS_Subset, FS_CardinalityType DEF LiveSessions

LEMMA ShrinksStreams ==
  ASSUME Streams, Shrinks, UNCHANGED seq
  PROVE  Streams'
  <1> SUFFICES ASSUME NEW s \in Sids'
               PROVE  /\ \A i \in DOMAIN Given(sessions'[s]) :
                           /\ Given(sessions'[s])[i].key = sessions'[s].key
                           /\ Given(sessions'[s])[i].n <= seq'[sessions'[s].key]
                      /\ \A i, j \in DOMAIN Given(sessions'[s]) : i < j => Given(sessions'[s])[i].n < Given(sessions'[s])[j].n
                      /\ \A t \in Sids' : t < s /\ sessions'[t].key = sessions'[s].key =>
                           \A i \in DOMAIN Given(sessions'[s]), j \in DOMAIN Given(sessions'[t]) :
                             Given(sessions'[t])[j].n < Given(sessions'[s])[i].n
    BY DEF Streams, Given
  <1>1. s \in Sids /\ Sids' = Sids /\ sessions'[s].key = sessions[s].key
    BY DEF Shrinks, Sids
  <1>2. \A t \in Sids : \A i \in DOMAIN Given(sessions'[t]) :
          i \in DOMAIN Given(sessions[t]) /\ Given(sessions'[t])[i] = Given(sessions[t])[i]
    BY DEF Shrinks, Prefix
  <1>3. \A i \in DOMAIN Given(sessions'[s]) :
          Given(sessions'[s])[i].key = sessions'[s].key /\ Given(sessions'[s])[i].n <= seq'[sessions'[s].key]
    BY <1>1, <1>2 DEF Streams
  <1>4. \A i, j \in DOMAIN Given(sessions'[s]) : i < j => Given(sessions'[s])[i].n < Given(sessions'[s])[j].n
    BY <1>1, <1>2 DEF Streams
  <1>5. \A t \in Sids' : t < s /\ sessions'[t].key = sessions'[s].key =>
          \A i \in DOMAIN Given(sessions'[s]), j \in DOMAIN Given(sessions'[t]) :
            Given(sessions'[t])[j].n < Given(sessions'[s])[i].n
    BY <1>1, <1>2 DEF Streams, Shrinks
  <1> QED BY <1>3, <1>4, <1>5

LEMMA ShrinksBuffered ==
  ASSUME Buffered, Shrinks, UNCHANGED <<inbox, seq>>
  PROVE  Buffered'
  <1>1. \A t \in Sids : \A i \in DOMAIN Given(sessions'[t]) :
          i \in DOMAIN Given(sessions[t]) /\ Given(sessions'[t])[i] = Given(sessions[t])[i]
    BY DEF Shrinks, Prefix
  <1>2. \A s \in Sids', i \in DOMAIN inbox : inbox[i].key = sessions'[s].key =>
          \A j \in DOMAIN Given(sessions'[s]) : Given(sessions'[s])[j].n < inbox[i].n
    BY <1>1 DEF Buffered, Shrinks, Sids
  <1> QED BY <1>2 DEF Buffered, Given

LEMMA ShrinksBeingFed ==
  ASSUME BeingFed, Shrinks, UNCHANGED <<inbox, seq, demux>>
  PROVE  BeingFed'
  <1>1. \A t \in Sids : \A i \in DOMAIN Given(sessions'[t]) :
          i \in DOMAIN Given(sessions[t]) /\ Given(sessions'[t])[i] = Given(sessions[t])[i]
    BY DEF Shrinks, Prefix
  <1>2. demux.at = "feeding" =>
          \A s \in Sids' : sessions'[s].key = demux.d.key =>
            \A j \in DOMAIN Given(sessions'[s]) : Given(sessions'[s])[j].n < demux.d.n
    BY <1>1 DEF BeingFed, Shrinks, Sids
  <1> QED BY <1>2 DEF BeingFed, Given

LEMMA ShrinksOneSessionEach ==
  ASSUME MultiTyped, OneSessionEach, Shrinks
  PROVE  OneSessionEach'
  <1>1. LiveSessions' \subseteq LiveSessions
    BY DEF LiveSessions, IsClosed, Shrinks, Sids
  <1>2. Cardinality(LiveSessions') <= Cardinality(LiveSessions) /\ Cardinality(LiveSessions') \in Nat
    BY <1>1, LiveFinite, FS_Subset, FS_CardinalityType
  <1>3. Cardinality(LiveSessions') <= MaxFlows
    BY <1>2, LiveFinite, MultiAssumption DEF OneSessionEach
  <1>4. \A s, t \in LiveSessions' : sessions'[s].key = sessions'[t].key => s = t
    <2>1. \A s \in LiveSessions' : s \in LiveSessions /\ sessions'[s].key = sessions[s].key
      BY <1>1 DEF LiveSessions, Shrinks
    <2> QED BY <2>1 DEF OneSessionEach
  <1> QED BY <1>3, <1>4 DEF OneSessionEach

LEMMA ShrinksMapped ==
  ASSUME Mapped, Shrinks, UNCHANGED <<flows, demux>>
  PROVE  Mapped'
  <1>1. Sids' = Sids /\ \A s \in Sids : sessions'[s].key = sessions[s].key
    BY DEF Shrinks, Sids
  <1>2. LiveSessions' \subseteq LiveSessions
    BY DEF LiveSessions, IsClosed, Shrinks, Sids
  <1>3. LiveSessions \subseteq Sids
    BY DEF LiveSessions
  <1> QED BY <1>1, <1>2, <1>3 DEF Mapped

LEMMA ShrinksTyped ==
  ASSUME MultiTyped, Shrinks, sessions' \in Seq(Session), UNCHANGED <<inbox, seq, flows, demux>>
  PROVE  MultiTyped'
  <1>1. Sids' = Sids /\ \A s \in Sids : sessions'[s].key = sessions[s].key
    BY DEF Shrinks, Sids
  <1> QED BY <1>1 DEF MultiTyped

LEMMA ShrinksInv ==
  ASSUME MultiInv, Shrinks, sessions' \in Seq(Session), UNCHANGED <<inbox, seq, flows, demux>>
  PROVE  MultiInv'
  BY ShrinksStreams, ShrinksBuffered, ShrinksBeingFed, ShrinksOneSessionEach, ShrinksMapped, ShrinksTyped
     DEF MultiInv

-----------------------------------------------------------------------------
(* The steps of the sessions and of the application.                       *)

LEMMA FieldTypes ==
  ASSUME NEW r \in Session
  PROVE  /\ \A v \in {"running", "delivering", "ended"} : [r EXCEPT !.state = v] \in Session
         /\ \A v \in {"waiting", "held", "dropped"} : [r EXCEPT !.receiver = v] \in Session
         /\ \A v \in Seq(Dgram) : [r EXCEPT !.inbound = v] \in Session /\ [r EXCEPT !.took = v] \in Session
         /\ \A v \in Nat : [r EXCEPT !.out = v] \in Session
  BY DEF Session

\* One session is replaced by a shorter form of itself.
LEMMA ReplaceShrinks ==
  ASSUME MultiTyped, NEW s \in Sids, NEW e \in Session, sessions' = [sessions EXCEPT ![s] = e],
         e.key = sessions[s].key, sessions[s].state = "ended" => e.state = "ended",
         Prefix(Given(e), Given(sessions[s]))
  PROVE  Shrinks /\ sessions' \in Seq(Session)
  <1>1. sessions' \in Seq(Session)
    BY SessionTypes, ExceptSeq DEF MultiTyped
  <1>2. DOMAIN sessions' = DOMAIN sessions /\ \A t \in Sids : sessions'[t] = IF t = s THEN e ELSE sessions[t]
    BY DEF Sids
  <1>3. \A t \in Sids : Prefix(Given(sessions[t]), Given(sessions[t]))
    BY DEF Prefix
  <1>4. \A t \in Sids : Prefix(Given(sessions'[t]), Given(sessions[t]))
    BY <1>2, <1>3
  <1>5. \A t \in Sids : /\ sessions'[t].key = sessions[t].key
                        /\ sessions[t].state = "ended" => sessions'[t].state = "ended"
    BY <1>2
  <1> QED BY <1>1, <1>2, <1>4, <1>5 DEF Shrinks

\* ... of which it has been given no less.
LEMMA ReplaceSame ==
  ASSUME MultiTyped, NEW s \in Sids, NEW e \in Session, sessions' = [sessions EXCEPT ![s] = e],
         e.key = sessions[s].key, sessions[s].state = "ended" => e.state = "ended",
         e.took = sessions[s].took, e.inbound = sessions[s].inbound
  PROVE  Shrinks /\ sessions' \in Seq(Session)
  <1>1. Prefix(Given(e), Given(sessions[s]))
    BY DEF Given, Prefix
  <1> QED BY <1>1, ReplaceShrinks

LEMMA EndedShrinks ==
  ASSUME NEW r \in Session
  PROVE  /\ Ended(r) \in Session /\ Ended(r).key = r.key /\ Ended(r).state = "ended"
         /\ Given(Ended(r)) = r.took /\ Prefix(Given(Ended(r)), Given(r))
  <1>1. r.took \in Seq(Dgram) /\ <<>> \in Seq(Dgram)
    BY EmptySeq DEF Session
  <1> DEFINE q == [r EXCEPT !.state = "ended"]
  <1>2. q \in Session
    BY FieldTypes
  <1>3. Ended(r) = [q EXCEPT !.inbound = <<>>]
    BY DEF Ended, Session
  <1>4. q.took = r.took /\ q.key = r.key /\ q.state = "ended"
    BY DEF Session
  <1> HIDE DEF q
  <1>5. Ended(r) \in Session
    BY <1>1, <1>2, <1>3, FieldTypes
  <1>6. Ended(r).took = r.took /\ Ended(r).key = r.key /\ Ended(r).state = "ended" /\ Ended(r).inbound = <<>>
    BY <1>2, <1>3, <1>4 DEF Session
  <1>7. Given(Ended(r)) = r.took
    BY <1>1, <1>6, ConcatEmptySeq DEF Given
  <1> QED BY <1>5, <1>6, <1>7, GivenType DEF Prefix

LEMMA PumpsShrinks ==
  ASSUME MultiTyped, NEW s \in Sids, Pumps(s)
  PROVE  Shrinks /\ sessions' \in Seq(Session)
  <1> DEFINE r == sessions[s]
             room == r.receiver = "dropped" \/ r.out < FlowOutCap
             e1 == [r EXCEPT !.inbound = Tail(@)]
             e2 == [e1 EXCEPT !.took = Append(@, Head(r.inbound))]
             e3 == [e2 EXCEPT !.state = IF room THEN "running" ELSE "delivering"]
             o  == IF r.receiver # "dropped" /\ room THEN r.out + 1 ELSE r.out
             e  == [e3 EXCEPT !.out = o]
  <1>0. r \in Session
    BY SessionTypes
  <1>1. /\ r.state = "running" /\ r.inbound # <<>>
        /\ sessions' = [sessions EXCEPT ![s] = e]
    BY <1>0 DEF Pumps, Session
  <1>2. r.took \in Seq(Dgram) /\ r.inbound \in Seq(Dgram) /\ r.out \in Nat
    BY <1>0 DEF Session
  <1>3. /\ Head(r.inbound) \in Dgram /\ Tail(r.inbound) \in Seq(Dgram)
        /\ r.inbound = <<Head(r.inbound)>> \o Tail(r.inbound)
    BY <1>1, <1>2, TailType
  <1>4. Append(r.took, Head(r.inbound)) \in Seq(Dgram)
    BY <1>2, <1>3, AppendProperties
  <1> HIDE DEF r
  <1>5. e1 \in Session /\ e1.took = r.took /\ e1.inbound = Tail(r.inbound) /\ e1.key = r.key /\ e1.out = r.out
    BY <1>0, <1>3, FieldTypes DEF Session
  <1> HIDE DEF e1
  <1>6. /\ e2 \in Session /\ e2.took = Append(r.took, Head(r.inbound)) /\ e2.inbound = Tail(r.inbound)
        /\ e2.key = r.key /\ e2.out = r.out
    BY <1>4, <1>5, FieldTypes DEF Session
  <1> HIDE DEF e2
  <1>7. /\ e3 \in Session /\ e3.took = Append(r.took, Head(r.inbound)) /\ e3.inbound = Tail(r.inbound)
        /\ e3.key = r.key /\ e3.out = r.out
    BY <1>6, FieldTypes DEF Session
  <1> HIDE DEF e3
  <1>2a. o \in Nat
    BY <1>2
  <1> HIDE DEF o
  <1>8. /\ e \in Session /\ e.took = Append(r.took, Head(r.inbound)) /\ e.inbound = Tail(r.inbound)
        /\ e.key = r.key
    BY <1>2a, <1>7, FieldTypes, ZenonT(30) DEF Session
  <1> HIDE DEF e
  <1>9. Given(e) = Given(r)
    <2>1. Append(r.took, Head(r.inbound)) = r.took \o <<Head(r.inbound)>>
      BY <1>2, <1>3, AppendIsConcat
    <2> DEFINE h == <<Head(r.inbound)>>
               q == Tail(r.inbound)
    <2>2. h \in Seq(Dgram) /\ q \in Seq(Dgram)
      BY <1>3
    <2> HIDE DEF h, q
    <2>3. (r.took \o h) \o q = r.took \o (h \o q)
      BY ONLY <1>2, <2>2, DgramAssoc, Zenon
    <2> QED BY <1>3, <1>8, <2>1, <2>3 DEF Given, h, q
  <1>10. Prefix(Given(e), Given(r))
    BY <1>9 DEF Prefix
  <1> QED BY <1>1, <1>8, <1>10, ReplaceShrinks DEF r

LEMMA DeliversShrinks ==
  ASSUME MultiTyped, NEW s \in Sids, Delivers(s)
  PROVE  Shrinks /\ sessions' \in Seq(Session)
  <1> DEFINE r == sessions[s]
             e1 == [r EXCEPT !.state = "running"]
             o  == IF r.receiver = "dropped" THEN r.out ELSE r.out + 1
             e  == [e1 EXCEPT !.out = o]
  <1>0. r \in Session
    BY SessionTypes
  <1>1. r.state = "delivering" /\ sessions' = [sessions EXCEPT ![s] = e]
    BY <1>0 DEF Delivers, Session
  <1> HIDE DEF r
  <1>2. e1 \in Session /\ e1.took = r.took /\ e1.inbound = r.inbound /\ e1.key = r.key /\ e1.out = r.out /\ r.out \in Nat
    BY <1>0, FieldTypes DEF Session
  <1> HIDE DEF e1
  <1>2a. o \in Nat
    BY <1>2
  <1> HIDE DEF o
  <1>3. e \in Session /\ e.took = r.took /\ e.inbound = r.inbound /\ e.key = r.key
    BY <1>2, <1>2a, FieldTypes, SMTT(30) DEF Session
  <1> HIDE DEF e
  <1> QED BY <1>1, <1>3, ReplaceSame DEF r

LEMMA ReadOneShrinks ==
  ASSUME MultiTyped, NEW s \in Sids, ReadOne(s)
  PROVE  Shrinks /\ sessions' \in Seq(Session)
  <1> DEFINE r == sessions[s]
             e == [r EXCEPT !.out = @ - 1]
  <1>0. r \in Session
    BY SessionTypes
  <1>1. r.out > 0 /\ sessions' = [sessions EXCEPT ![s] = e]
    BY <1>0 DEF ReadOne, Session
  <1> HIDE DEF r
  <1>2. r.out - 1 \in Nat
    BY <1>0, <1>1 DEF Session
  <1>3. e \in Session /\ e.took = r.took /\ e.inbound = r.inbound /\ e.key = r.key /\ e.state = r.state
    BY <1>0, <1>2, FieldTypes DEF Session
  <1> HIDE DEF e
  <1> QED BY <1>1, <1>3, ReplaceSame DEF r

LEMMA CloseOneShrinks ==
  ASSUME MultiTyped, NEW s \in Sids, CloseOne(s)
  PROVE  Shrinks /\ sessions' \in Seq(Session)
  <1> DEFINE r == sessions[s]
             e1 == Ended(r)
             e2 == [e1 EXCEPT !.receiver = "dropped"]
             e  == [e2 EXCEPT !.out = 0]
  <1>0. r \in Session
    BY SessionTypes
  <1>1. e1 \in Session /\ e1.key = r.key /\ e1.state = "ended" /\ Prefix(Given(e1), Given(r))
    BY <1>0, EndedShrinks
  <1>2. sessions' = [sessions EXCEPT ![s] = e]
    BY <1>1 DEF CloseOne, Session
  <1> HIDE DEF e1, r
  <1>3. e2 \in Session /\ e2.key = r.key /\ e2.state = "ended" /\ e2.took = e1.took /\ e2.inbound = e1.inbound
    BY <1>1, FieldTypes DEF Session
  <1> HIDE DEF e2
  <1>4. e \in Session /\ e.key = r.key /\ e.state = "ended" /\ e.took = e1.took /\ e.inbound = e1.inbound
    BY <1>3, FieldTypes, SMTT(30) DEF Session
  <1> HIDE DEF e
  <1>5. Given(e) = Given(e1)
    BY <1>4 DEF Given
  <1> QED BY <1>1, <1>2, <1>4, <1>5, ReplaceShrinks DEF r

LEMMA AcceptShrinks ==
  ASSUME MultiTyped, Accept
  PROVE  Shrinks /\ sessions' \in Seq(Session)
  <1> DEFINE s == Head(acceptq)
             r == sessions[s]
             e == [r EXCEPT !.receiver = "held"]
  <1>1. CASE s \in Sids
    <2>0. r \in Session
      BY <1>1, SessionTypes
    <2>1. sessions' = [sessions EXCEPT ![s] = e]
      BY DEF Accept
    <2> HIDE DEF r, s
    <2>2. e \in Session /\ e.took = r.took /\ e.inbound = r.inbound /\ e.key = r.key /\ e.state = r.state
      BY <2>0, FieldTypes DEF Session
    <2> HIDE DEF e
    <2> QED BY <1>1, <2>1, <2>2, ReplaceSame DEF r
  <1>2. CASE s \notin Sids
    <2>1. sessions \in Seq(Session) /\ sessions = [t \in Sids |-> sessions[t]]
      BY LenProperties, SessionTypes DEF MultiTyped, Sids
    <2>2. sessions' = sessions
      BY <1>2, <2>1 DEF Accept, Sids
    <2> QED BY <2>1, <2>2 DEF Shrinks, Prefix, Sids
  <1> QED BY <1>1, <1>2

LEMMA ShutShrinks ==
  ASSUME MultiTyped, Shut
  PROVE  Shrinks /\ sessions' \in Seq(Session)
  <1>1. DOMAIN sessions' = Sids
    BY DEF Shut
  <1>2. \A s \in Sids :
          /\ sessions'[s] \in Session /\ sessions'[s].key = sessions[s].key
          /\ sessions'[s].state = sessions[s].state
          /\ sessions'[s].took = sessions[s].took /\ sessions'[s].inbound = sessions[s].inbound
    <2> TAKE s \in Sids
    <2> DEFINE r  == sessions[s]
               e1 == [r EXCEPT !.receiver = "dropped"]
               e  == [e1 EXCEPT !.out = 0]
    <2>0. r \in Session
      BY SessionTypes
    <2>1. sessions'[s] = r \/ sessions'[s] = e
      BY <2>0 DEF Shut, Session
    <2> HIDE DEF r
    <2>2. e1 \in Session /\ e1.took = r.took /\ e1.inbound = r.inbound /\ e1.key = r.key /\ e1.state = r.state
      BY <2>0, FieldTypes DEF Session
    <2> HIDE DEF e1
    <2>3. e \in Session /\ e.took = r.took /\ e.inbound = r.inbound /\ e.key = r.key /\ e.state = r.state
      BY <2>2, FieldTypes, SMTT(30) DEF Session
    <2> HIDE DEF e
    <2> QED BY <2>0, <2>1, <2>3 DEF r
  <1>3. \A s \in Sids : Prefix(Given(sessions'[s]), Given(sessions[s]))
    BY <1>2 DEF Given, Prefix
  <1>4. sessions' \in Seq(Session)
    <2>1. sessions' = [s \in 1 .. Len(sessions) |-> sessions'[s]] /\ Len(sessions) \in Nat
      BY SessionTypes DEF Shut
    <2>2. sessions' \in [1 .. Len(sessions) -> Session]
      BY <1>2, <2>1, SessionTypes
    <2> QED BY <2>1, <2>2, SeqDef
  <1> QED BY <1>1, <1>2, <1>3, <1>4 DEF Shrinks, Sids

LEMMA ShutInv == ASSUME MultiInv, Shut PROVE MultiInv'
  <1>1. MultiTyped /\ Shrinks /\ sessions' \in Seq(Session)
    BY ShutShrinks DEF MultiInv
  <1>2. inbox' = <<>> /\ demux' = [at |-> "aborted"] /\ flows' = [k \in {} |-> 0] /\ UNCHANGED seq
    BY DEF Shut
  <1>3. DOMAIN flows' = {} /\ demux'.at = "aborted" /\ flows' = [k \in DOMAIN flows' |-> flows'[k]]
        /\ DOMAIN inbox' = {} /\ inbox' \in Seq(Dgram)
    BY <1>2, EmptySeq
  <1>4. MultiTyped'
    BY <1>1, <1>2, <1>3, FS_EmptySet DEF MultiTyped
  <1>5. Mapped'
    BY <1>3 DEF Mapped
  <1>6. OneSessionEach' /\ Streams'
    BY <1>1, <1>2, ShrinksOneSessionEach, ShrinksStreams DEF MultiInv
  <1>7. Buffered' /\ BeingFed'
    BY <1>3 DEF Buffered, BeingFed
  <1> QED BY <1>4, <1>5, <1>6, <1>7 DEF MultiInv

-----------------------------------------------------------------------------
(* The socket and the demultiplexer.                                       *)

LEMMA InitMultiInv == MultiInit => MultiInv
  <1> SUFFICES ASSUME MultiInit PROVE MultiInv
    OBVIOUS
  <1>1. inbox = <<>> /\ sessions = <<>> /\ demux = [at |-> "reading"] /\ flows = [k \in {} |-> 0]
        /\ seq = [k \in Keys |-> 0]
    BY DEF MultiInit, Reading
  <1>2. DOMAIN inbox = {} /\ Sids = {} /\ LiveSessions = {} /\ DOMAIN flows = {} /\ demux.at = "reading"
    BY <1>1 DEF Sids, LiveSessions
  <1>3. inbox \in Seq(Dgram) /\ sessions \in Seq(Session) /\ seq \in [Keys -> Nat]
    BY <1>1, EmptySeq
  <1>4. MultiTyped
    BY <1>1, <1>2, <1>3, FS_EmptySet DEF MultiTyped
  <1>5. OneSessionEach
    BY <1>2, FS_EmptySet, MultiAssumption DEF OneSessionEach
  <1> QED BY <1>2, <1>4, <1>5 DEF MultiInv, Mapped, Streams, Buffered, BeingFed

\* A datagram of a key comes after everything of that key.
LEMMA DatagramInv == ASSUME MultiInv, NEW k \in Keys, Datagram(k) PROVE MultiInv'
  <1> DEFINE d == [key |-> k, n |-> seq[k] + 1]
  <1>0. MultiTyped /\ Mapped /\ OneSessionEach /\ Streams /\ Buffered /\ BeingFed
    BY DEF MultiInv
  <1>1. inbox \in Seq(Dgram) /\ seq[k] \in Nat /\ d \in Dgram /\ d.n = seq[k] + 1 /\ d.key = k
    BY <1>0 DEF MultiTyped, Dgram
  <1>2. inbox' = Append(inbox, d) /\ UNCHANGED <<demux, flows, sessions>>
        /\ seq' = [seq EXCEPT ![k] = @ + 1]
    BY DEF Datagram
  <1>3. seq' \in [Keys -> Nat] /\ \A j \in Keys : seq'[j] = IF j = k THEN seq[k] + 1 ELSE seq[j]
    BY <1>0, <1>2 DEF MultiTyped
  <1>4. \A j \in Keys : seq[j] \in Nat /\ seq[j] <= seq'[j]
    BY <1>0, <1>3 DEF MultiTyped
  <1> HIDE DEF d
  <1>5. /\ inbox' \in Seq(Dgram) /\ DOMAIN inbox = 1 .. Len(inbox) /\ Len(inbox) \in Nat
        /\ DOMAIN inbox' = 1 .. Len(inbox) + 1
        /\ \A i \in 1 .. Len(inbox) : inbox'[i] = inbox[i]
        /\ inbox'[Len(inbox) + 1] = d
    BY <1>1, <1>2, AppendProperties, LenProperties
  <1>6. \A i \in DOMAIN inbox : inbox[i] \in Dgram /\ inbox[i].key \in Keys /\ inbox[i].n \in Nat
    <2>1. \A i \in DOMAIN inbox : inbox[i] \in Dgram
      BY <1>1, <1>5, ElementOfSeq
    <2> QED BY <2>1 DEF Dgram
  <1>7. \A i \in DOMAIN inbox' : \/ i \in DOMAIN inbox /\ inbox'[i] = inbox[i]
                                 \/ i = Len(inbox) + 1 /\ inbox'[i] = d
    BY <1>5
  <1>8. MultiTyped' /\ Mapped'
    BY <1>0, <1>2, <1>3, <1>5 DEF MultiTyped, Mapped, Sids, LiveSessions, IsClosed
  <1>9. OneSessionEach'
    BY <1>0, <1>2 DEF OneSessionEach, LiveSessions, Sids, IsClosed
  <1>10. \A s \in Sids : \A i \in DOMAIN Given(sessions[s]) :
           Given(sessions[s])[i].n \in Nat /\ Given(sessions[s])[i].n <= seq[sessions[s].key] /\ sessions[s].key \in Keys
    BY <1>0, SessionTypes DEF Streams, Dgram
  <1>11. Streams'
    <2>1. \A s \in Sids : \A i \in DOMAIN Given(sessions[s]) : Given(sessions[s])[i].n <= seq'[sessions[s].key]
      BY <1>3, <1>4, <1>10
    <2> QED BY <1>0, <1>2, <2>1 DEF Streams, Sids
  <1>12. Buffered'
    <2>1. \A i \in DOMAIN inbox' : inbox'[i].n <= seq'[inbox'[i].key]
      BY <1>0, <1>1, <1>3, <1>4, <1>6, <1>7, SMTT(30) DEF Buffered
    <2>2. \A i, j \in DOMAIN inbox' : i < j /\ inbox'[i].key = inbox'[j].key => inbox'[i].n < inbox'[j].n
      <3> TAKE i, j \in DOMAIN inbox'
      <3> SUFFICES ASSUME i < j, inbox'[i].key = inbox'[j].key PROVE inbox'[i].n < inbox'[j].n
        OBVIOUS
      <3>1. i \in DOMAIN inbox /\ inbox'[i] = inbox[i]
        BY <1>5
      <3>2. CASE j \in DOMAIN inbox /\ inbox'[j] = inbox[j]
        BY <1>0, <3>1, <3>2 DEF Buffered
      <3>3. CASE inbox'[j] = d
        BY <1>0, <1>1, <1>6, <3>1, <3>3 DEF Buffered
      <3> QED BY <1>7, <3>2, <3>3
    <2>3. \A s \in Sids, i \in DOMAIN inbox' : inbox'[i].key = sessions[s].key =>
            \A j \in DOMAIN Given(sessions[s]) : Given(sessions[s])[j].n < inbox'[i].n
      <3> TAKE s \in Sids, i \in DOMAIN inbox'
      <3>1. CASE i \in DOMAIN inbox /\ inbox'[i] = inbox[i]
        BY <1>0, <3>1 DEF Buffered
      <3>2. CASE inbox'[i] = d
        <4>1. inbox'[i].key = sessions[s].key => sessions[s].key = k /\ inbox'[i].n = seq[k] + 1
          BY <1>1, <3>2
        <4>2. \A j \in DOMAIN Given(sessions[s]) :
                Given(sessions[s])[j].n \in Nat /\ Given(sessions[s])[j].n <= seq[sessions[s].key]
          BY <1>10
        <4> QED BY <1>1, <4>1, <4>2
      <3> QED BY <1>7, <3>1, <3>2
    <2> QED BY <1>2, <2>1, <2>2, <2>3 DEF Buffered, Sids
  <1>13. BeingFed'
    <2> SUFFICES ASSUME demux.at = "feeding" PROVE BeingFed'
      BY <1>2 DEF BeingFed
    <2>1. demux.d \in Dgram /\ demux.d.key \in Keys /\ demux.d.n \in Nat /\ demux.d.n <= seq[demux.d.key]
      BY <1>0 DEF MultiTyped, BeingFed, Dgram
    <2>2. demux.d.n <= seq'[demux.d.key]
      BY <1>3, <1>4, <2>1
    <2>3. \A i \in DOMAIN inbox' : inbox'[i].key = demux.d.key => demux.d.n < inbox'[i].n
      BY <1>0, <1>1, <1>7, <2>1, SMTT(30) DEF BeingFed
    <2> QED BY <1>0, <1>2, <2>2, <2>3 DEF BeingFed, Sids
  <1> QED BY <1>8, <1>9, <1>11, <1>12, <1>13 DEF MultiInv

\* What is left in the buffer after its first datagram.
LEMMA Behind ==
  ASSUME MultiTyped, Buffered, inbox # <<>>
  PROVE  /\ Head(inbox) \in Dgram /\ Head(inbox).key \in Keys /\ Head(inbox).n <= seq[Head(inbox).key]
         /\ Tail(inbox) \in Seq(Dgram)
         /\ \A i \in DOMAIN Tail(inbox) :
              /\ i + 1 \in DOMAIN inbox /\ Tail(inbox)[i] = inbox[i + 1] /\ i \in Nat
              /\ Tail(inbox)[i].key = Head(inbox).key => Head(inbox).n < Tail(inbox)[i].n
         /\ \A s \in Sids : sessions[s].key = Head(inbox).key =>
              \A j \in DOMAIN Given(sessions[s]) : Given(sessions[s])[j].n < Head(inbox).n
  <1>1. inbox \in Seq(Dgram) /\ Len(inbox) \in Nat \ {0} /\ DOMAIN inbox = 1 .. Len(inbox)
    BY EmptySeq, LenProperties DEF MultiTyped
  <1>2. /\ Head(inbox) \in Dgram /\ Tail(inbox) \in Seq(Dgram) /\ Len(Tail(inbox)) = Len(inbox) - 1
        /\ \A i \in 1 .. Len(Tail(inbox)) : Tail(inbox)[i] = inbox[i + 1]
    BY <1>1, HeadTailProperties
  <1>3. DOMAIN Tail(inbox) = 1 .. Len(inbox) - 1
    BY <1>2, LenProperties
  <1>4. Head(inbox) = inbox[1] /\ 1 \in DOMAIN inbox
    BY <1>1
  <1>5. \A i \in DOMAIN Tail(inbox) : i + 1 \in DOMAIN inbox /\ Tail(inbox)[i] = inbox[i + 1] /\ i \in Nat /\ 1 < i + 1
    BY <1>1, <1>2, <1>3
  <1>6. \A i \in DOMAIN Tail(inbox) : Tail(inbox)[i].key = Head(inbox).key => Head(inbox).n < Tail(inbox)[i].n
    BY <1>4, <1>5 DEF Buffered
  <1>7. Head(inbox).key \in Keys /\ Head(inbox).n <= seq[Head(inbox).key]
    BY <1>2, <1>4 DEF Buffered, Dgram
  <1>8. \A s \in Sids : sessions[s].key = Head(inbox).key =>
          \A j \in DOMAIN Given(sessions[s]) : Given(sessions[s])[j].n < Head(inbox).n
    BY <1>4 DEF Buffered
  <1> QED BY <1>2, <1>5, <1>6, <1>7, <1>8

LEMMA TailBuffered ==
  ASSUME MultiTyped, Buffered, inbox # <<>>, inbox' = Tail(inbox), UNCHANGED <<seq, sessions>>
  PROVE  Buffered'
  <1>1. \A i \in DOMAIN inbox' : i \in Nat /\ i + 1 \in DOMAIN inbox /\ inbox'[i] = inbox[i + 1]
    BY Behind
  <1>2. \A i \in DOMAIN inbox' : inbox'[i].n <= seq[inbox'[i].key]
    BY <1>1 DEF Buffered
  <1>3. \A i, j \in DOMAIN inbox' : i < j /\ inbox'[i].key = inbox'[j].key => inbox'[i].n < inbox'[j].n
    <2> TAKE i, j \in DOMAIN inbox'
    <2>1. i < j => i + 1 < j + 1
      BY <1>1
    <2> QED BY <1>1, <2>1 DEF Buffered
  <1>4. \A s \in Sids, i \in DOMAIN inbox' : inbox'[i].key = sessions[s].key =>
          \A j \in DOMAIN Given(sessions[s]) : Given(sessions[s])[j].n < inbox'[i].n
    BY <1>1 DEF Buffered
  <1> QED BY <1>2, <1>3, <1>4 DEF Buffered, Sids

LEMMA SameSessions ==
  ASSUME UNCHANGED sessions
  PROVE  /\ Sids' = Sids /\ LiveSessions' = LiveSessions /\ OneSessionEach = OneSessionEach'
         /\ UNCHANGED seq => Streams' = Streams
  BY DEF Sids, LiveSessions, IsClosed, OneSessionEach, Streams

\* The map without the flows that have ended.
LEMMA ReclaimedKeeps ==
  ASSUME MultiTyped
  PROVE  /\ DOMAIN Reclaimed \subseteq DOMAIN flows /\ IsFiniteSet(DOMAIN Reclaimed)
         /\ Cardinality(DOMAIN Reclaimed) \in Nat
         /\ Reclaimed = [k \in DOMAIN Reclaimed |-> Reclaimed[k]]
         /\ \A k \in DOMAIN Reclaimed : Reclaimed[k] = flows[k]
         /\ \A k \in DOMAIN flows : ~IsClosed(flows[k]) => k \in DOMAIN Reclaimed
  <1>1. DOMAIN Reclaimed \subseteq DOMAIN flows /\ IsFiniteSet(DOMAIN flows)
    BY DEF Reclaimed, MultiTyped
  <1>2. IsFiniteSet(DOMAIN Reclaimed) /\ Cardinality(DOMAIN Reclaimed) \in Nat
    BY <1>1, FS_Subset, FS_CardinalityType
  <1> QED BY <1>1, <1>2 DEF Reclaimed

\* There are no more sessions at work than entries that are kept.
LEMMA LiveReclaimed ==
  ASSUME MultiTyped, Mapped, demux.at # "aborted"
  PROVE  Cardinality(LiveSessions) <= Cardinality(DOMAIN Reclaimed)
  <1> DEFINE D == DOMAIN Reclaimed
             T == {Reclaimed[k] : k \in D}
  <1>1. IsFiniteSet(D) /\ Cardinality(D) \in Nat
    BY ReclaimedKeeps
  <1>2. Reclaimed \in Surjection(D, T)
    <2>1. Reclaimed = [k \in D |-> Reclaimed[k]]
      BY ReclaimedKeeps
    <2> HIDE DEF D
    <2>2. Reclaimed \in [D -> T] /\ \A t \in T : \E k \in D : Reclaimed[k] = t
      BY <2>1
    <2> QED BY <2>2 DEF Surjection
  <1>3. IsFiniteSet(T) /\ Cardinality(T) <= Cardinality(D)
    BY <1>1, <1>2, FS_Surjection
  <1>4. LiveSessions \subseteq T
    <2> SUFFICES ASSUME NEW s \in LiveSessions PROVE s \in T
      OBVIOUS
    <2>1. sessions[s].key \in DOMAIN flows /\ flows[sessions[s].key] = s /\ ~IsClosed(s)
      BY DEF Mapped, LiveSessions
    <2>2. sessions[s].key \in D /\ Reclaimed[sessions[s].key] = s
      BY <2>1, ReclaimedKeeps
    <2> QED BY <2>2
  <1>5. Cardinality(LiveSessions) <= Cardinality(T) /\ Cardinality(T) \in Nat
    BY <1>3, <1>4, FS_Subset, FS_CardinalityType
  <1>6. Cardinality(LiveSessions) \in Nat
    BY LiveFinite
  <1> QED BY <1>1, <1>3, <1>5, <1>6

\* The datagram goes to the session of its key.
LEMMA RouteFeeds ==
  ASSUME MultiInv, demux = Reading, inbox # <<>>, inbox' = Tail(inbox), UNCHANGED <<flows, sessions, seq>>,
         NEW s \in SessionOf(Head(inbox)), demux' = [at |-> "feeding", to |-> s, d |-> Head(inbox)]
  PROVE  MultiInv'
  <1>0. MultiTyped /\ Mapped /\ OneSessionEach /\ Streams /\ Buffered /\ BeingFed
    BY DEF MultiInv
  <1>1. demux'.at = "feeding" /\ demux'.to = s /\ demux'.d = Head(inbox) /\ demux.at # "aborted"
    BY DEF Reading
  <1>2. Head(inbox).key \in DOMAIN flows /\ flows[Head(inbox).key] = s
    BY DEF SessionOf
  <1>3. s \in Sids
    BY <1>0, <1>2 DEF MultiTyped
  <1>4. inbox' \in Seq(Dgram) /\ Head(inbox) \in Dgram
    BY <1>0, Behind
  <1>5. MultiTyped'
    BY <1>0, <1>1, <1>3, <1>4, SameSessions DEF MultiTyped
  <1>6. Mapped'
    BY <1>0, <1>1, <1>2, SameSessions DEF Mapped
  <1>7. Buffered'
    BY <1>0, TailBuffered
  <1>8. BeingFed'
    <2>1. demux'.d.n <= seq'[demux'.d.key]
      BY <1>0, <1>1, Behind
    <2>2. \A i \in DOMAIN inbox' : inbox'[i].key = demux'.d.key => demux'.d.n < inbox'[i].n
      BY <1>0, <1>1, Behind
    <2>3. \A t \in Sids' : sessions'[t].key = demux'.d.key =>
            \A j \in DOMAIN Given(sessions'[t]) : Given(sessions'[t])[j].n < demux'.d.n
      BY <1>0, <1>1, Behind, SameSessions
    <2> QED BY <2>1, <2>2, <2>3 DEF BeingFed, Given
  <1> QED BY <1>0, <1>5, <1>6, <1>7, <1>8, SameSessions DEF MultiInv

\* The datagram is shed: the limit is reached, or the session cannot be built.
LEMMA RouteSheds ==
  ASSUME MultiInv, demux = Reading, inbox # <<>>, inbox' = Tail(inbox), flows' = Reclaimed,
         UNCHANGED <<demux, sessions, seq>>
  PROVE  MultiInv'
  <1>0. MultiTyped /\ Mapped /\ OneSessionEach /\ Streams /\ Buffered
    BY DEF MultiInv
  <1>1. demux.at = "reading"
    BY DEF Reading
  <1>2. inbox' \in Seq(Dgram)
    BY <1>0, Behind
  <1>3. MultiTyped'
    <2>1. DOMAIN flows' \subseteq Keys /\ IsFiniteSet(DOMAIN flows') /\ flows' = [k \in DOMAIN flows' |-> flows'[k]]
      BY <1>0, ReclaimedKeeps DEF MultiTyped
    <2>2. \A k \in DOMAIN flows' : flows'[k] \in Sids /\ sessions[flows'[k]].key = k
      BY <1>0, ReclaimedKeeps DEF MultiTyped
    <2> QED BY <1>0, <1>1, <1>2, <2>1, <2>2, SameSessions DEF MultiTyped
  <1>4. Mapped'
    <2>1. \A k \in DOMAIN flows' : \A s \in Sids : sessions[s].key = k => s <= flows'[k]
      BY <1>0, ReclaimedKeeps DEF Mapped
    <2>2. \A s \in LiveSessions : sessions[s].key \in DOMAIN flows' /\ flows'[sessions[s].key] = s
      BY <1>0, <1>1, ReclaimedKeeps DEF Mapped, LiveSessions
    <2> QED BY <1>1, <2>1, <2>2, SameSessions DEF Mapped
  <1>5. Buffered'
    BY <1>0, TailBuffered
  <1>6. BeingFed'
    BY <1>1 DEF BeingFed
  <1> QED BY <1>0, <1>3, <1>4, <1>5, <1>6, SameSessions DEF MultiInv

\* A session is opened for the datagram's key, under the limit.
LEMMA RouteOpens ==
  ASSUME MultiInv, demux = Reading, inbox # <<>>, inbox' = Tail(inbox), UNCHANGED seq,
         SessionOf(Head(inbox)) = {}, Cardinality(DOMAIN Reclaimed) < MaxFlows,
         NEW new, new = Len(sessions) + 1,
         NEW r, r = [key |-> Head(inbox).key, state |-> "running", receiver |-> "waiting",
                     inbound |-> <<Head(inbox)>>, out |-> 0, took |-> <<>>],
         sessions' = Append(sessions, r),
         flows' = [k \in DOMAIN Reclaimed \cup {Head(inbox).key} |->
                     IF k = Head(inbox).key THEN new ELSE Reclaimed[k]],
         demux' = [at |-> "accepting", to |-> new]
  PROVE  MultiInv'
  <1> DEFINE d == Head(inbox)
             key == d.key
  <1>0. MultiTyped /\ Mapped /\ OneSessionEach /\ Streams /\ Buffered
    BY DEF MultiInv
  <1>1. demux.at = "reading" /\ demux'.at = "accepting"
    BY DEF Reading
  <1>2. d \in Dgram /\ key \in Keys /\ d.n \in Nat /\ d.n <= seq[key] /\ inbox' \in Seq(Dgram)
    BY <1>0, Behind DEF Dgram
  <1>3. r \in Session /\ r.key = key /\ Given(r) = <<d>> /\ r.state = "running"
    <2>1. <<d>> \in Seq(Dgram) /\ <<>> \in Seq(Dgram)
      BY <1>2, EmptySeq
    <2>2. r \in Session
      BY <1>2, <2>1 DEF Session
    <2>3. r.took = <<>> /\ r.inbound = <<d>> /\ r.key = key /\ r.state = "running"
      OBVIOUS
    <2>4. <<>> \o <<d>> = <<d>>
      BY <2>1, ConcatEmptySeq
    <2> QED BY <2>2, <2>3, <2>4 DEF Given
  <1>4. key \notin DOMAIN flows /\ key \notin DOMAIN Reclaimed
    BY <1>0, ReclaimedKeeps DEF SessionOf
  <1>5. /\ sessions' \in Seq(Session) /\ Len(sessions) \in Nat /\ Sids = 1 .. Len(sessions)
        /\ Len(sessions') = new /\ sessions'[new] = r /\ \A s \in Sids : sessions'[s] = sessions[s]
    <2>1. sessions \in Seq(Session) /\ Len(sessions) \in Nat /\ Sids = 1 .. Len(sessions)
      BY <1>0, SessionTypes DEF MultiTyped
    <2> QED BY <1>3, <2>1, AppendProperties
  <1>6. /\ Sids' = Sids \cup {new} /\ new \notin Sids /\ new \in Nat /\ \A s \in Sids : s < new
        /\ \A s \in Sids' : s <= new /\ s \in Nat
    <2>1. Sids' = 1 .. new
      BY <1>5, LenProperties DEF Sids
    <2> QED BY ONLY <1>5, <2>1, new = Len(sessions) + 1
  <1>7. LiveSessions' = LiveSessions \cup {new}
    BY <1>3, <1>5, <1>6 DEF LiveSessions, IsClosed
  <1>8. /\ DOMAIN flows' = DOMAIN Reclaimed \cup {key} /\ flows'[key] = new
        /\ \A k \in DOMAIN Reclaimed : flows'[k] = flows[k] /\ k # key
    BY <1>0, <1>4, ReclaimedKeeps
  <1>9. MultiTyped'
    <2>1. DOMAIN flows' \subseteq Keys /\ IsFiniteSet(DOMAIN flows') /\ flows' = [k \in DOMAIN flows' |-> flows'[k]]
      <3>1. DOMAIN Reclaimed \subseteq Keys /\ IsFiniteSet(DOMAIN Reclaimed)
        BY <1>0, ReclaimedKeeps DEF MultiTyped
      <3>2. IsFiniteSet(DOMAIN Reclaimed \cup {key})
        BY <3>1, FS_AddElement
      <3> QED BY <1>2, <1>8, <3>1, <3>2
    <2>2. \A k \in DOMAIN flows' : flows'[k] \in Sids' /\ sessions'[flows'[k]].key = k
      <3>1. \A k \in DOMAIN Reclaimed : flows[k] \in Sids /\ sessions[flows[k]].key = k
        BY <1>0, ReclaimedKeeps DEF MultiTyped
      <3>2. \A k \in DOMAIN Reclaimed : flows'[k] \in Sids' /\ sessions'[flows'[k]].key = k
        <4>1. \A k \in DOMAIN Reclaimed : flows'[k] = flows[k]
          BY ONLY <1>8
        <4>2. Sids \subseteq Sids' /\ \A s \in Sids : sessions'[s] = sessions[s]
          BY ONLY <1>5, <1>6
        <4> QED BY ONLY <3>1, <4>1, <4>2
      <3>3. flows'[key] \in Sids' /\ sessions'[flows'[key]].key = key
        BY <1>3, <1>5, <1>6, <1>8
      <3> QED BY <1>8, <3>2, <3>3
    <2> QED BY <1>0, <1>1, <1>2, <1>5, <2>1, <2>2 DEF MultiTyped
  <1>10. Mapped'
    <2>1. \A k \in DOMAIN flows' : \A s \in Sids' : sessions'[s].key = k => s <= flows'[k]
      <3> SUFFICES ASSUME NEW k \in DOMAIN flows', NEW s \in Sids', sessions'[s].key = k
                   PROVE  s <= flows'[k]
        OBVIOUS
      <3>1. CASE k = key
        BY <1>6, <1>8, <3>1
      <3>2. CASE k \in DOMAIN Reclaimed
        <4>1. s \in Sids /\ sessions[s].key = k
          BY <1>3, <1>5, <1>6, <1>8, <3>2
        <4> QED BY <1>0, <1>8, <3>2, <4>1, ReclaimedKeeps DEF Mapped
      <3> QED BY <1>8, <3>1, <3>2
    <2>2. \A s \in LiveSessions' : sessions'[s].key \in DOMAIN flows' /\ flows'[sessions'[s].key] = s
      <3>1. \A s \in LiveSessions : sessions[s].key \in DOMAIN Reclaimed /\ flows[sessions[s].key] = s /\ s \in Sids
        BY <1>0, <1>1, ReclaimedKeeps DEF Mapped, LiveSessions
      <3>2. \A s \in LiveSessions : sessions'[s].key \in DOMAIN flows' /\ flows'[sessions'[s].key] = s
        BY <1>5, <1>8, <3>1
      <3>3. sessions'[new].key \in DOMAIN flows' /\ flows'[sessions'[new].key] = new
        BY <1>3, <1>5, <1>8
      <3> QED BY ONLY <1>7, <3>2, <3>3
    <2> QED BY <1>1, <2>1, <2>2 DEF Mapped
  <1>11. OneSessionEach'
    <2>1. Cardinality(LiveSessions') <= MaxFlows
      <3>1. Cardinality(LiveSessions) <= Cardinality(DOMAIN Reclaimed) /\ IsFiniteSet(LiveSessions)
            /\ Cardinality(LiveSessions) \in Nat /\ Cardinality(DOMAIN Reclaimed) \in Nat
        BY <1>0, <1>1, LiveReclaimed, LiveFinite, ReclaimedKeeps
      <3>2. Cardinality(LiveSessions') <= Cardinality(LiveSessions) + 1 /\ Cardinality(LiveSessions') \in Nat
        <4>1. Cardinality(LiveSessions \cup {new})
                = IF new \in LiveSessions THEN Cardinality(LiveSessions) ELSE Cardinality(LiveSessions) + 1
          BY <3>1, FS_AddElement, Zenon
        <4> QED BY ONLY <1>7, <3>1, <4>1
      <3> QED BY <3>1, <3>2, MultiAssumption
    <2>2. \A s, t \in LiveSessions' : sessions'[s].key = sessions'[t].key => s = t
      <3>1. \A s \in LiveSessions : s \in Sids /\ sessions'[s] = sessions[s] /\ sessions[s].key # key
        BY <1>0, <1>1, <1>4, <1>5 DEF Mapped, LiveSessions
      <3> QED BY <1>0, <1>3, <1>5, <1>7, <3>1 DEF OneSessionEach
    <2> QED BY <2>1, <2>2 DEF OneSessionEach
  <1>12. DOMAIN Given(r) = {1} /\ Given(r)[1] = d
    BY <1>3
  <1> HIDE DEF d, key
  <1>13. \A s \in Sids : sessions[s].key = key =>
           \A j \in DOMAIN Given(sessions[s]) : Given(sessions[s])[j].n < d.n
    BY <1>0, Behind DEF d, key
  <1>14. Streams'
    <2> SUFFICES ASSUME NEW s \in Sids'
                 PROVE  /\ \A i \in DOMAIN Given(sessions'[s]) :
                             /\ Given(sessions'[s])[i].key = sessions'[s].key
                             /\ Given(sessions'[s])[i].n <= seq'[sessions'[s].key]
                        /\ \A i, j \in DOMAIN Given(sessions'[s]) : i < j => Given(sessions'[s])[i].n < Given(sessions'[s])[j].n
                        /\ \A t \in Sids' : t < s /\ sessions'[t].key = sessions'[s].key =>
                             \A i \in DOMAIN Given(sessions'[s]), j \in DOMAIN Given(sessions'[t]) :
                               Given(sessions'[t])[j].n < Given(sessions'[s])[i].n
      BY DEF Streams, Given
    <2>1. CASE s \in Sids
      <3>1. sessions'[s] = sessions[s]
        BY <1>5, <2>1
      <3>2. \A t \in Sids' : t < s => t \in Sids /\ sessions'[t] = sessions[t]
        BY <1>5, <1>6, <2>1
      <3>3. /\ \A i \in DOMAIN Given(sessions[s]) :
                   Given(sessions[s])[i].key = sessions[s].key /\ Given(sessions[s])[i].n <= seq[sessions[s].key]
            /\ \A i, j \in DOMAIN Given(sessions[s]) : i < j => Given(sessions[s])[i].n < Given(sessions[s])[j].n
            /\ \A t \in Sids : t < s /\ sessions[t].key = sessions[s].key =>
                 \A i \in DOMAIN Given(sessions[s]), j \in DOMAIN Given(sessions[t]) :
                   Given(sessions[t])[j].n < Given(sessions[s])[i].n
        BY <1>0, <2>1 DEF Streams
      <3> QED BY ONLY <3>1, <3>2, <3>3, UNCHANGED seq
    <2>2. CASE s = new
      <3>1. sessions'[s] = r
        BY <1>5, <2>2
      <3>2. \A i \in DOMAIN Given(r) : i = 1 /\ Given(r)[i] = d
        BY <1>12
      <3>3. \A t \in Sids' : t < s => t \in Sids /\ sessions'[t] = sessions[t]
        BY <1>5, <1>6, <2>2
      <3>4. d.key = key
        BY DEF key
      <3>5. \A i \in DOMAIN Given(r) : Given(r)[i].key = r.key /\ Given(r)[i].n <= seq[r.key]
        BY <1>2, <1>3, <3>2, <3>4
      <3>6. \A i, j \in DOMAIN Given(r) : ~(i < j)
        BY <3>2
      <3>7. \A t \in Sids' : t < s /\ sessions'[t].key = r.key =>
              \A i \in DOMAIN Given(r), j \in DOMAIN Given(sessions'[t]) :
                Given(sessions'[t])[j].n < Given(r)[i].n
        BY ONLY <1>3, <1>13, <3>2, <3>3
      <3> QED BY ONLY <3>1, <3>5, <3>6, <3>7, UNCHANGED seq
    <2> QED BY <1>6, <2>1, <2>2
  <1>15. Buffered'
    <2>1. \A i \in DOMAIN inbox' : /\ i \in Nat /\ i + 1 \in DOMAIN inbox /\ inbox'[i] = inbox[i + 1]
                                   /\ inbox'[i].key = key => d.n < inbox'[i].n
      BY <1>0, Behind DEF d, key
    <2>2. \A i \in DOMAIN inbox' : inbox'[i].n <= seq[inbox'[i].key]
      BY <1>0, <2>1 DEF Buffered
    <2>3. \A i, j \in DOMAIN inbox' : i < j /\ inbox'[i].key = inbox'[j].key => inbox'[i].n < inbox'[j].n
      <3> TAKE i, j \in DOMAIN inbox'
      <3>1. i < j => i + 1 < j + 1
        BY <2>1
      <3> QED BY <1>0, <2>1, <3>1 DEF Buffered
    <2>4. \A s \in Sids', i \in DOMAIN inbox' : inbox'[i].key = sessions'[s].key =>
            \A j \in DOMAIN Given(sessions'[s]) : Given(sessions'[s])[j].n < inbox'[i].n
      <3> TAKE s \in Sids', i \in DOMAIN inbox'
      <3>1. CASE s \in Sids
        <4>1. \A j \in DOMAIN inbox : inbox[j].key = sessions[s].key =>
                \A m \in DOMAIN Given(sessions[s]) : Given(sessions[s])[m].n < inbox[j].n
          BY <1>0, <3>1 DEF Buffered
        <4>2. sessions'[s] = sessions[s] /\ i + 1 \in DOMAIN inbox /\ inbox'[i] = inbox[i + 1]
          BY <1>5, <2>1, <3>1
        <4> QED BY ONLY <4>1, <4>2
      <3>2. CASE s = new
        BY <1>3, <1>5, <1>12, <2>1, <3>2
      <3> QED BY <1>6, <3>1, <3>2
    <2> QED BY <2>2, <2>3, <2>4 DEF Buffered, Given
  <1>16. BeingFed'
    BY <1>1 DEF BeingFed
  <1> QED BY <1>9, <1>10, <1>11, <1>14, <1>15, <1>16 DEF MultiInv

LEMMA RouteInv == ASSUME MultiInv, Route PROVE MultiInv'
  <1>1. demux = Reading /\ inbox # <<>> /\ inbox' = Tail(inbox) /\ UNCHANGED seq
    BY DEF Route
  <1>2. CASE UNCHANGED <<flows, sessions>> /\ \E s \in SessionOf(Head(inbox)) :
               demux' = [at |-> "feeding", to |-> s, d |-> Head(inbox)]
    BY <1>1, <1>2, RouteFeeds
  <1>3. CASE flows' = Reclaimed /\ UNCHANGED <<demux, sessions>>
    BY <1>1, <1>3, RouteSheds
  <1>4. CASE /\ SessionOf(Head(inbox)) = {} /\ ~(Cardinality(DOMAIN Reclaimed) >= MaxFlows)
             /\ sessions' = Append(sessions,
                  [key |-> Head(inbox).key, state |-> "running", receiver |-> "waiting",
                   inbound |-> <<Head(inbox)>>, out |-> 0, took |-> <<>>])
             /\ flows' = [k \in DOMAIN Reclaimed \cup {Head(inbox).key} |->
                            IF k = Head(inbox).key THEN Len(sessions) + 1 ELSE Reclaimed[k]]
             /\ demux' = [at |-> "accepting", to |-> Len(sessions) + 1]
    <2>1. Cardinality(DOMAIN Reclaimed) \in Nat /\ MaxFlows \in Nat
      BY ReclaimedKeeps, MultiAssumption DEF MultiInv
    <2>2. Cardinality(DOMAIN Reclaimed) < MaxFlows
      BY <1>4, <2>1
    <2> QED BY <1>1, <1>4, <2>2, RouteOpens
  <1> QED BY <1>2, <1>3, <1>4 DEF Route

\* The session has ended: its entry goes.
LEMMA FeedDrops ==
  ASSUME MultiInv, demux.at = "feeding", IsClosed(demux.to), flows' = Without(flows, demux.d.key),
         demux' = Reading, UNCHANGED <<inbox, seq, sessions>>
  PROVE  MultiInv'
  <1>0. MultiTyped /\ Mapped /\ OneSessionEach /\ Streams /\ Buffered
    BY DEF MultiInv
  <1>1. demux'.at = "reading"
    BY DEF Reading
  <1>2. /\ DOMAIN flows' = DOMAIN flows \ {demux.d.key} /\ flows' = [k \in DOMAIN flows' |-> flows'[k]]
        /\ \A k \in DOMAIN flows' : flows'[k] = flows[k]
    BY DEF Without
  <1>3. IsFiniteSet(DOMAIN flows')
    <2>1. IsFiniteSet(DOMAIN flows)
      BY <1>0 DEF MultiTyped
    <2>2. DOMAIN flows' \subseteq DOMAIN flows
      BY <1>2
    <2> QED BY ONLY <2>1, <2>2, FS_Subset, Zenon
  <1>4. MultiTyped'
    BY <1>0, <1>1, <1>2, <1>3, SameSessions DEF MultiTyped
  <1>5. Mapped'
    <2>1. flows[demux.d.key] = demux.to
      BY <1>0 DEF Mapped
    <2>2. \A s \in LiveSessions : sessions[s].key \in DOMAIN flows' /\ flows'[sessions[s].key] = s
      BY <1>0, <1>2, <2>1 DEF Mapped, LiveSessions
    <2>3. \A k \in DOMAIN flows' : \A s \in Sids : sessions[s].key = k => s <= flows'[k]
      BY <1>0, <1>2 DEF Mapped
    <2> QED BY <1>1, <2>2, <2>3, SameSessions DEF Mapped
  <1>6. Buffered' /\ BeingFed'
    BY <1>0, <1>1, SameSessions DEF Buffered, BeingFed
  <1> QED BY <1>0, <1>4, <1>5, <1>6, SameSessions DEF MultiInv

\* The datagram is appended to what the newest session of its key was given.
LEMMA FeedAppends ==
  ASSUME MultiInv, demux.at = "feeding", ~IsClosed(demux.to), demux' = Reading,
         sessions' = [sessions EXCEPT ![demux.to].inbound = Append(@, demux.d)],
         UNCHANGED <<inbox, seq, flows>>
  PROVE  MultiInv'
  <1> DEFINE s == demux.to
             d == demux.d
             r == sessions[s]
             e == [r EXCEPT !.inbound = Append(@, d)]
             g == Given(r)
  <1>0. MultiTyped /\ Mapped /\ OneSessionEach /\ Streams /\ Buffered /\ BeingFed
    BY DEF MultiInv
  <1>1. demux'.at = "reading"
    BY DEF Reading
  <1>2. /\ s \in Sids /\ d \in Dgram /\ d.n \in Nat /\ d.key \in DOMAIN flows /\ flows[d.key] = s /\ r.key = d.key
        /\ r \in Session /\ r.took \in Seq(Dgram) /\ r.inbound \in Seq(Dgram) /\ r.key \in Keys
    BY <1>0, SessionTypes DEF MultiTyped, Mapped, Session, Dgram
  <1>3. Append(r.inbound, d) \in Seq(Dgram) /\ Append(r.inbound, d) = r.inbound \o <<d>> /\ <<d>> \in Seq(Dgram)
    <2> DEFINE q == r.inbound
    <2>1. q \in Seq(Dgram) /\ d \in Dgram
      BY <1>2
    <2> HIDE DEF q, r, d, s
    <2>2. Append(q, d) \in Seq(Dgram) /\ <<d>> \in Seq(Dgram)
      BY ONLY <2>1
    <2>3. Append(q, d) = q \o <<d>>
      BY ONLY <2>1, AppendIsConcat
    <2> QED BY <2>2, <2>3 DEF q
  <1>4. /\ sessions' = [sessions EXCEPT ![s] = e]
        /\ e \in Session /\ e.took = r.took /\ e.inbound = Append(r.inbound, d) /\ e.key = r.key /\ e.state = r.state
    <2>1. sessions' = [sessions EXCEPT ![s] = e]
      OBVIOUS
    <2> HIDE DEF r, d, s
    <2>2. e \in Session /\ e.took = r.took /\ e.inbound = Append(r.inbound, d) /\ e.key = r.key /\ e.state = r.state
      BY <1>2, <1>3, FieldTypes DEF Session
    <2> QED BY <2>1, <2>2
  <1>5. Given(e) = Append(g, d) /\ g \in Seq(Dgram)
    <2>1. g \in Seq(Dgram) /\ g = r.took \o r.inbound
      BY <1>2, GivenType DEF Given
    <2> DEFINE last == <<d>>
    <2>2. last \in Seq(Dgram) /\ Append(g, d) = g \o last
      BY <1>2, <1>3, <2>1, AppendIsConcat
    <2> DEFINE a == r.took
               b == r.inbound
    <2>3. a \in Seq(Dgram) /\ b \in Seq(Dgram)
      BY <1>2
    <2> HIDE DEF last, a, b
    <2>4. (a \o b) \o last = a \o (b \o last)
      BY ONLY <2>2, <2>3, DgramAssoc, Zenon
    <2>5. Given(e) = a \o (b \o last)
      BY <1>3, <1>4 DEF Given, last, a, b
    <2> QED BY <2>1, <2>2, <2>4, <2>5 DEF a, b
  <1>6. /\ DOMAIN g = 1 .. Len(g) /\ Len(g) \in Nat /\ DOMAIN Given(e) = 1 .. Len(g) + 1
        /\ \A i \in DOMAIN g : Given(e)[i] = g[i]
        /\ Given(e)[Len(g) + 1] = d
    <2>1. g \in Seq(Dgram) /\ d \in Dgram /\ Given(e) = Append(g, d)
      BY <1>2, <1>5
    <2> DEFINE h == Given(e)
    <2> HIDE DEF g, d, e, r, s, h
    <2>2. h = Append(g, d)
      BY <2>1 DEF h
    <2>3. DOMAIN g = 1 .. Len(g) /\ Len(g) \in Nat
      BY ONLY <2>1, LenProperties
    <2>4. /\ DOMAIN h = 1 .. Len(g) + 1 /\ \A i \in 1 .. Len(g) : h[i] = g[i]
          /\ h[Len(g) + 1] = d
      BY ONLY <2>1, <2>2, <2>3, AppendProperties, LenProperties
    <2> QED BY <2>3, <2>4 DEF h
  <1>7. /\ sessions' \in Seq(Session) /\ Sids' = Sids
        /\ \A t \in Sids : sessions'[t] = IF t = s THEN e ELSE sessions[t]
    BY <1>0, <1>2, <1>4, SessionTypes, ExceptSeq DEF MultiTyped, Sids
  <1> HIDE DEF e, r, d, s, g
  <1>8. \A t \in Sids : sessions'[t].key = sessions[t].key /\ sessions'[t].state = sessions[t].state
    BY <1>4, <1>7 DEF r
  <1>9. LiveSessions' = LiveSessions /\ LiveSessions \subseteq Sids
    BY <1>7, <1>8 DEF LiveSessions, IsClosed
  <1>10. MultiTyped'
    BY <1>0, <1>1, <1>7, <1>8 DEF MultiTyped
  <1>11. Mapped' /\ OneSessionEach'
    BY <1>0, <1>1, <1>7, <1>8, <1>9 DEF Mapped, OneSessionEach
  <1>12. \A i \in DOMAIN Given(e) : \/ i \in DOMAIN g /\ Given(e)[i] = g[i]
                                    \/ i = Len(g) + 1 /\ Given(e)[i] = d
    BY <1>6
  <1>13. \A t \in Sids : sessions[t].key = r.key =>
           t <= s /\ \A j \in DOMAIN Given(sessions[t]) : Given(sessions[t])[j].n < d.n
    BY <1>0, <1>2 DEF BeingFed, Mapped, d, s
  <1>14. Sids \subseteq Nat /\ \A t \in Sids : \A j \in DOMAIN Given(sessions[t]) : Given(sessions[t])[j].n \in Nat
    BY <1>0, SessionTypes DEF Dgram
  <1>15. Streams'
    <2> SUFFICES ASSUME NEW t \in Sids
                 PROVE  /\ \A i \in DOMAIN Given(sessions'[t]) :
                             /\ Given(sessions'[t])[i].key = sessions'[t].key
                             /\ Given(sessions'[t])[i].n <= seq'[sessions'[t].key]
                        /\ \A i, j \in DOMAIN Given(sessions'[t]) : i < j => Given(sessions'[t])[i].n < Given(sessions'[t])[j].n
                        /\ \A u \in Sids : u < t /\ sessions'[u].key = sessions'[t].key =>
                             \A i \in DOMAIN Given(sessions'[t]), j \in DOMAIN Given(sessions'[u]) :
                               Given(sessions'[u])[j].n < Given(sessions'[t])[i].n
      BY <1>7 DEF Streams, Given
    <2>0. /\ \A i \in DOMAIN Given(sessions[t]) :
               Given(sessions[t])[i].key = sessions[t].key /\ Given(sessions[t])[i].n <= seq[sessions[t].key]
          /\ \A i, j \in DOMAIN Given(sessions[t]) : i < j => Given(sessions[t])[i].n < Given(sessions[t])[j].n
          /\ \A u \in Sids : u < t /\ sessions[u].key = sessions[t].key =>
               \A i \in DOMAIN Given(sessions[t]), j \in DOMAIN Given(sessions[u]) :
                 Given(sessions[u])[j].n < Given(sessions[t])[i].n
      BY <1>0 DEF Streams
    <2>1. CASE t # s
      <3>1. sessions'[t] = sessions[t]
        BY <1>7, <2>1
      <3>2. \A u \in Sids : u < t /\ sessions[u].key = sessions[t].key => u # s
        BY <1>13, <1>14, <1>2 DEF r
      <3>3. \A u \in Sids : u < t /\ sessions'[u].key = sessions'[t].key => sessions'[u] = sessions[u]
        BY <1>7, <1>8, <3>2
      <3>4. \A u \in Sids : u < t /\ sessions'[u].key = sessions'[t].key =>
              \A i \in DOMAIN Given(sessions'[t]), j \in DOMAIN Given(sessions'[u]) :
                Given(sessions'[u])[j].n < Given(sessions'[t])[i].n
        BY ONLY <2>0, <3>1, <3>3
      <3> QED BY ONLY <2>0, <3>1, <3>4, UNCHANGED seq
    <2>2. CASE t = s
      <3>1. sessions'[t] = e /\ sessions[t] = r /\ Given(sessions[t]) = g
        BY <1>7, <2>2 DEF r, g
      <3>2. \A i \in DOMAIN Given(e) : Given(e)[i].key = e.key /\ Given(e)[i].n <= seq[e.key]
        <4>1. d.key = r.key /\ d.n <= seq[r.key]
          BY <1>0, <1>2 DEF BeingFed, d
        <4> QED BY <1>4, <1>12, <2>0, <3>1, <4>1
      <3>3. \A i, j \in DOMAIN Given(e) : i < j => Given(e)[i].n < Given(e)[j].n
        <4> SUFFICES ASSUME NEW i \in DOMAIN Given(e), NEW j \in DOMAIN Given(e), i < j
                     PROVE  Given(e)[i].n < Given(e)[j].n
          OBVIOUS
        <4>1. i \in DOMAIN g /\ Given(e)[i] = g[i]
          BY <1>6
        <4>2. CASE j \in DOMAIN g /\ Given(e)[j] = g[j]
          BY <2>0, <3>1, <4>1, <4>2
        <4>3. CASE Given(e)[j] = d
          BY <1>13, <3>1, <4>1, <4>3
        <4> QED BY <1>12, <4>2, <4>3
      <3>4. \A u \in Sids : u < t /\ sessions'[u].key = e.key =>
              \A i \in DOMAIN Given(e), j \in DOMAIN Given(sessions'[u]) : Given(sessions'[u])[j].n < Given(e)[i].n
        <4> SUFFICES ASSUME NEW u \in Sids, u < t, sessions'[u].key = e.key,
                            NEW i \in DOMAIN Given(e), NEW j \in DOMAIN Given(sessions'[u])
                     PROVE  Given(sessions'[u])[j].n < Given(e)[i].n
          OBVIOUS
        <4>1. sessions'[u] = sessions[u] /\ sessions[u].key = r.key
          BY <1>4, <1>7, <1>14, <2>2
        <4>2. CASE i \in DOMAIN g /\ Given(e)[i] = g[i]
          BY <2>0, <3>1, <4>1, <4>2
        <4>3. CASE Given(e)[i] = d
          BY <1>13, <4>1, <4>3
        <4> QED BY <1>12, <4>2, <4>3
      <3> QED BY ONLY <3>1, <3>2, <3>3, <3>4, UNCHANGED seq
    <2> QED BY <2>1, <2>2
  <1>16. Buffered'
    <2>1. \A t \in Sids, i \in DOMAIN inbox : inbox[i].key = sessions'[t].key =>
            \A j \in DOMAIN Given(sessions'[t]) : Given(sessions'[t])[j].n < inbox[i].n
      <3> TAKE t \in Sids, i \in DOMAIN inbox
      <3>1. CASE t # s
        BY <1>0, <1>7, <3>1 DEF Buffered
      <3>2. CASE t = s
        <4>1. sessions'[t] = e /\ e.key = r.key /\ r.key = d.key
          BY <1>2, <1>4, <1>7, <3>2
        <4>2. inbox[i].key = d.key => d.n < inbox[i].n
          BY <1>0 DEF BeingFed, d
        <4>3. inbox[i].key = r.key => \A j \in DOMAIN g : g[j].n < inbox[i].n
          BY <1>0, <1>2 DEF Buffered, g, r
        <4> QED BY ONLY <1>12, <4>1, <4>2, <4>3
      <3> QED BY <3>1, <3>2
    <2> QED BY <1>0, <1>7, <2>1 DEF Buffered, Given
  <1>17. BeingFed'
    BY <1>1 DEF BeingFed
  <1> QED BY <1>10, <1>11, <1>15, <1>16, <1>17 DEF MultiInv

LEMMA FeedInv == ASSUME MultiInv, Feed PROVE MultiInv'
  <1>1. demux.at = "feeding" /\ demux' = Reading /\ UNCHANGED <<inbox, seq>>
    BY DEF Feed
  <1>2. CASE IsClosed(demux.to) /\ flows' = Without(flows, demux.d.key) /\ UNCHANGED sessions
    BY <1>1, <1>2, FeedDrops
  <1>3. CASE /\ ~IsClosed(demux.to) /\ UNCHANGED flows
             /\ sessions' = [sessions EXCEPT ![demux.to].inbound = Append(@, demux.d)]
    BY <1>1, <1>3, FeedAppends
  <1> QED BY <1>2, <1>3 DEF Feed, FeedFails

LEMMA SurfaceInv == ASSUME MultiInv, Surface PROVE MultiInv'
  <1>1. demux.at = "accepting" /\ demux'.at = "reading" /\ UNCHANGED <<inbox, seq, flows, sessions>>
    BY DEF Surface, Reading
  <1> QED BY <1>1, SameSessions DEF MultiInv, MultiTyped, Mapped, Buffered, BeingFed

\* Every step keeps the map, the streams and their order.
LEMMA MultiStep == MultiInv /\ [MultiNext]_multiVars => MultiInv'
  <1> SUFFICES ASSUME MultiInv, [MultiNext]_multiVars PROVE MultiInv'
    OBVIOUS
  <1>0. MultiTyped
    BY DEF MultiInv
  <1>1. CASE \E k \in Keys : Datagram(k)
    BY <1>1, DatagramInv
  <1>2. CASE Route
    BY <1>2, RouteInv
  <1>3. CASE Feed
    BY <1>3, FeedInv
  <1>4. CASE Surface
    BY <1>4, SurfaceInv
  <1>5. CASE Shut
    BY <1>5, ShutInv
  <1>6. ASSUME NEW s \in Sids, Pumps(s) PROVE MultiInv'
    BY <1>0, <1>6, PumpsShrinks, ShrinksInv DEF Pumps
  <1>7. ASSUME NEW s \in Sids, Delivers(s) PROVE MultiInv'
    BY <1>0, <1>7, DeliversShrinks, ShrinksInv DEF Delivers
  <1>8. ASSUME NEW s \in Sids, ReadOne(s) PROVE MultiInv'
    BY <1>0, <1>8, ReadOneShrinks, ShrinksInv DEF ReadOne
  <1>9. ASSUME NEW s \in Sids, CloseOne(s) PROVE MultiInv'
    BY <1>0, <1>9, CloseOneShrinks, ShrinksInv DEF CloseOne
  <1>10. CASE Accept
    BY <1>0, <1>10, AcceptShrinks, ShrinksInv DEF Accept
  <1>11. ASSUME NEW s \in Sids, SessionEnds(s) PROVE MultiInv'
    <2>1. sessions[s] \in Session /\ sessions' = [sessions EXCEPT ![s] = Ended(sessions[s])]
      BY <1>0, <1>11, SessionTypes DEF SessionEnds
    <2>2. Shrinks /\ sessions' \in Seq(Session)
      BY <1>0, <2>1, EndedShrinks, ReplaceShrinks
    <2> QED BY <1>11, <2>2, ShrinksInv DEF SessionEnds
  <1>12. CASE UNCHANGED multiVars
    <2>1. UNCHANGED <<inbox, seq, demux, flows, sessions>>
      BY <1>12 DEF multiVars
    <2> QED BY <2>1, SameSessions DEF MultiInv, MultiTyped, Mapped, Buffered, BeingFed
  <1> QED BY <1>1, <1>2, <1>3, <1>4, <1>5, <1>6, <1>7, <1>8, <1>9, <1>10, <1>11, <1>12
          DEF MultiNext, Demux, Works, AppSteps

\* For any set of keys and any limits: a key has at most one session at work and
\* no more sessions work than MAX_FLOWS; a session takes in the datagrams of its
\* own key alone, in order, and none that an earlier session of the key took
\* (multi.rs: route, the reclaiming of ended flows).
THEOREM MultiFlowsApart == MultiSpec => []FlowsApart
  <1>1. MultiInv => FlowsApart
    <2> SUFFICES ASSUME MultiInv PROVE OwnStream
      BY DEF MultiInv, FlowsApart
    <2>1. MultiTyped /\ Streams
      BY DEF MultiInv
    <2>2. \A s \in Sids : \A i \in DOMAIN sessions[s].took :
            i \in DOMAIN Given(sessions[s]) /\ Given(sessions[s])[i] = sessions[s].took[i]
      BY <2>1, SessionTypes, GivenType
    <2>3. \A s \in Sids :
            /\ \A i \in DOMAIN Given(sessions[s]) : Given(sessions[s])[i].key = sessions[s].key
            /\ \A i, j \in DOMAIN Given(sessions[s]) : i < j => Given(sessions[s])[i].n < Given(sessions[s])[j].n
            /\ \A t \in Sids : t < s /\ sessions[t].key = sessions[s].key =>
                 \A i \in DOMAIN Given(sessions[s]) : \A j \in DOMAIN sessions[t].took :
                   sessions[t].took[j].n < Given(sessions[s])[i].n
      BY <2>1, <2>2 DEF Streams
    <2> QED BY <2>3 DEF OwnStream, Given
  <1> QED BY <1>1, InitMultiInv, MultiStep, PTL DEF MultiSpec

-----------------------------------------------------------------------------
(* The paths of a bonded session.                                          *)

\* Paths come and go only behind the ones the session started with.
AtTheEnd ==
  \A c \in BondCases : /\ c.paths \in Seq([weight : Nat, priority : Nat])
                       /\ c.adds \cup c.removes \subseteq {Len(c.paths)}

LinkT   == [index : Nat, known : BOOLEAN, authed : BOOLEAN, seen : BOOLEAN, silent : 0 .. Old]
MemberT == [index : Nat, weight : Nat, credit : Nat, priority : Nat, rtt : Nat,
            seen : BOOLEAN, silent : 0 .. Old]

\* The driver's path, the group's and the history of the k-th path are one.
PathOK(k) ==
  /\ links[k].index = k - 1 /\ group[k].index = k - 1
  /\ links[k].seen = group[k].seen /\ links[k].silent = group[k].silent
  /\ group[k].credit <= group[k].weight
  /\ heard[k - 1] = IF links[k].seen THEN links[k].silent ELSE Unheard

BondTyped ==
  /\ bond \in BondCases /\ Len(bond.paths) \in Nat
  /\ links \in Seq(LinkT) /\ group \in Seq(MemberT) /\ Len(links) = Len(group)
  /\ Len(links) = Len(bond.paths)
     \/ (Len(links) = Len(bond.paths) + 1 /\ Len(bond.paths) \in bond.adds)
  /\ DOMAIN heard = (0 .. Len(bond.paths) - 1) \cup bond.adds

Expired(k) == links[k].seen /\ links[k].silent > PathTimeout

BondInv ==
  /\ BondTyped
  /\ \A k \in 1 .. Len(links) : PathOK(k)
  /\ driver = "timeout" => \A k \in 1 .. Len(links) : Expired(k)

LEMMA Ages ==
  /\ PathTimeout \in Nat /\ DupGrace \in Nat /\ Old \in Nat /\ Unheard = Old + 1
  /\ PathTimeout + DupGrace < Old /\ PathTimeout < Old
  BY BondAssumption DEF Old, Unheard

\* A function over an initial segment of the naturals is a sequence.
LEMMA SegmentSeq ==
  ASSUME NEW n \in Nat, NEW S, NEW f \in [1 .. n -> S]
  PROVE  f \in Seq(S) /\ Len(f) = n
  <1>1. f \in Seq(S) BY SeqDef
  <1>2. DOMAIN f = 1 .. Len(f) /\ Len(f) \in Nat BY <1>1, LenProperties
  <1>3. 1 .. n = 1 .. Len(f) BY <1>2
  <1> QED BY <1>1, <1>2, <1>3

\* What is known of the k-th path.
LEMMA PathFacts ==
  ASSUME BondInv, NEW k \in 1 .. Len(links)
  PROVE  /\ links[k] \in LinkT /\ group[k] \in MemberT /\ PathOK(k)
         /\ Len(links) \in Nat /\ k \in Nat /\ k - 1 \in DOMAIN heard
         /\ DOMAIN links = 1 .. Len(links) /\ DOMAIN group = 1 .. Len(links)
  <1>1. /\ links \in Seq(LinkT) /\ group \in Seq(MemberT) /\ Len(links) = Len(group)
    BY DEF BondInv, BondTyped
  <1>2. /\ Len(links) \in Nat /\ links \in [1 .. Len(links) -> LinkT]
        /\ group \in [1 .. Len(links) -> MemberT]
    BY <1>1, LenProperties
  <1>3. k - 1 \in DOMAIN heard
    <2> DEFINE n == Len(bond.paths)
               len == Len(links)
    <2>1. n \in Nat /\ (len = n \/ (len = n + 1 /\ n \in bond.adds))
      BY DEF BondInv, BondTyped
    <2>2. DOMAIN heard = (0 .. n - 1) \cup bond.adds BY DEF BondInv, BondTyped
    <2>3. len \in Nat /\ k \in 1 .. len BY <1>2
    <2> HIDE DEF n, len
    <2>4. k - 1 \in 0 .. n - 1 \/ (k - 1 = n /\ len = n + 1) BY <2>1, <2>3
    <2>5. len = n + 1 => n \in bond.adds BY <2>1
    <2> QED BY <2>2, <2>4, <2>5
  <1> QED BY <1>2, <1>3 DEF BondInv

LEMMA BondShape ==
  ASSUME BondInv
  PROVE  /\ links \in [1 .. Len(links) -> LinkT] /\ group \in [1 .. Len(links) -> MemberT]
         /\ Len(links) \in Nat /\ bond \in BondCases
         /\ bond.sender \in BOOLEAN /\ bond.eap \in BOOLEAN /\ bond.simple \in BOOLEAN
         /\ bond.weights \subseteq Nat
  <1>1. /\ links \in Seq(LinkT) /\ group \in Seq(MemberT) /\ Len(links) = Len(group)
        /\ bond \in BondCases
    BY DEF BondInv, BondTyped
  <1>2. /\ Len(links) \in Nat /\ links \in [1 .. Len(links) -> LinkT]
        /\ group \in [1 .. Len(links) -> MemberT]
    BY <1>1, LenProperties
  <1> QED BY <1>1, <1>2, BondAssumption

\* A step that keeps the list of paths.
LEMMA BondKeeps ==
  ASSUME BondInv, bond' = bond,
         links' \in [1 .. Len(links) -> LinkT], group' \in [1 .. Len(links) -> MemberT],
         DOMAIN heard' = DOMAIN heard,
         \A k \in 1 .. Len(links) : PathOK(k)',
         driver' = "timeout" => \A k \in 1 .. Len(links) : Expired(k)'
  PROVE  BondInv'
  <1>1. Len(links) \in Nat BY BondShape
  <1>2. links' \in Seq(LinkT) /\ Len(links') = Len(links) BY <1>1, SegmentSeq
  <1>3. group' \in Seq(MemberT) /\ Len(group') = Len(links) BY <1>1, SegmentSeq
  <1>4. BondTyped' BY <1>2, <1>3 DEF BondInv, BondTyped
  <1> QED BY <1>2, <1>4 DEF BondInv

\* A sign of life.
LEMMA ObservedLink ==
  ASSUME NEW l \in LinkT
  PROVE  /\ Observed(l) \in LinkT /\ Observed(l).index = l.index
         /\ Observed(l).seen = TRUE /\ Observed(l).silent = 0
  <1> DEFINE a == [l EXCEPT !.seen = TRUE]
  <1>1. a \in LinkT /\ a.index = l.index /\ a.seen = TRUE BY DEF LinkT
  <1>2. Observed(l) = [a EXCEPT !.silent = 0] BY DEF Observed
  <1>3. 0 \in 0 .. Old BY Ages
  <1> HIDE DEF a
  <1> QED BY <1>1, <1>2, <1>3 DEF LinkT

LEMMA ObservedMember ==
  ASSUME NEW g \in MemberT
  PROVE  /\ Observed(g) \in MemberT /\ Observed(g).index = g.index
         /\ Observed(g).seen = TRUE /\ Observed(g).silent = 0
         /\ Observed(g).credit = g.credit /\ Observed(g).weight = g.weight
  <1> DEFINE a == [g EXCEPT !.seen = TRUE]
  <1>1. a \in MemberT /\ a.index = g.index /\ a.seen = TRUE
        /\ a.credit = g.credit /\ a.weight = g.weight
    BY DEF MemberT
  <1>2. Observed(g) = [a EXCEPT !.silent = 0] BY DEF Observed
  <1>3. 0 \in 0 .. Old BY Ages
  <1> HIDE DEF a
  <1> QED BY <1>1, <1>2, <1>3 DEF MemberT

LEMMA BondStarts == ASSUME AtTheEnd PROVE BondInit => BondInv
  <1> SUFFICES ASSUME NEW c \in BondCases, BondStart(c) PROVE BondInv BY DEF BondInit
  <1> DEFINE n == Len(c.paths)
             L == [k \in DOMAIN c.paths |-> [index |-> k - 1, known |-> c.sender, authed |-> ~c.eap,
                                             seen |-> FALSE, silent |-> 0]]
             G == [k \in DOMAIN c.paths |->
                     Member(k - 1, c.paths[k].weight, c.paths[k].priority)]
  <1>1. /\ bond = c /\ driver = "running" /\ links = L /\ group = G
        /\ heard = [i \in (0 .. n - 1) \cup c.adds |-> Unheard]
    BY DEF BondStart
  <1>2. c.sender \in BOOLEAN /\ c.eap \in BOOLEAN BY BondAssumption
  <1>3. /\ c.paths \in Seq([weight : Nat, priority : Nat]) BY DEF AtTheEnd
  <1>4. n \in Nat /\ c.paths \in [1 .. n -> [weight : Nat, priority : Nat]]
    BY <1>3, LenProperties
  <1> HIDE DEF n
  <1>5. DOMAIN c.paths = 1 .. n BY <1>4
  <1>6. L \in [1 .. n -> LinkT] BY <1>2, <1>4, <1>5, Ages DEF LinkT
  <1>7. G \in [1 .. n -> MemberT] BY <1>4, <1>5, Ages DEF Member, MemberT
  <1>8. L \in Seq(LinkT) /\ Len(L) = n BY <1>4, <1>6, SegmentSeq
  <1>9. G \in Seq(MemberT) /\ Len(G) = n BY <1>4, <1>7, SegmentSeq
  <1>10. BondTyped BY <1>1, <1>4, <1>8, <1>9 DEF BondTyped, n
  <1>11. ASSUME NEW k \in 1 .. n PROVE PathOK(k)
    <2>1. links[k].index = k - 1 /\ links[k].seen = FALSE /\ links[k].silent = 0
      BY <1>1, <1>5
    <2>2. group[k] = Member(k - 1, c.paths[k].weight, c.paths[k].priority) BY <1>1, <1>5
    <2>3. /\ group[k].index = k - 1 /\ group[k].seen = FALSE /\ group[k].silent = 0
          /\ group[k].credit = group[k].weight /\ group[k].weight \in Nat
      BY <1>4, <2>2 DEF Member
    <2>4. heard[k - 1] = Unheard BY <1>1, <1>4
    <2>5. ~links[k].seen BY <2>1
    <2>6. group[k].credit <= group[k].weight BY <2>3
    <2>7. heard[k - 1] = IF links[k].seen THEN links[k].silent ELSE Unheard BY <2>4, <2>5
    <2> QED BY <2>1, <2>3, <2>6, <2>7, Zenon DEF PathOK
  <1> QED BY <1>1, <1>8, <1>10, <1>11 DEF BondInv

\* on_recv: the datagram, the driver's path and the group's are the same path's.
LEMMA BondHears ==
  ASSUME BondInv, NEW k \in DOMAIN links, NEW kind, NEW rtt \in Nat, OnDatagram(k, kind, rtt)
  PROVE  BondInv'
  <1> DEFINE auth == kind = "eap" /\ bond.eap
             new == Touched(links[k], kind, auth)
             echo == EchoRtt(kind, links[k], rtt)
  <1>1. /\ links \in [1 .. Len(links) -> LinkT] /\ group \in [1 .. Len(links) -> MemberT]
        /\ bond.eap \in BOOLEAN /\ bond.simple \in BOOLEAN /\ Len(links) \in Nat
    BY BondShape
  <1>2. k \in 1 .. Len(links) /\ k \in Nat BY <1>1
  <1>3. /\ links[k] \in LinkT /\ group[k] \in MemberT /\ PathOK(k) /\ k - 1 \in DOMAIN heard
        /\ DOMAIN links = 1 .. Len(links)
    BY <1>2, PathFacts
  <1>4. links[k].index = k - 1 BY <1>3 DEF PathOK
  <1>5. Position(k) = k BY <1>2, <1>4 DEF Position
  <1>6. /\ heard' = [heard EXCEPT ![k - 1] = 0] /\ bond' = bond
        /\ links' = [links EXCEPT ![k] = new]
        /\ group' = GroupObserve(k - 1, echo)
        /\ driver' # "timeout"
    <2>1. /\ heard' = [heard EXCEPT ![k - 1] = 0] /\ bond' = bond BY <1>4 DEF OnDatagram
    <2>2. /\ links' = [links EXCEPT ![k] = new]
          /\ group' = GroupObserve(k - 1, echo)
          /\ driver' \in {"running", "rejected"}
      BY <1>3, <1>5, <1>2 DEF OnDatagram, Hears
    <2> QED BY <2>1, <2>2
  <1>7. new \in LinkT /\ new.index = k - 1 /\ new.seen = TRUE /\ new.silent = 0
    <2> DEFINE o == Observed(links[k])
               b == [o EXCEPT !.known = o.known \/ Learns(kind)]
    <2>1. o \in LinkT /\ o.index = k - 1 /\ o.seen = TRUE /\ o.silent = 0
      BY <1>3, <1>4, ObservedLink
    <2>2. Learns(kind) \in BOOLEAN /\ auth \in BOOLEAN BY <1>1 DEF Learns
    <2>3. new = [b EXCEPT !.authed = o.authed \/ auth]
      <3>1. b.authed = o.authed BY <2>1 DEF LinkT
      <3>2. new = [o EXCEPT !.known = @ \/ Learns(kind), !.authed = @ \/ auth]
        BY DEF Touched, Hears
      <3> QED BY <3>1, <3>2
    <2> HIDE DEF o, auth
    <2>4. b \in LinkT /\ b.index = k - 1 /\ b.seen = TRUE /\ b.silent = 0
      BY <2>1, <2>2 DEF LinkT
    <2> HIDE DEF b, new
    <2>5. (o.authed \/ auth) \in BOOLEAN BY <2>1, <2>2 DEF LinkT
    <2> QED BY <2>3, <2>4, <2>5 DEF LinkT
  <1> HIDE DEF new, auth
  <1>8. echo \in Nat BY DEF EchoRtt
  <1> HIDE DEF echo
  <1>9. ASSUME NEW j \in 1 .. Len(links), j # k
        PROVE  group'[j] = group[j]
    <2>1. group[j].index = j - 1 BY PathFacts DEF PathOK
    <2>2. j - 1 # k - 1 BY <1>2, <1>9
    <2> QED BY <1>1, <1>6, <2>1, <2>2 DEF GroupObserve
  <1>10. /\ group'[k] \in MemberT /\ group'[k].index = k - 1 /\ group'[k].seen = TRUE
         /\ group'[k].silent = 0 /\ group'[k].credit <= group'[k].weight
    <2> DEFINE o == Observed(group[k])
    <2>1. group[k].index = k - 1 /\ group[k].credit <= group[k].weight BY <1>3 DEF PathOK
    <2>2. /\ o \in MemberT /\ o.index = k - 1 /\ o.seen = TRUE /\ o.silent = 0
          /\ o.credit <= o.weight
      BY <1>3, <2>1, ObservedMember
    <2>3. group'[k] = [o EXCEPT !.rtt = IF echo = 0 THEN o.rtt ELSE echo]
      BY <1>1, <1>2, <1>6, <2>1 DEF GroupObserve
    <2> HIDE DEF o
    <2> QED BY <1>8, <2>2, <2>3 DEF MemberT
  <1>11. links' \in [1 .. Len(links) -> LinkT] BY <1>1, <1>2, <1>6, <1>7
  <1>12. group' \in [1 .. Len(links) -> MemberT]
    <2>1. group' = [j \in 1 .. Len(links) |-> group'[j]]
      <3>1. DOMAIN group = 1 .. Len(links) BY <1>1
      <3> QED BY <1>6, <3>1 DEF GroupObserve
    <2>2. \A j \in 1 .. Len(links) : group'[j] \in MemberT BY <1>1, <1>9, <1>10
    <2> QED BY <2>1, <2>2
  <1>13. ASSUME NEW j \in 1 .. Len(links) PROVE PathOK(j)'
    <2>1. CASE j = k
      <3>1. heard'[k - 1] = 0 BY <1>3, <1>6
      <3>2. links'[k] = new BY <1>1, <1>2, <1>6
      <3> QED BY <1>7, <1>10, <2>1, <3>1, <3>2 DEF PathOK
    <2>2. CASE j # k
      <3>1. heard'[j - 1] = heard[j - 1] BY <1>2, <1>6, <2>2
      <3>2. links'[j] = links[j] BY <1>1, <1>6, <2>2
      <3>3. PathOK(j) BY PathFacts
      <3> QED BY <1>9, <2>2, <3>1, <3>2, <3>3 DEF PathOK
    <2> QED BY <2>1, <2>2
  <1>14. DOMAIN heard' = DOMAIN heard BY <1>6
  <1> QED BY <1>6, <1>11, <1>12, <1>13, <1>14, BondKeeps

LEMMA AgeType == ASSUME NEW n \in 0 .. Old PROVE Age(n) \in 0 .. Old
  BY Ages DEF Age

\* The tick ages the driver's path, the group's and the history alike.
LEMMA BondTicks == ASSUME BondInv, OnTick PROVE BondInv'
  <1> DEFINE aged == [k \in DOMAIN links |-> [links[k] EXCEPT !.silent = Age(links[k].silent)]]
             G    == [k \in DOMAIN group |-> [group[k] EXCEPT !.silent = Age(group[k].silent)]]
  <1>1. /\ links' = aged /\ group' = G /\ bond' = bond
        /\ heard' = [i \in DOMAIN heard |-> IF heard[i] = Unheard THEN Unheard ELSE Age(heard[i])]
        /\ driver' = IF AllExpired(aged) THEN "timeout" ELSE "running"
    BY DEF OnTick
  <1>2. /\ links \in [1 .. Len(links) -> LinkT] /\ group \in [1 .. Len(links) -> MemberT]
        /\ DOMAIN links = 1 .. Len(links) /\ DOMAIN group = 1 .. Len(links)
    BY BondShape
  <1>3. ASSUME NEW k \in 1 .. Len(links)
        PROVE  /\ aged[k] \in LinkT /\ G[k] \in MemberT /\ PathOK(k)'
    <2>1. /\ links[k] \in LinkT /\ group[k] \in MemberT /\ PathOK(k) /\ k - 1 \in DOMAIN heard
      BY PathFacts
    <2>2. aged[k] = [links[k] EXCEPT !.silent = Age(links[k].silent)]
          /\ G[k] = [group[k] EXCEPT !.silent = Age(group[k].silent)]
      BY <1>2
    <2>3. links[k].silent \in 0 .. Old /\ group[k].silent \in 0 .. Old
      BY <2>1 DEF LinkT, MemberT
    <2>4. /\ aged[k] \in LinkT /\ aged[k].index = links[k].index /\ aged[k].seen = links[k].seen
          /\ aged[k].silent = Age(links[k].silent)
      <3> DEFINE t == Age(links[k].silent)
      <3>1. t \in 0 .. Old /\ aged[k] = [links[k] EXCEPT !.silent = t] BY <2>2, <2>3, AgeType
      <3> HIDE DEF t, aged
      <3>2. /\ aged[k] \in LinkT /\ aged[k].index = links[k].index /\ aged[k].seen = links[k].seen
            /\ aged[k].silent = t
        BY <2>1, <3>1 DEF LinkT
      <3> QED BY <3>2 DEF t
    <2>5. /\ G[k] \in MemberT /\ G[k].index = group[k].index /\ G[k].seen = group[k].seen
          /\ G[k].silent = Age(group[k].silent) /\ G[k].credit = group[k].credit
          /\ G[k].weight = group[k].weight
      <3> DEFINE t == Age(group[k].silent)
      <3>1. t \in 0 .. Old /\ G[k] = [group[k] EXCEPT !.silent = t] BY <2>2, <2>3, AgeType
      <3> HIDE DEF t, G
      <3>2. /\ G[k] \in MemberT /\ G[k].index = group[k].index /\ G[k].seen = group[k].seen
            /\ G[k].silent = t /\ G[k].credit = group[k].credit /\ G[k].weight = group[k].weight
        BY <2>1, <3>1 DEF MemberT
      <3> QED BY <3>2 DEF t
    <2>6. heard'[k - 1] = IF links[k].seen THEN Age(links[k].silent) ELSE Unheard
      <3>1. heard'[k - 1] = IF heard[k - 1] = Unheard THEN Unheard ELSE Age(heard[k - 1])
        BY <1>1, <2>1
      <3>2. heard[k - 1] = IF links[k].seen THEN links[k].silent ELSE Unheard BY <2>1 DEF PathOK
      <3>3. links[k].silent # Unheard BY <2>3, Ages
      <3> QED BY <3>1, <3>2, <3>3
    <2> HIDE DEF aged, G
    <2>7. links'[k] = aged[k] /\ group'[k] = G[k] BY <1>1
    <2> QED BY <2>1, <2>4, <2>5, <2>6, <2>7, Zenon DEF PathOK
  <1>4. links' \in [1 .. Len(links) -> LinkT] BY <1>1, <1>2, <1>3
  <1>5. group' \in [1 .. Len(links) -> MemberT] BY <1>1, <1>2, <1>3
  <1>6. driver' = "timeout" => \A k \in 1 .. Len(links) : Expired(k)'
    <2>1. DOMAIN aged = 1 .. Len(links) BY <1>2
    <2> HIDE DEF aged
    <2> QED BY <1>1, <2>1 DEF AllExpired, Expired
  <1>7. DOMAIN heard' = DOMAIN heard BY <1>1
  <1> HIDE DEF aged, G
  <1> QED BY <1>1, <1>3, <1>4, <1>5, <1>6, <1>7, BondKeeps

LEMMA BondWeighs ==
  ASSUME BondInv, NEW i, NEW w \in Nat, SetWeight(i, w) PROVE BondInv'
  <1> DEFINE to(k) == IF group[k].index = i THEN w ELSE group[k].weight
             G == [k \in DOMAIN group |-> [group[k] EXCEPT !.weight = to(k), !.credit = to(k)]]
  <1>1. /\ group' = group \/ group' = G
        /\ UNCHANGED <<bond, links, heard, driver>> /\ driver' # "timeout"
    BY DEF SetWeight, Runs
  <1>2. /\ links \in [1 .. Len(links) -> LinkT] /\ group \in [1 .. Len(links) -> MemberT]
        /\ DOMAIN group = 1 .. Len(links)
    BY BondShape
  <1>3. ASSUME NEW k \in 1 .. Len(links)
        PROVE  /\ G[k] \in MemberT /\ G[k].index = group[k].index /\ G[k].seen = group[k].seen
               /\ G[k].silent = group[k].silent /\ G[k].credit <= G[k].weight
    <2> DEFINE a == [group[k] EXCEPT !.weight = to(k)]
    <2>1. group[k] \in MemberT BY <1>2
    <2>2. to(k) \in Nat BY <2>1 DEF MemberT
    <2>3. G[k] = [a EXCEPT !.credit = to(k)] BY <1>2
    <2> HIDE DEF to
    <2>4. /\ a \in MemberT /\ a.index = group[k].index /\ a.seen = group[k].seen
          /\ a.silent = group[k].silent /\ a.weight = to(k)
      BY <2>1, <2>2 DEF MemberT
    <2> HIDE DEF a, G
    <2>5. /\ G[k] \in MemberT /\ G[k].index = a.index /\ G[k].seen = a.seen
          /\ G[k].silent = a.silent /\ G[k].weight = a.weight /\ G[k].credit = to(k)
      BY <2>2, <2>3, <2>4 DEF MemberT
    <2> QED BY <2>2, <2>4, <2>5
  <1>4. G \in [1 .. Len(links) -> MemberT] BY <1>2, <1>3
  <1>5. ASSUME NEW k \in 1 .. Len(links) PROVE PathOK(k)'
    <2>1. PathOK(k) BY PathFacts
    <2> HIDE DEF G
    <2> QED BY <1>1, <1>3, <2>1 DEF PathOK
  <1> HIDE DEF G
  <1>6. group' \in [1 .. Len(links) -> MemberT] BY <1>1, <1>2, <1>4
  <1> QED BY <1>1, <1>2, <1>5, <1>6, BondKeeps

\* add_path: the path takes the place that its index names.
LEMMA BondAdds ==
  ASSUME AtTheEnd, BondInv, NEW i \in bond.adds, AddPath(i, 0) PROVE BondInv'
  <1> DEFINE n == Len(bond.paths)
             l == Link(i, ~bond.eap)
             g == Member(i, 0, 0)
  <1>1. /\ Runs /\ i \notin Indices /\ bond' = bond /\ driver' = driver
        /\ links' = Append(links, l) /\ group' = Append(group, g)
        /\ heard' = [heard EXCEPT ![i] = Unheard]
    BY DEF AddPath
  <1>2. /\ bond \in BondCases /\ n \in Nat /\ links \in Seq(LinkT) /\ group \in Seq(MemberT)
        /\ Len(links) = Len(group) /\ (Len(links) = n \/ Len(links) = n + 1)
        /\ DOMAIN heard = (0 .. n - 1) \cup bond.adds
    BY DEF BondInv, BondTyped
  <1>3. i = n BY <1>2 DEF AtTheEnd
  <1>4. Len(links) = n
    <2>1. CASE Len(links) = n + 1
      <3>1. n + 1 \in 1 .. Len(links) BY <1>2, <2>1
      <3>2. links[n + 1].index = (n + 1) - 1 /\ DOMAIN links = 1 .. Len(links)
        BY <3>1, PathFacts DEF PathOK
      <3> HIDE DEF n
      <3>3. links[n + 1].index = n
        <4>1. n \in Nat BY <1>2
        <4>2. (n + 1) - 1 = n BY <4>1
        <4> QED BY <3>2, <4>2
      <3> QED BY <1>1, <1>3, <3>1, <3>2, <3>3 DEF Indices
    <2> QED BY <1>2, <2>1
  <1>5. bond.sender \in BOOLEAN /\ bond.eap \in BOOLEAN BY BondShape
  <1>6. l \in LinkT /\ l.index = i /\ l.seen = FALSE /\ l.silent = 0
    BY <1>2, <1>3, <1>5, Ages DEF Link, LinkT
  <1>7. g \in MemberT /\ g.index = i /\ g.seen = FALSE /\ g.silent = 0 /\ g.credit <= g.weight
    BY <1>2, <1>3, Ages DEF Member, MemberT
  <1> HIDE DEF l, g, n
  <1>8. /\ links' \in Seq(LinkT) /\ Len(links') = n + 1 /\ links'[n + 1] = l
        /\ \A k \in 1 .. n : links'[k] = links[k]
    BY <1>1, <1>2, <1>4, <1>6, AppendProperties
  <1>9. /\ group' \in Seq(MemberT) /\ Len(group') = n + 1 /\ group'[n + 1] = g
        /\ \A k \in 1 .. n : group'[k] = group[k]
    <2>1. Len(group) = n /\ group \in Seq(MemberT) /\ n \in Nat BY <1>2, <1>4
    <2>2. g \in MemberT /\ group' = Append(group, g) BY <1>1, <1>7
    <2> QED BY <2>1, <2>2, AppendProperties
  <1>10. DOMAIN heard' = DOMAIN heard /\ heard'[n] = Unheard /\ \A k \in 1 .. n : heard'[k - 1] = heard[k - 1]
    <2>1. n \in DOMAIN heard BY <1>2, <1>3
    <2>2. \A k \in 1 .. n : k - 1 # n BY <1>2
    <2> QED BY <1>1, <1>3, <2>1, <2>2
  <1>11. BondTyped' BY <1>1, <1>2, <1>3, <1>8, <1>9, <1>10 DEF BondTyped, n
  <1>12. ASSUME NEW k \in 1 .. n + 1 PROVE PathOK(k)'
    <2>1. CASE k = n + 1
      <3>1. k - 1 = n BY <1>2, <2>1
      <3>2. ~links'[k].seen BY <1>6, <1>8, <2>1
      <3> QED BY <1>3, <1>6, <1>7, <1>8, <1>9, <1>10, <2>1, <3>1, <3>2 DEF PathOK
    <2>2. CASE k \in 1 .. n
      <3>1. PathOK(k) BY <1>4, <2>2, PathFacts
      <3> QED BY <1>8, <1>9, <1>10, <2>2, <3>1 DEF PathOK
    <2> QED BY <1>2, <2>1, <2>2
  <1> QED BY <1>1, <1>8, <1>11, <1>12 DEF BondInv, Runs

\* remove_path: no other path changes its place.
LEMMA BondRemoves ==
  ASSUME AtTheEnd, BondInv, NEW i \in bond.removes, RemovePath(i) PROVE BondInv'
  <1> DEFINE n == Len(bond.paths)
  <1>1. /\ Runs /\ i \in Indices /\ bond' = bond /\ driver' = driver
        /\ links' = WithoutIndex(links, i) /\ group' = WithoutIndex(group, i)
        /\ heard' = [heard EXCEPT ![i] = Unheard]
    BY DEF RemovePath
  <1>2. /\ bond \in BondCases /\ n \in Nat /\ links \in Seq(LinkT) /\ group \in Seq(MemberT)
        /\ Len(links) = Len(group) /\ (Len(links) = n \/ Len(links) = n + 1)
        /\ DOMAIN heard = (0 .. n - 1) \cup bond.adds
    BY DEF BondInv, BondTyped
  <1>3. i = n BY <1>2 DEF AtTheEnd
  <1> HIDE DEF n
  <1>4. /\ DOMAIN links = 1 .. Len(links) /\ DOMAIN group = 1 .. Len(links)
        /\ \A k \in 1 .. Len(links) : links[k].index = k - 1 /\ group[k].index = k - 1
    BY BondShape, PathFacts DEF PathOK
  <1>5. Len(links) = n + 1
    <2>1. PICK k \in 1 .. Len(links) : n = k - 1 BY <1>1, <1>3, <1>4 DEF Indices
    <2> QED BY <1>2, <2>1
  <1>6. ASSUME NEW S, NEW q \in Seq(S), Len(q) = n + 1, \A k \in 1 .. n + 1 : q[k].index = k - 1
        PROVE  /\ WithoutIndex(q, n) \in Seq(S) /\ Len(WithoutIndex(q, n)) = n
               /\ \A k \in 1 .. n : WithoutIndex(q, n)[k] = q[k]
    <2> DEFINE pos == CHOOSE k \in DOMAIN q : q[k].index = n
    <2>1. DOMAIN q = 1 .. n + 1 /\ \A k \in 1 .. n + 1 : q[k] \in S BY <1>6, LenProperties, ElementOfSeq
    <2>2. n + 1 \in DOMAIN q /\ q[n + 1].index = n BY <1>2, <1>6, <2>1
    <2>3. pos \in DOMAIN q /\ q[pos].index = n BY <2>2
    <2>4. pos = n + 1 BY <1>2, <1>6, <2>1, <2>3
    <2>5. WithoutIndex(q, n) = SubSeq(q, 1, pos - 1) \o SubSeq(q, pos + 1, Len(q)) BY DEF WithoutIndex
    <2> HIDE DEF pos
    <2>6. WithoutIndex(q, n) = SubSeq(q, 1, n) \o SubSeq(q, n + 2, n + 1)
      <3>1. pos - 1 = n /\ pos + 1 = n + 2 BY <1>2, <2>4
      <3> QED BY <1>6, <2>5, <3>1
    <2>7. SubSeq(q, n + 2, n + 1) = <<>> BY <1>2, SubSeqEmpty
    <2>8. /\ SubSeq(q, 1, n) \in Seq(S) /\ Len(SubSeq(q, 1, n)) = n
          /\ \A k \in 1 .. n : SubSeq(q, 1, n)[k] = q[k]
      <3>1. \A k \in 1 .. n : q[k] \in S BY <1>2, <2>1
      <3>2. /\ SubSeq(q, 1, n) \in Seq(S) /\ Len(SubSeq(q, 1, n)) = IF 1 <= n THEN n - 1 + 1 ELSE 0
            /\ \A k \in 1 .. n - 1 + 1 : SubSeq(q, 1, n)[k] = q[1 + k - 1]
        BY <1>2, <3>1, SubSeqProperties
      <3>3. n - 1 + 1 = n /\ \A k \in 1 .. n : 1 + k - 1 = k BY <1>2
      <3> QED BY <1>2, <3>2, <3>3
    <2>9. SubSeq(q, 1, n) \o <<>> = SubSeq(q, 1, n) BY <2>8, ConcatEmptySeq
    <2> QED BY <2>6, <2>7, <2>8, <2>9
  <1>7. /\ links' \in Seq(LinkT) /\ Len(links') = n /\ \A k \in 1 .. n : links'[k] = links[k]
    BY <1>1, <1>2, <1>3, <1>4, <1>5, <1>6
  <1>8. /\ group' \in Seq(MemberT) /\ Len(group') = n /\ \A k \in 1 .. n : group'[k] = group[k]
    BY <1>1, <1>2, <1>3, <1>4, <1>5, <1>6
  <1>9. DOMAIN heard' = DOMAIN heard /\ \A k \in 1 .. n : heard'[k - 1] = heard[k - 1]
    <2>1. \A k \in 1 .. n : k - 1 # n BY <1>2
    <2> QED BY <1>1, <1>3, <2>1
  <1>10. BondTyped' BY <1>1, <1>2, <1>7, <1>8, <1>9 DEF BondTyped, n
  <1>11. ASSUME NEW k \in 1 .. n PROVE PathOK(k)'
    <2>1. k \in 1 .. Len(links) BY <1>2, <1>5
    <2>2. PathOK(k) BY <2>1, PathFacts
    <2> QED BY <1>7, <1>8, <1>9, <2>2 DEF PathOK
  <1> QED BY <1>1, <1>7, <1>10, <1>11 DEF BondInv, Runs

-----------------------------------------------------------------------------
(* Choosing a path                                                         *)

Orders(R, S) ==
  /\ \A a, b \in S : a # b => <<a, b>> \in R \/ <<b, a>> \in R
  /\ \A a, b, c \in S : <<a, b>> \in R /\ <<b, c>> \in R => <<a, c>> \in R
HasFirst(R, S) == \E a \in S : \A b \in S \ {a} : <<a, b>> \in R

\* Whatever strict total order paths are compared by, one of them is first.
LEMMA FirstExists ==
  ASSUME NEW S, IsFiniteSet(S), S # {}, NEW R, Orders(R, S)
  PROVE  HasFirst(R, S)
  <1> USE DEF Orders, HasFirst
  <1> DEFINE T == {X \in SUBSET S : X # {} /\ ~HasFirst(R, X)}
  <1>1. SUFFICES ASSUME T # {} PROVE FALSE
    <2>1. S \notin T => HasFirst(R, S) OBVIOUS
    <2> QED BY <2>1
  <1>2. T \subseteq FiniteSubsetsOf(S) BY FS_Subset DEF FiniteSubsetsOf
  <1>3. \E X \in T : \A Y \in T : ~ (<<Y, X>> \in StrictSubsetOrdering(S))
    <2> HIDE DEF T
    <2> QED BY <1>1, <1>2, WFMin, FS_StrictSubsetOrderingWellFounded
  <1>4. PICK X \in T : \A Y \in T : ~ (<<Y, X>> \in StrictSubsetOrdering(S)) BY <1>3
  <1>5. X \subseteq S /\ X # {} /\ ~HasFirst(R, X) OBVIOUS
  <1>6. PICK x \in X : TRUE BY <1>5
  <1> DEFINE Y == X \ {x}
  <1>7. Y # {}
    <2>1. Y = {} => \A b \in X \ {x} : <<x, b>> \in R OBVIOUS
    <2> QED BY <1>5, <2>1
  <1>8. Y \subseteq X /\ Y # X /\ Y \in SUBSET S /\ X \in SUBSET S BY <1>5, <1>6
  <1>9. <<Y, X>> \in StrictSubsetOrdering(S)
    <2> HIDE DEF Y
    <2> QED BY <1>8 DEF StrictSubsetOrdering
  <1>10. HasFirst(R, Y) BY <1>4, <1>7, <1>8, <1>9
  <1>11. PICK y \in Y : \A b \in Y \ {y} : <<y, b>> \in R BY <1>10
  <1>12. x # y /\ x \in S /\ y \in S /\ y \in X BY <1>5, <1>6, <1>11
  <1>13. CASE <<y, x>> \in R
    <2>1. \A b \in X \ {y} : <<y, b>> \in R BY <1>11, <1>13
    <2> QED BY <1>5, <1>12, <2>1
  <1>14. CASE <<x, y>> \in R
    <2>1. ASSUME NEW b \in X \ {x} PROVE <<x, b>> \in R
      <3>1. CASE b = y BY <1>14, <3>1
      <3>2. CASE b # y
        <4>1. <<y, b>> \in R /\ b \in S BY <1>5, <1>11, <2>1, <3>2
        <4> QED BY <1>12, <1>14, <4>1
      <3> QED BY <3>1, <3>2
    <2> QED BY <1>5, <1>6, <2>1
  <1> QED BY <1>12, <1>13, <1>14

\* best_weighted: the richest path is one of those it is chosen from.
LEMMA RichestIn ==
  ASSUME NEW n \in Nat, NEW set, set \subseteq 1 .. n, set # {}, NEW grp,
         \A k \in set : grp[k].credit \in Nat
  PROVE  /\ Richest(grp, set) \in set
         /\ \A j \in set : grp[j].credit <= grp[Richest(grp, set)].credit
  <1> DEFINE Ahead(a, b) == grp[a].credit > grp[b].credit \/ (grp[a].credit = grp[b].credit /\ a < b)
             R == {p \in set \X set : Ahead(p[1], p[2])}
  <1>1. IsFiniteSet(set)
    <2>0. n \in Int OBVIOUS
    <2>1. IsFiniteSet(1 .. n) BY ONLY <2>0, FS_Interval
    <2> QED BY <2>1, FS_Subset
  <1>2. \A a, b \in set : <<a, b>> \in R <=> Ahead(a, b) OBVIOUS
  <1>3. \A k \in set : k \in Nat OBVIOUS
  <1>4. \A a, b \in set : a # b => Ahead(a, b) \/ Ahead(b, a) BY <1>3
  <1>5. \A a, b, c \in set : Ahead(a, b) /\ Ahead(b, c) => Ahead(a, c) BY <1>3
  <1>6. PICK a \in set : \A b \in set \ {a} : Ahead(a, b)
    <2> HIDE DEF R, Ahead
    <2>1. Orders(R, set) BY <1>2, <1>4, <1>5 DEF Orders
    <2>2. HasFirst(R, set) BY <1>1, <2>1, FirstExists
    <2>3. \E b \in set : \A c \in set \ {b} : <<b, c>> \in R BY <2>2 DEF HasFirst
    <2> QED BY <1>2, <2>3
  <1> DEFINE Top(k) == \A j \in set : grp[k].credit > grp[j].credit
                                      \/ (grp[k].credit = grp[j].credit /\ k <= j)
  <1>7. Top(a)
    <2> SUFFICES ASSUME NEW j \in set
                 PROVE  grp[a].credit > grp[j].credit \/ (grp[a].credit = grp[j].credit /\ a <= j)
      OBVIOUS
    <2>1. CASE j = a BY <1>3, <2>1
    <2>2. CASE j # a
      <3>1. Ahead(a, j) BY <1>6, <2>2
      <3> QED BY <1>3, <3>1
    <2> QED BY <2>1, <2>2
  <1>8. Richest(grp, set) = CHOOSE k \in set : Top(k) BY DEF Richest
  <1> DEFINE r == CHOOSE k \in set : Top(k)
  <1>9. r \in set /\ Top(r) BY <1>7
  <1> HIDE DEF r
  <1>10. \A j \in set : grp[j].credit <= grp[r].credit
    <2> SUFFICES ASSUME NEW j \in set PROVE grp[j].credit <= grp[r].credit OBVIOUS
    <2>1. grp[r].credit > grp[j].credit \/ grp[r].credit = grp[j].credit BY <1>9
    <2>2. grp[r].credit \in Nat /\ grp[j].credit \in Nat BY <1>9
    <2> QED BY <2>1, <2>2
  <1> QED BY <1>8, <1>9, <1>10 DEF r

\* select_weighted: the round that a media packet is sent in.
LEMMA RoundIs ==
  ASSUME BondInv
  PROVE  /\ Round \in [1 .. Len(links) -> MemberT]
         /\ \A k \in 1 .. Len(links) :
              /\ Round[k].index = k - 1 /\ Round[k].seen = group[k].seen
              /\ Round[k].silent = group[k].silent /\ Round[k].credit <= Round[k].weight
         /\ Sendable # {} => /\ Richest(Round, Sendable) \in Sendable
                             /\ Round[Richest(Round, Sendable)].credit > 0
  <1> DEFINE n == Len(links)
             G == [k \in DOMAIN group |-> IF k \in Sendable THEN [group[k] EXCEPT !.credit = group[k].weight]
                                          ELSE group[k]]
  <1>1. /\ group \in [1 .. n -> MemberT] /\ n \in Nat /\ DOMAIN group = 1 .. n BY BondShape
  <1>2. \A k \in 1 .. n : group[k].index = k - 1 /\ group[k].credit <= group[k].weight
    BY PathFacts DEF PathOK
  <1>3. Sendable \subseteq 1 .. n /\ \A k \in Sendable : group[k].weight > 0
    BY <1>1 DEF Sendable
  <1> HIDE DEF n
  <1>4. ASSUME NEW k \in 1 .. n
        PROVE  /\ G[k] \in MemberT /\ G[k].index = group[k].index /\ G[k].seen = group[k].seen
               /\ G[k].silent = group[k].silent /\ G[k].credit <= G[k].weight
               /\ k \in Sendable => G[k].credit = group[k].weight
    <2>1. group[k] \in MemberT /\ group[k].credit <= group[k].weight BY <1>1, <1>2
    <2>2. G[k] = IF k \in Sendable THEN [group[k] EXCEPT !.credit = group[k].weight] ELSE group[k]
      BY <1>1
    <2> HIDE DEF G
    <2>3. CASE k \in Sendable BY <2>1, <2>2, <2>3 DEF MemberT
    <2>4. CASE k \notin Sendable BY <2>1, <2>2, <2>4
    <2> QED BY <2>3, <2>4
  <1>5. G \in [1 .. n -> MemberT] BY <1>1, <1>4
  <1>6. Refilled(Sendable) = G BY DEF Refilled
  <1>7. Round = IF Sendable # {} /\ group[Richest(group, Sendable)].credit = 0 THEN G ELSE group
    BY <1>6 DEF Round
  <1> HIDE DEF G
  <1>8. Round \in [1 .. n -> MemberT] BY <1>1, <1>5, <1>7
  <1>9. ASSUME NEW k \in 1 .. n
        PROVE  /\ Round[k].index = k - 1 /\ Round[k].seen = group[k].seen
               /\ Round[k].silent = group[k].silent /\ Round[k].credit <= Round[k].weight
    BY <1>2, <1>4, <1>7
  <1>10. ASSUME Sendable # {}
         PROVE  /\ Richest(Round, Sendable) \in Sendable
                /\ Round[Richest(Round, Sendable)].credit > 0
    <2>1. \A k \in Sendable : Round[k].credit \in Nat /\ group[k].credit \in Nat /\ group[k].weight \in Nat
      BY <1>1, <1>3, <1>8 DEF MemberT
    <2>2. Richest(Round, Sendable) \in Sendable BY <1>1, <1>3, <1>10, <2>1, RichestIn
    <2>3. Richest(group, Sendable) \in Sendable BY <1>1, <1>3, <1>10, <2>1, RichestIn
    <2>4. CASE Round = G
      <3>1. Round[Richest(Round, Sendable)].credit = group[Richest(Round, Sendable)].weight
        BY <1>3, <1>4, <2>2, <2>4
      <3> QED BY <1>3, <2>2, <3>1
    <2>5. CASE Round = group /\ group[Richest(group, Sendable)].credit # 0
      <3>1. group[Richest(group, Sendable)].credit \in Nat BY <2>1, <2>3
      <3>2. Round[Richest(Round, Sendable)].credit = group[Richest(group, Sendable)].credit
        BY <2>5, Zenon
      <3>3. group[Richest(group, Sendable)].credit > 0 BY <2>5, <3>1
      <3> QED BY <2>2, <3>2, <3>3
    <2>6. Round = G \/ (Round = group /\ group[Richest(group, Sendable)].credit # 0)
      BY <1>7, <1>10, Zenon
    <2> QED BY <2>4, <2>5, <2>6
  <1> QED BY <1>8, <1>9, <1>10 DEF n

\* The positions that the group's indices name are those of the same paths.
LEMMA BondNames ==
  ASSUME BondInv, NEW ks, ks \subseteq 1 .. Len(links)
  PROVE  Named(ks) = ks /\ Carried(Named(ks)) = {k - 1 : k \in ks}
  <1>1. \A k \in 1 .. Len(links) : /\ k \in Nat /\ links[k].index = k - 1 /\ group[k].index = k - 1
                                   /\ DOMAIN links = 1 .. Len(links)
    BY PathFacts DEF PathOK
  <1>2. \A k \in ks : k \in Nat /\ group[k].index + 1 = k
    <2> SUFFICES ASSUME NEW k \in ks PROVE k \in Nat /\ group[k].index + 1 = k OBVIOUS
    <2>1. k \in Nat /\ group[k].index = k - 1 BY <1>1
    <2> QED BY <2>1
  <1>3. Named(ks) = ks BY <1>2 DEF Named
  <1>4. ks \cap DOMAIN links = ks
    <2>1. CASE ks = {} BY <2>1
    <2>2. CASE ks # {}
      <3>1. DOMAIN links = 1 .. Len(links) BY <1>1, <2>2
      <3> QED BY <3>1
    <2> QED BY <2>1, <2>2
  <1>5. Carried(ks) = {links[k].index : k \in ks} BY <1>4 DEF Carried
  <1>6. \A k \in ks : links[k].index = k - 1 BY <1>1
  <1>7. {links[k].index : k \in ks} = {k - 1 : k \in ks} BY <1>6
  <1> QED BY <1>3, <1>5, <1>7

\* drain of a media packet: the credit is taken from a path that has some.
LEMMA BondSends == ASSUME BondInv, OnMedia PROVE BondInv'
  <1> DEFINE n == Len(links)
             elected == IF Sendable = {} THEN {} ELSE {Richest(Round, Sendable)}
             G == [k \in DOMAIN group |->
                     IF k \in elected THEN [Round[k] EXCEPT !.credit = Round[k].credit - 1] ELSE Round[k]]
  <1>1. /\ group' = G /\ bond' = bond /\ links' = links /\ heard' = heard
        /\ driver' # "timeout"
    BY DEF OnMedia
  <1>2. /\ links \in [1 .. n -> LinkT] /\ group \in [1 .. n -> MemberT] /\ n \in Nat
    BY BondShape
  <1>3. /\ Round \in [1 .. n -> MemberT]
        /\ \A k \in 1 .. n :
             /\ Round[k].index = k - 1 /\ Round[k].seen = group[k].seen
             /\ Round[k].silent = group[k].silent /\ Round[k].credit <= Round[k].weight
    BY RoundIs
  <1>4. \A k \in elected : Round[k].credit > 0 BY RoundIs
  <1>5. \A k \in 1 .. n : PathOK(k) BY DEF BondInv
  <1> HIDE DEF n, elected
  <1>6. DOMAIN group = 1 .. n BY <1>2
  <1>7. ASSUME NEW k \in 1 .. n
        PROVE  /\ G[k] \in MemberT /\ G[k].index = k - 1 /\ G[k].seen = group[k].seen
               /\ G[k].silent = group[k].silent /\ G[k].credit <= G[k].weight
    <2>1. Round[k] \in MemberT BY <1>3
    <2>2. G[k] = IF k \in elected THEN [Round[k] EXCEPT !.credit = Round[k].credit - 1] ELSE Round[k]
      BY <1>6
    <2> HIDE DEF G
    <2>3. CASE k \notin elected BY <1>3, <2>1, <2>2, <2>3
    <2>4. CASE k \in elected
      <3> DEFINE r == Round[k]
      <3>1. /\ r \in MemberT /\ r.credit > 0 /\ r.credit <= r.weight
            /\ r.index = k - 1 /\ r.seen = group[k].seen /\ r.silent = group[k].silent
        BY <1>3, <1>4, <2>1, <2>4
      <3>2. G[k] = [r EXCEPT !.credit = r.credit - 1] BY <2>2, <2>4
      <3> HIDE DEF r
      <3>3. r.credit \in Nat /\ r.weight \in Nat BY <3>1 DEF MemberT
      <3>4. r.credit - 1 \in Nat /\ r.credit - 1 <= r.weight BY <3>1, <3>3
      <3> QED BY <3>1, <3>2, <3>4 DEF MemberT
    <2> QED BY <2>3, <2>4
  <1>8. G \in [1 .. n -> MemberT] BY <1>6, <1>7
  <1>9. ASSUME NEW k \in 1 .. n PROVE PathOK(k)'
    <2> DEFINE g == G[k]
    <2>1. /\ group'[k] = g /\ links'[k] = links[k] /\ heard'[k - 1] = heard[k - 1]
      BY <1>1
    <2>2. /\ g.index = k - 1 /\ g.seen = group[k].seen
          /\ g.silent = group[k].silent /\ g.credit <= g.weight
      BY <1>7
    <2>3. PathOK(k) BY <1>5
    <2> HIDE DEF g, G
    <2> QED BY <2>1, <2>2, <2>3 DEF PathOK
  <1> HIDE DEF G
  <1>10. links' \in [1 .. n -> LinkT] /\ group' \in [1 .. n -> MemberT] /\ DOMAIN heard' = DOMAIN heard
    BY <1>1, <1>2, <1>8
  <1> QED BY <1>1, <1>9, <1>10, BondKeeps DEF n

LEMMA BondStep == ASSUME AtTheEnd, BondInv, [BondNext]_bondVars PROVE BondInv'
  <1>1. CASE UNCHANGED bondVars
    BY <1>1 DEF bondVars, BondInv, BondTyped, PathOK, Expired
  <1>2. CASE \E k \in DOMAIN links :
               \/ OnDatagram(k, IF bond.sender THEN "control" ELSE "media", 0)
               \/ ~bond.sender /\ \E rtt \in 1 .. 2 : OnDatagram(k, "echo", rtt)
               \/ bond.eap /\ OnDatagram(k, "eap", 0)
    <2>1. PICK k \in DOMAIN links :
               \/ OnDatagram(k, IF bond.sender THEN "control" ELSE "media", 0)
               \/ \E rtt \in 1 .. 2 : OnDatagram(k, "echo", rtt)
               \/ OnDatagram(k, "eap", 0)
      BY <1>2
    <2>2. CASE OnDatagram(k, IF bond.sender THEN "control" ELSE "media", 0) BY <2>2, BondHears
    <2>3. CASE \E rtt \in 1 .. 2 : OnDatagram(k, "echo", rtt)
      <3>1. PICK rtt \in 1 .. 2 : OnDatagram(k, "echo", rtt) BY <2>3
      <3>2. rtt \in Nat OBVIOUS
      <3> QED BY <3>1, <3>2, BondHears
    <2>4. CASE OnDatagram(k, "eap", 0) BY <2>4, BondHears
    <2> QED BY <2>1, <2>2, <2>3, <2>4
  <1>3. CASE OnMedia BY <1>3, BondSends
  <1>4. CASE OnFeedback
    BY <1>4 DEF OnFeedback, Runs, BondInv, BondTyped, PathOK, Expired
  <1>5. CASE OnTick BY <1>5, BondTicks
  <1>6. CASE Fade
    BY <1>6 DEF Fade, Runs, BondInv, BondTyped, PathOK, Expired
  <1>7. CASE \E i \in DOMAIN waits, w \in bond.weights : SetWeight(i, w)
    <2>1. PICK i \in DOMAIN waits, w \in bond.weights : SetWeight(i, w) BY <1>7
    <2>2. w \in Nat BY BondShape
    <2> QED BY <2>1, <2>2, BondWeighs
  <1>8. CASE \E i \in bond.adds : AddPath(i, 0) BY <1>8, BondAdds
  <1>9. CASE \E i \in bond.removes : RemovePath(i) BY <1>9, BondRemoves
  <1> QED BY <1>1, <1>2, <1>3, <1>4, <1>5, <1>6, <1>7, <1>8, <1>9 DEF BondNext

LEMMA BondAlways == ASSUME AtTheEnd PROVE BondSpec => []BondInv
  <1>1. BondInit => BondInv BY BondStarts
  <1>2. BondInv /\ [BondNext]_bondVars => BondInv' BY BondStep
  <1> QED BY <1>1, <1>2, PTL DEF BondSpec

LEMMA BondJudges == ASSUME BondInv PROVE PathsJudged
  <1>1. DOMAIN links = 1 .. Len(links) /\ Len(links) \in Nat /\ Len(links) = Len(group)
    BY BondShape DEF BondInv, BondTyped
  <1>2. ASSUME NEW k \in 1 .. Len(links) 
        PROVE  /\ links[k].index = k - 1 /\ group[k].index = k - 1
               /\ links[k].seen = group[k].seen /\ links[k].silent = group[k].silent
               /\ group[k].credit <= group[k].weight
               /\ (heard[k - 1] # Unheard) = links[k].seen
    <2>1. PathOK(k) /\ links[k] \in LinkT BY PathFacts
    <2>2. links[k].silent \in 0 .. Old /\ links[k].seen \in BOOLEAN BY <2>1 DEF LinkT
    <2>3. links[k].silent # Unheard BY <2>2, Ages
    <2>4. heard[k - 1] = IF links[k].seen THEN links[k].silent ELSE Unheard BY <2>1 DEF PathOK
    <2>5. (heard[k - 1] # Unheard) = links[k].seen BY <2>2, <2>3, <2>4
    <2> QED BY <2>1, <2>5 DEF PathOK
  <1>3. PathsAgree BY <1>1, <1>2 DEF PathsAgree
  <1>4. ASSUME driver = "timeout", NEW i \in Indices
        PROVE  heard[i] # Unheard /\ heard[i] > PathTimeout
    <2>1. PICK k \in 1 .. Len(links) : i = links[k].index BY <1>1, <1>4 DEF Indices
    <2>2. PathOK(k) /\ links[k].index = k - 1 BY <2>1, PathFacts DEF PathOK
    <2>3. links[k].seen /\ links[k].silent > PathTimeout BY <1>4, <2>1 DEF BondInv, Expired
    <2>4. heard[i] = links[k].silent BY <2>1, <2>2, <2>3 DEF PathOK
    <2>5. (heard[i] # Unheard) = links[k].seen BY <1>2, <2>1, <2>2
    <2> QED BY <2>3, <2>4, <2>5
  <1> QED BY <1>3, <1>4 DEF PathsJudged, EndsOnlySilent

\* While paths come and go only behind the ones the session started with, the
\* driver's paths and the group's are the same, judge each path's life alike,
\* and the session is given up on no less than the silence of all of them
\* (driver_bonded.rs: on_recv, apply_peer_cmd, all_expired; bonding.rs: Group).
THEOREM BondPathsJudged == ASSUME AtTheEnd PROVE BondSpec => []PathsJudged
  <1>1. BondInv => PathsJudged BY BondJudges
  <1> QED BY <1>1, BondAlways, PTL

\* What the history says of the k-th path, and the driver and the group too.
LEMMA Judged ==
  ASSUME BondInv, NEW k \in 1 .. Len(links), NEW t \in Nat, t < Old
  PROVE  /\ group[k].index = k - 1 /\ links[k].index = k - 1
         /\ links[k].seen = group[k].seen
         /\ (heard[k - 1] <= t) <=> (group[k].seen /\ group[k].silent <= t)
         /\ (heard[k - 1] # Unheard) <=> group[k].seen
         /\ group[k].seen => heard[k - 1] = group[k].silent
  <1>1. PathOK(k) /\ group[k] \in MemberT BY PathFacts
  <1>2. group[k].silent \in 0 .. Old BY <1>1 DEF MemberT
  <1>3. heard[k - 1] = IF group[k].seen THEN group[k].silent ELSE Unheard BY <1>1 DEF PathOK
  <1> DEFINE s == group[k].silent
             h == heard[k - 1]
  <1>4. s \in Nat /\ s <= Old /\ Old \in Nat /\ Unheard = Old + 1 BY <1>2, Ages
  <1>5. h = IF group[k].seen THEN s ELSE Unheard BY <1>3
  <1> HIDE DEF s, h
  <1>6. ~(Unheard <= t) /\ s # Unheard BY <1>4
  <1>7. (h <= t) <=> (group[k].seen /\ s <= t) BY <1>5, <1>6
  <1>8. (h # Unheard) <=> group[k].seen BY <1>5, <1>6
  <1>9. group[k].seen => h = s BY <1>5
  <1> QED BY <1>1, <1>7, <1>8, <1>9 DEF PathOK, s, h

\* Only one action transmits media, and only one feedback.
LEMMA Transmits ==
  ASSUME BondNext
  PROVE  /\ fan'.kind = "media" => OnMedia
         /\ fan'.kind = "feedback" => OnFeedback
  <1>1. ASSUME NEW k, NEW kind, NEW rtt, OnDatagram(k, kind, rtt) PROVE fan'.kind = "none"
    BY <1>1 DEF OnDatagram, Nothing
  <1>2. ASSUME NEW i, NEW w, SetWeight(i, w) PROVE fan'.kind = "none"
    BY <1>2 DEF SetWeight, Nothing
  <1>3. ASSUME NEW i, AddPath(i, 0) PROVE fan'.kind = "none" BY <1>3 DEF AddPath, Nothing
  <1>4. ASSUME NEW i, RemovePath(i) PROVE fan'.kind = "none" BY <1>4 DEF RemovePath, Nothing
  <1>5. OnTick \/ Fade => fan'.kind = "none" BY DEF OnTick, Fade, Nothing
  <1>6. OnMedia => fan'.kind = "media" BY DEF OnMedia
  <1>7. OnFeedback => fan'.kind = "feedback" BY DEF OnFeedback
  <1>8. OnMedia \/ OnFeedback \/ fan'.kind = "none"
    BY <1>1, <1>2, <1>3, <1>4, <1>5 DEF BondNext
  <1> QED BY <1>6, <1>7, <1>8

LEMMA MediaReaches ==
  ASSUME BondInv, OnMedia
  PROVE  /\ \A k \in DOMAIN group :
              group[k].weight = 0 /\ heard[group[k].index] <= PathTimeout + DupGrace
                => group[k].index \in fan'.carried
         /\ (\E k \in DOMAIN group : group[k].weight > 0 /\ heard[group[k].index] <= PathTimeout)
              => \E i \in fan'.carried : heard[i] <= PathTimeout \/ heard[i] = Unheard
  <1> DEFINE n == Len(links)
             elected == IF Sendable = {} THEN {} ELSE {Richest(Round, Sendable)}
             ks == Duplicates \cup elected
  <1>1. fan' = [kind |-> "media", carried |-> Carried(Named(ks))] BY DEF OnMedia
  <1>2. group \in [1 .. n -> MemberT] /\ n \in Nat /\ DOMAIN group = 1 .. n BY BondShape
  <1>3. Duplicates \subseteq 1 .. n /\ Sendable \subseteq 1 .. n
    BY <1>2 DEF Duplicates, Sendable
  <1>4. elected \subseteq Sendable /\ (Sendable # {} => elected # {}) BY RoundIs
  <1>5. ks \subseteq 1 .. n BY <1>3, <1>4
  <1> HIDE DEF ks, elected
  <1>6. Carried(Named(ks)) = {k - 1 : k \in ks} BY <1>5, BondNames DEF n
  <1>7. fan'.carried = {k - 1 : k \in ks} BY <1>1, <1>6
  <1>8. /\ PathTimeout \in Nat /\ PathTimeout < Old
        /\ PathTimeout + DupGrace \in Nat /\ PathTimeout + DupGrace < Old
    BY Ages
  <1>9. ASSUME NEW k \in 1 .. n, group[k].weight = 0, heard[group[k].index] <= PathTimeout + DupGrace
        PROVE  group[k].index \in fan'.carried
    <2>1. /\ group[k].index = k - 1 /\ group[k] \in MemberT
          /\ (heard[k - 1] <= PathTimeout + DupGrace)
               <=> (group[k].seen /\ group[k].silent <= PathTimeout + DupGrace)
      BY <1>8, Judged, PathFacts DEF n
    <2>2. group[k].silent \in 0 .. Old BY <2>1 DEF MemberT
    <2>3. group[k].silent <= PathTimeout + DupGrace BY <1>9, <2>1
    <2>4. ~DupDead(group[k]) BY <1>8, <2>2, <2>3, Ages DEF DupDead
    <2>5. k \in Duplicates BY <1>2, <1>9, <2>4 DEF Duplicates
    <2>6. k \in ks BY <2>5 DEF ks
    <2> QED BY <1>7, <2>1, <2>6
  <1>10. ASSUME NEW k \in 1 .. n, group[k].weight > 0, heard[group[k].index] <= PathTimeout
         PROVE  \E i \in fan'.carried : heard[i] <= PathTimeout \/ heard[i] = Unheard
    <2>1. /\ group[k].index = k - 1 /\ group[k] \in MemberT
          /\ (heard[k - 1] <= PathTimeout) <=> (group[k].seen /\ group[k].silent <= PathTimeout)
      BY <1>8, Judged, PathFacts DEF n
    <2>2. group[k].silent \in 0 .. Old BY <2>1 DEF MemberT
    <2>3. group[k].silent <= PathTimeout BY <1>10, <2>1
    <2>4. ~Dead(group[k]) BY <1>8, <2>2, <2>3, Ages DEF Dead
    <2>5. k \in Sendable BY <1>2, <1>10, <2>4 DEF Sendable
    <2>6. PICK e \in elected : e \in Sendable BY <1>4, <2>5
    <2>7. e \in 1 .. n /\ ~Dead(group[e]) /\ e \in ks BY <1>3, <2>6 DEF Sendable, ks
    <2>8. /\ (heard[e - 1] <= PathTimeout) <=> (group[e].seen /\ group[e].silent <= PathTimeout)
          /\ (heard[e - 1] # Unheard) <=> group[e].seen
          /\ group[e] \in MemberT
      BY <1>8, <2>7, Judged, PathFacts DEF n
    <2>9. group[e].silent \in 0 .. Old /\ group[e].seen \in BOOLEAN BY <2>8 DEF MemberT
    <2>10. group[e].seen => group[e].silent <= PathTimeout BY <1>8, <2>7, <2>9, Ages DEF Dead
    <2>11. heard[e - 1] <= PathTimeout \/ heard[e - 1] = Unheard BY <2>8, <2>10
    <2>12. e - 1 \in fan'.carried BY <1>7, <2>7
    <2> QED BY <2>11, <2>12
  <1> QED BY <1>2, <1>9, <1>10

\* A media packet reaches every duplicate path from which anything came within
\* the timeout and its grace, and a path that is not silent if a weighted one is
\* live (bonding.rs: duplicate_targets, select_weighted; driver_bonded.rs: drain).
THEOREM BondSeamless == ASSUME AtTheEnd PROVE BondSpec => Seamless
  <1> DEFINE Reaches ==
        fan'.kind = "media" =>
          /\ \A k \in DOMAIN group :
               group[k].weight = 0 /\ heard[group[k].index] <= PathTimeout + DupGrace
                 => group[k].index \in fan'.carried
          /\ (\E k \in DOMAIN group : group[k].weight > 0 /\ heard[group[k].index] <= PathTimeout)
               => \E i \in fan'.carried : heard[i] <= PathTimeout \/ heard[i] = Unheard
  <1>1. BondInv /\ [BondNext]_bondVars => [Reaches]_bondVars
    <2> SUFFICES ASSUME BondInv, BondNext, fan'.kind = "media" PROVE Reaches
      OBVIOUS
    <2>1. OnMedia BY Transmits
    <2> HIDE DEF Reaches
    <2>2. Reaches BY <2>1, MediaReaches DEF Reaches
    <2> QED BY <2>2
  <1>2. BondSpec => []BondInv BY BondAlways
  <1>3. BondSpec => [][BondNext]_bondVars BY DEF BondSpec
  <1>4. BondSpec => [][Reaches]_bondVars BY <1>1, <1>2, <1>3, PTL
  <1> QED BY <1>4 DEF Seamless

\* select_nack_path: the paths that feedback may take, and those it takes one of.
Usable(known) == {k \in DOMAIN group : group[k].seen /\ group[k].index \in known}
Living(known)  == {k \in Usable(known) : LiveOf(group[k])}
Among(known)  == IF Living(known) # {} THEN Living(known) ELSE Usable(known)
Closer(known, k, j) == IF Living(known) # {} THEN Prefer(group[k], group[j])
                       ELSE group[k].silent < group[j].silent
Wins(known, k, j) == Closer(known, k, j) \/ (~Closer(known, j, k) /\ k < j)

LEMMA NackPathIs ==
  ASSUME NEW known
  PROVE  NackPath(known) = {k \in Among(known) : \A j \in Among(known) \ {k} : Wins(known, k, j)}
  BY DEF NackPath, Usable, Living, Among, Closer, Wins

\* Paths that may carry feedback are compared by a strict total order.
LEMMA WinsOrders ==
  ASSUME BondInv, NEW known, NEW S, S \subseteq DOMAIN group
  PROVE  /\ \A a, b \in S : a # b => Wins(known, a, b) \/ Wins(known, b, a)
         /\ \A a, b, c \in S : Wins(known, a, b) /\ Wins(known, b, c) => Wins(known, a, c)
  <1>1. group \in [1 .. Len(links) -> MemberT] /\ Len(links) \in Nat BY BondShape
  <1>2. \A k \in S : /\ k \in Nat /\ group[k].priority \in Nat /\ group[k].rtt \in Nat
                     /\ group[k].silent \in Nat
    <2> SUFFICES ASSUME NEW k \in S PROVE k \in Nat /\ group[k].priority \in Nat
                                          /\ group[k].rtt \in Nat /\ group[k].silent \in Nat
      OBVIOUS
    <2>1. k \in 1 .. Len(links) /\ group[k] \in MemberT BY <1>1
    <2>2. group[k].silent \in 0 .. Old BY <2>1 DEF MemberT
    <2> QED BY <1>1, <2>1, <2>2, Ages DEF MemberT
  <1>3. CASE Living(known) # {}
    <2> DEFINE p(k) == group[k].priority
               r(k) == group[k].rtt
    <2>1. \A a, b \in S : Wins(known, a, b) <=>
            (p(a) > p(b) \/ (p(a) = p(b) /\ (r(a) < r(b) \/ (r(a) = r(b) /\ a < b))))
      BY <1>2, <1>3 DEF Wins, Closer, Prefer
    <2>2. \A k \in S : k \in Nat /\ p(k) \in Nat /\ r(k) \in Nat BY <1>2
    <2> HIDE DEF p, r
    <2> QED BY <2>1, <2>2
  <1>4. CASE Living(known) = {}
    <2> DEFINE s(k) == group[k].silent
    <2>1. \A a, b \in S : Wins(known, a, b) <=> (s(a) < s(b) \/ (s(a) = s(b) /\ a < b))
      BY <1>2, <1>4 DEF Wins, Closer
    <2>2. \A k \in S : k \in Nat /\ s(k) \in Nat BY <1>2
    <2> HIDE DEF s
    <2> QED BY <2>1, <2>2
  <1> QED BY <1>3, <1>4

\* Whenever a path may carry feedback, one is chosen.
LEMMA NackPathExists ==
  ASSUME BondInv, NEW known, Usable(known) # {}
  PROVE  NackPath(known) # {}
  <1> DEFINE S == Among(known)
             R == {p \in S \X S : Wins(known, p[1], p[2])}
  <1>1. S # {} /\ S \subseteq DOMAIN group BY DEF Among, Living, Usable
  <1>2. IsFiniteSet(S)
    <2>1. DOMAIN group = 1 .. Len(links) /\ Len(links) \in Nat BY BondShape
    <2>2. IsFiniteSet(1 .. Len(links)) BY <2>1, FS_Interval
    <2> QED BY <1>1, <2>1, <2>2, FS_Subset
  <1>3. \A a, b \in S : <<a, b>> \in R <=> Wins(known, a, b) OBVIOUS
  <1>4. /\ \A a, b \in S : a # b => Wins(known, a, b) \/ Wins(known, b, a)
        /\ \A a, b, c \in S : Wins(known, a, b) /\ Wins(known, b, c) => Wins(known, a, c)
    BY <1>1, WinsOrders
  <1> HIDE DEF R, S
  <1>5. Orders(R, S) BY <1>3, <1>4 DEF Orders
  <1>6. HasFirst(R, S) BY <1>1, <1>2, <1>5, FirstExists
  <1>7. PICK a \in S : \A b \in S \ {a} : <<a, b>> \in R BY <1>6 DEF HasFirst
  <1>8. \A b \in S \ {a} : Wins(known, a, b) BY <1>3, <1>7
  <1>9. a \in {k \in S : \A b \in S \ {k} : Wins(known, k, b)} BY <1>7, <1>8
  <1> QED BY <1>9, NackPathIs DEF S

LEMMA FeedbackTakes ==
  ASSUME BondInv, OnFeedback
  PROVE  /\ (\E i \in Answerable : heard[i] # Unheard) => fan'.carried # {}
         /\ \A k \in DOMAIN group : group[k].index \in fan'.carried /\ LiveAnswerable # {} =>
              k \in LiveAnswerable
              /\ \A j \in LiveAnswerable : group[j].priority <= group[k].priority
  <1> DEFINE n == Len(links)
  <1>1. /\ group \in [1 .. n -> MemberT] /\ n \in Nat
        /\ DOMAIN group = 1 .. n /\ DOMAIN links = 1 .. n
    BY BondShape
  <1>2. PathTimeout \in Nat /\ PathTimeout < Old BY Ages
  <1>3. \A k \in 1 .. n :
          /\ group[k].index = k - 1 /\ links[k].index = k - 1 /\ k \in Nat
          /\ (heard[k - 1] <= PathTimeout) <=> (group[k].seen /\ group[k].silent <= PathTimeout)
          /\ (heard[k - 1] # Unheard) <=> group[k].seen
    BY <1>2, Judged
  <1>4. KnownPaths = Answerable BY <1>1, <1>3 DEF KnownPaths, Answerable
  <1> DEFINE ks == NackPath(Answerable)
  <1>5. fan' = [kind |-> "feedback", carried |-> Carried(Named(ks))]
    BY <1>4 DEF OnFeedback
  <1>6. ks \subseteq Among(Answerable) BY NackPathIs
  <1>7. Among(Answerable) \subseteq 1 .. n BY <1>1 DEF Among, Living, Usable
  <1>8. ks \subseteq 1 .. n BY <1>6, <1>7
  <1> HIDE DEF ks
  <1>9. fan'.carried = {k - 1 : k \in ks} BY <1>5, <1>8, BondNames DEF n
  <1>10. ASSUME NEW i \in Answerable, heard[i] # Unheard PROVE fan'.carried # {}
    <2>1. PICK k \in 1 .. n : i = links[k].index BY <1>1, <1>10 DEF Answerable
    <2>2. group[k].seen /\ group[k].index \in Answerable BY <1>3, <1>10, <2>1
    <2>3. k \in Usable(Answerable) BY <1>1, <2>2 DEF Usable
    <2>4. ks # {} BY <2>3, NackPathExists DEF ks
    <2> QED BY <1>9, <2>4
  <1>11. Living(Answerable) = LiveAnswerable
    <2>1. ASSUME NEW k \in 1 .. n
          PROVE  (group[k].seen /\ group[k].silent <= PathTimeout)
                   <=> heard[group[k].index] <= PathTimeout
      BY <1>3
    <2> QED BY <1>1, <2>1 DEF Living, Usable, LiveOf, LiveAnswerable
  <1>12. ASSUME NEW k \in 1 .. n, group[k].index \in fan'.carried, LiveAnswerable # {}
         PROVE  k \in LiveAnswerable /\ \A j \in LiveAnswerable : group[j].priority <= group[k].priority
    <2>1. PICK m \in ks : k - 1 = m - 1 BY <1>3, <1>9, <1>12
    <2>2. m = k
      <3>1. m \in 1 .. n BY <1>8
      <3> QED BY <1>1, <2>1, <3>1
    <2>3. /\ k \in Among(Answerable) /\ \A j \in Among(Answerable) \ {k} : Wins(Answerable, k, j)
      BY <2>2, NackPathIs DEF ks
    <2>4. Among(Answerable) = LiveAnswerable BY <1>11, <1>12 DEF Among
    <2>5. \A j \in 1 .. n : group[j].priority \in Nat BY <1>1 DEF MemberT
    <2>6. ASSUME NEW j \in LiveAnswerable PROVE group[j].priority <= group[k].priority
      <3>0. j \in 1 .. n BY <1>1 DEF LiveAnswerable
      <3>1. group[j].priority \in Nat /\ group[k].priority \in Nat BY <2>5, <3>0
      <3>2. CASE j = k BY <3>1, <3>2
      <3>3. CASE j # k
        <4>1. Wins(Answerable, k, j) BY <2>3, <2>4, <3>3
        <4>2. Closer(Answerable, k, j) \/ ~Closer(Answerable, j, k) BY <4>1 DEF Wins
        <4>3. Prefer(group[k], group[j]) \/ ~Prefer(group[j], group[k])
          BY <1>11, <1>12, <4>2 DEF Closer
        <4> QED BY <3>1, <4>3 DEF Prefer
      <3> QED BY <3>2, <3>3
    <2> QED BY <2>3, <2>4, <2>6
  <1>13. \A k \in DOMAIN group : group[k].index \in fan'.carried /\ LiveAnswerable # {} =>
              k \in LiveAnswerable /\ \A j \in LiveAnswerable : group[j].priority <= group[k].priority
    BY <1>1, <1>12
  <1>14. (\E i \in Answerable : heard[i] # Unheard) => fan'.carried # {} BY <1>10
  <1> QED BY <1>13, <1>14

\* Feedback leaves whenever a path with an address for it was ever heard, and
\* takes a live one while there is one, of the highest priority
\* (bonding.rs: select_nack_path; driver_bonded.rs: drain).
THEOREM BondFeedbackAlive == ASSUME AtTheEnd PROVE BondSpec => FeedbackAlive
  <1> DEFINE Takes ==
        fan'.kind = "feedback" =>
          /\ (\E i \in Answerable : heard[i] # Unheard) => fan'.carried # {}
          /\ \A k \in DOMAIN group : group[k].index \in fan'.carried /\ LiveAnswerable # {} =>
               k \in LiveAnswerable
               /\ \A j \in LiveAnswerable : group[j].priority <= group[k].priority
  <1>1. BondInv /\ [BondNext]_bondVars => [Takes]_bondVars
    <2> SUFFICES ASSUME BondInv, BondNext, fan'.kind = "feedback" PROVE Takes
      OBVIOUS
    <2>1. OnFeedback BY Transmits
    <2> QED BY <2>1, FeedbackTakes
  <1>2. BondSpec => []BondInv BY BondAlways
  <1>3. BondSpec => [][BondNext]_bondVars BY DEF BondSpec
  <1>4. BondSpec => [][Takes]_bondVars BY <1>1, <1>2, <1>3, PTL
  <1> QED BY <1>4 DEF FeedbackAlive

\* Under the same condition the positions that the group names are paths of the
\* driver, so fanning a media packet out never indexes past its list
\* (driver_bonded.rs: drain).
THEOREM BondSurvives == ASSUME AtTheEnd PROVE BondSpec => []DriverSurvives
  <1>1. BondInit => DriverSurvives BY DEF BondInit, BondStart, DriverSurvives
  <1>2. BondInv /\ DriverSurvives /\ [BondNext]_bondVars => DriverSurvives'
    <2> SUFFICES ASSUME BondInv, DriverSurvives, [BondNext]_bondVars PROVE driver' # "panicked"
      BY DEF DriverSurvives
    <2>1. ASSUME OnMedia PROVE driver' # "panicked"
      <3> DEFINE ks == Duplicates \cup (IF Sendable = {} THEN {} ELSE {Richest(Round, Sendable)})
      <3>1. driver' = IF Named(ks) \subseteq DOMAIN links THEN "running" ELSE "panicked"
        BY <2>1 DEF OnMedia
      <3>2. DOMAIN group = 1 .. Len(links) /\ DOMAIN links = 1 .. Len(links) BY BondShape
      <3>3. ks \subseteq 1 .. Len(links) BY <3>2, RoundIs DEF Duplicates, Sendable
      <3> HIDE DEF ks
      <3>4. Named(ks) \subseteq DOMAIN links BY <3>2, <3>3, BondNames
      <3> QED BY <3>1, <3>4
    <2>2. ASSUME NEW k, NEW kind, NEW rtt, OnDatagram(k, kind, rtt) PROVE driver' # "panicked"
      <3>1. driver' = driver \/ driver' \in {"running", "rejected"} BY <2>2 DEF OnDatagram
      <3> QED BY <3>1 DEF DriverSurvives
    <2>3. ASSUME OnTick PROVE driver' # "panicked" BY <2>3 DEF OnTick
    <2>4. OnFeedback \/ Fade => driver' = driver BY DEF OnFeedback, Fade
    <2>5. ASSUME NEW i, NEW w, SetWeight(i, w) PROVE driver' = driver BY <2>5 DEF SetWeight
    <2>6. ASSUME NEW i, AddPath(i, 0) PROVE driver' = driver BY <2>6 DEF AddPath
    <2>7. ASSUME NEW i, RemovePath(i) PROVE driver' = driver BY <2>7 DEF RemovePath
    <2>8. UNCHANGED bondVars => driver' = driver BY DEF bondVars
    <2>9. driver' = driver => driver' # "panicked" BY DEF DriverSurvives
    <2> QED BY <2>1, <2>2, <2>3, <2>4, <2>5, <2>6, <2>7, <2>8, <2>9 DEF BondNext
  <1> QED BY <1>1, <1>2, BondAlways, PTL DEF BondSpec

-----------------------------------------------------------------------------
(* Sums over a finite set, in the order in which MapThenSumSet takes it.    *)

Taken(s) == CHOOSE x \in s : TRUE

\* The sums of f over the subsets of S, in the order in which the fold takes them.
Sums(h, f, S) ==
  h = [s \in SUBSET S |-> IF s = {} THEN 0 ELSE f[Taken(s)] + h[s \ {Taken(s)}]]

\* What is true of {}, and of a set when it is true of it without the element taken,
\* is true of every subset of a finite set.
LEMMA SubsetsBy ==
  ASSUME NEW S, IsFiniteSet(S), NEW T, {} \in T,
         \A X \in SUBSET S : X # {} /\ X \ {Taken(X)} \in T => X \in T
  PROVE  SUBSET S \subseteq T
  <1> DEFINE B == (SUBSET S) \ T
  <1>1. SUFFICES ASSUME B # {} PROVE FALSE OBVIOUS
  <1>2. B \subseteq FiniteSubsetsOf(S) BY FS_Subset DEF FiniteSubsetsOf
  <1>3. \E X \in B : \A Y \in B : ~ (<<Y, X>> \in StrictSubsetOrdering(S))
    <2> HIDE DEF B
    <2> QED BY <1>1, <1>2, WFMin, FS_StrictSubsetOrderingWellFounded
  <1>4. PICK X \in B : \A Y \in B : ~ (<<Y, X>> \in StrictSubsetOrdering(S)) BY <1>3
  <1>5. X \in SUBSET S /\ X # {} OBVIOUS
  <1>6. Taken(X) \in X BY <1>5 DEF Taken
  <1> DEFINE Y == X \ {Taken(X)}
  <1>7. Y \subseteq X /\ Y # X /\ Y \in SUBSET S BY <1>5, <1>6
  <1> HIDE DEF Y
  <1>8. <<Y, X>> \in StrictSubsetOrdering(S) BY <1>5, <1>7 DEF StrictSubsetOrdering
  <1>9. Y \in T BY <1>4, <1>7, <1>8
  <1> QED BY <1>4, <1>5, <1>9 DEF Y

\* The fold's recursion, at one subset.
LEMMA SumsAt ==
  ASSUME NEW S, NEW f, NEW h, Sums(h, f, S), NEW s \in SUBSET S
  PROVE  /\ s = {} => h[s] = 0
         /\ s # {} => /\ Taken(s) \in s /\ s \ {Taken(s)} \in SUBSET S
                      /\ h[s] = f[Taken(s)] + h[s \ {Taken(s)}]
  <1>1. h[s] = IF s = {} THEN 0 ELSE f[Taken(s)] + h[s \ {Taken(s)}] BY DEF Sums
  <1>2. s # {} => Taken(s) \in s BY DEF Taken
  <1> QED BY <1>1, <1>2

LEMMA SumsEmpty ==
  ASSUME NEW S, NEW f, NEW h, Sums(h, f, S)
  PROVE  h[{}] = 0
  <1>1. {} \in SUBSET S OBVIOUS
  <1> QED BY <1>1, SumsAt

LEMMA SumsNat ==
  ASSUME NEW S, IsFiniteSet(S), NEW f \in [S -> Nat], NEW h, Sums(h, f, S)
  PROVE  \A s \in SUBSET S : h[s] \in Nat
  <1> DEFINE T == {s \in SUBSET S : h[s] \in Nat}
  <1>1. {} \in T
    <2>1. {} \in SUBSET S OBVIOUS
    <2>2. h[{}] = 0 BY <2>1, SumsAt
    <2> QED BY <2>1, <2>2
  <1>2. ASSUME NEW X \in SUBSET S, X # {}, X \ {Taken(X)} \in T PROVE X \in T
    <2>1. h[X] = f[Taken(X)] + h[X \ {Taken(X)}] /\ Taken(X) \in X BY <1>2, SumsAt
    <2>2. f[Taken(X)] \in Nat /\ h[X \ {Taken(X)}] \in Nat BY <1>2, <2>1
    <2> QED BY <2>1, <2>2
  <1>3. SUBSET S \subseteq T
    <2> HIDE DEF T
    <2> QED BY <1>1, <1>2, SubsetsBy
  <1> QED BY <1>3

\* No smaller summands, no smaller sum.
LEMMA SumsOrdered ==
  ASSUME NEW S, IsFiniteSet(S), NEW f \in [S -> Nat], NEW g \in [S -> Nat],
         \A x \in S : f[x] <= g[x],
         NEW h, Sums(h, f, S), NEW i, Sums(i, g, S)
  PROVE  h[S] <= i[S]
  <1> DEFINE T == {s \in SUBSET S : h[s] <= i[s]}
  <1>1. {} \in T
    <2>1. {} \in SUBSET S OBVIOUS
    <2>2. h[{}] = 0 BY <2>1, SumsAt
    <2>3. i[{}] = 0 BY <2>1, SumsAt
    <2> QED BY <2>1, <2>2, <2>3
  <1>2. ASSUME NEW X \in SUBSET S, X # {}, X \ {Taken(X)} \in T PROVE X \in T
    <2> DEFINE x == Taken(X)
               Y == X \ {x}
    <2>1. h[X] = f[x] + h[Y] /\ x \in S /\ Y \in SUBSET S BY <1>2, SumsAt
    <2>2. i[X] = g[x] + i[Y] BY <1>2, SumsAt
    <2>3. f[x] \in Nat /\ g[x] \in Nat /\ f[x] <= g[x] BY <2>1
    <2>4. h[Y] \in Nat /\ i[Y] \in Nat /\ h[Y] <= i[Y] BY <1>2, <2>1, SumsNat
    <2> HIDE DEF x, Y
    <2> QED BY <2>1, <2>2, <2>3, <2>4
  <1>3. SUBSET S \subseteq T
    <2> HIDE DEF T
    <2> QED BY <1>1, <1>2, SubsetsBy
  <1> QED BY <1>3

\* One summand greater by one, the sum greater by one.
LEMMA SumsLess ==
  ASSUME NEW S, IsFiniteSet(S), NEW f \in [S -> Nat], NEW g \in [S -> Nat],
         NEW e \in S, g[e] = f[e] + 1, \A x \in S \ {e} : f[x] = g[x],
         NEW h, Sums(h, f, S), NEW i, Sums(i, g, S)
  PROVE  i[S] = h[S] + 1
  <1> DEFINE T == {s \in SUBSET S : i[s] = h[s] + (IF e \in s THEN 1 ELSE 0)}
  <1>1. {} \in T
    <2>1. {} \in SUBSET S OBVIOUS
    <2>2. h[{}] = 0 BY <2>1, SumsEmpty
    <2>3. i[{}] = 0 BY <2>1, SumsEmpty
    <2> QED BY <2>1, <2>2, <2>3
  <1>2. ASSUME NEW X \in SUBSET S, X # {}, X \ {Taken(X)} \in T PROVE X \in T
    <2> DEFINE x == Taken(X)
               Y == X \ {x}
    <2>1. h[X] = f[x] + h[Y] /\ x \in X /\ x \in S /\ Y \in SUBSET S BY <1>2, SumsAt
    <2>2. i[X] = g[x] + i[Y] BY <1>2, SumsAt
    <2>3. f[x] \in Nat /\ g[x] \in Nat BY <2>1
    <2>4. h[Y] \in Nat /\ i[Y] \in Nat /\ i[Y] = h[Y] + (IF e \in Y THEN 1 ELSE 0)
      BY <1>2, <2>1, SumsNat
    <2>5. e \in Y <=> e \in X /\ e # x OBVIOUS
    <2>6. g[x] = IF x = e THEN f[x] + 1 ELSE f[x] BY <2>1
    <2> HIDE DEF x, Y
    <2>7. i[X] = h[X] + (IF e \in X THEN 1 ELSE 0) BY <2>1, <2>2, <2>3, <2>4, <2>5, <2>6
    <2> QED BY <2>7
  <1>3. SUBSET S \subseteq T
    <2> HIDE DEF T
    <2> QED BY <1>1, <1>2, SubsetsBy
  <1> QED BY <1>3

\* The sums exist.
SumsTo(n, f, S) ==
  {h \in [SUBSET S -> Nat] : \A s \in SUBSET S : Cardinality(s) <= n =>
     h[s] = IF s = {} THEN 0 ELSE f[Taken(s)] + h[s \ {Taken(s)}]}

\* Sums over the subsets of n elements give those over n + 1.
LEMMA SumsNext ==
  ASSUME NEW S, IsFiniteSet(S), NEW f \in [S -> Nat], NEW n \in Nat, SumsTo(n, f, S) # {}
  PROVE  SumsTo(n + 1, f, S) # {}
  <1>1. PICK h \in SumsTo(n, f, S) : TRUE OBVIOUS
  <1>2. h \in [SUBSET S -> Nat] BY DEF SumsTo
  <1>3. ASSUME NEW s \in SUBSET S, s # {}
        PROVE  /\ Taken(s) \in S /\ s \ {Taken(s)} \in SUBSET S
               /\ Cardinality(s) \in Nat /\ Cardinality(s \ {Taken(s)}) = Cardinality(s) - 1
    <2>1. Taken(s) \in s BY <1>3 DEF Taken
    <2>2. IsFiniteSet(s) BY FS_Subset
    <2> QED BY <2>1, <2>2, FS_RemoveElement, FS_CardinalityType
  <1> DEFINE at(s) == IF s = {} THEN 0 ELSE f[Taken(s)] + h[s \ {Taken(s)}]
             g == [s \in SUBSET S |-> at(s)]
  <1>4. \A s \in SUBSET S : at(s) \in Nat
    <2> SUFFICES ASSUME NEW s \in SUBSET S PROVE at(s) \in Nat OBVIOUS
    <2>1. CASE s = {} BY <2>1
    <2>2. CASE s # {}
      <3>1. f[Taken(s)] \in Nat /\ h[s \ {Taken(s)}] \in Nat BY <1>2, <1>3, <2>2
      <3> QED BY <2>2, <3>1
    <2> QED BY <2>1, <2>2
  <1>5. g \in [SUBSET S -> Nat] BY <1>4
  <1>6. \A s \in SUBSET S : Cardinality(s) <= n => g[s] = h[s] BY DEF SumsTo
  <1>7. ASSUME NEW s \in SUBSET S, Cardinality(s) <= n + 1
        PROVE  g[s] = IF s = {} THEN 0 ELSE f[Taken(s)] + g[s \ {Taken(s)}]
    <2>1. CASE s = {} BY <2>1
    <2>2. CASE s # {}
      <3>1. Cardinality(s \ {Taken(s)}) <= n /\ s \ {Taken(s)} \in SUBSET S BY <1>3, <1>7, <2>2
      <3>2. g[s \ {Taken(s)}] = h[s \ {Taken(s)}] BY <1>6, <3>1
      <3>3. g[s] = f[Taken(s)] + h[s \ {Taken(s)}] BY <2>2
      <3> QED BY <2>2, <3>2, <3>3
    <2> QED BY <2>1, <2>2
  <1> HIDE DEF g
  <1>8. g \in SumsTo(n + 1, f, S) BY <1>5, <1>7 DEF SumsTo
  <1> QED BY <1>8

LEMMA SumsExist ==
  ASSUME NEW S, IsFiniteSet(S), NEW f \in [S -> Nat]
  PROVE  \E h : Sums(h, f, S)
  <1> DEFINE B == {n \in Nat : SumsTo(n, f, S) = {}}
  <1>1. B = {}
    <2> SUFFICES ASSUME B # {} PROVE FALSE OBVIOUS
    <2>1. PICK n \in B : \A m \in B : ~ (<<m, n>> \in OpToRel(<, Nat))
      <3>1. B \subseteq Nat OBVIOUS
      <3> HIDE DEF B
      <3> QED BY <3>1, WFMin, NatLessThanWellFounded
    <2>2. \A m \in B : ~ (m < n) BY <2>1 DEF OpToRel
    <2>3. CASE n = 0
      <3> DEFINE z == [s \in SUBSET S |-> 0]
      <3>1. \A s \in SUBSET S : Cardinality(s) <= 0 => s = {}
        BY FS_Subset, FS_EmptySet, FS_CardinalityType
      <3>2. z \in SumsTo(0, f, S) BY <3>1 DEF SumsTo
      <3> QED BY <2>1, <2>3, <3>2
    <2>4. CASE n # 0
      <3>1. n - 1 \in Nat /\ n - 1 < n /\ (n - 1) + 1 = n BY <2>4
      <3>2. SumsTo(n - 1, f, S) # {} BY <2>2, <3>1
      <3>3. SumsTo((n - 1) + 1, f, S) # {} BY <3>1, <3>2, SumsNext
      <3> QED BY <3>1, <3>3
    <2> QED BY <2>3, <2>4
  <1>2. Cardinality(S) \in Nat BY FS_CardinalityType
  <1>3. PICK h \in SumsTo(Cardinality(S), f, S) : TRUE BY <1>1, <1>2
  <1>4. \A s \in SUBSET S : Cardinality(s) <= Cardinality(S) BY FS_Subset
  <1>5. h = [s \in SUBSET S |-> h[s]] BY DEF SumsTo
  <1>6. \A s \in SUBSET S : h[s] = IF s = {} THEN 0 ELSE f[Taken(s)] + h[s \ {Taken(s)}]
    BY <1>4 DEF SumsTo
  <1>7. [s \in SUBSET S |-> h[s]]
          = [s \in SUBSET S |-> IF s = {} THEN 0 ELSE f[Taken(s)] + h[s \ {Taken(s)}]]
    BY <1>6, Zenon
  <1>8. Sums(h, f, S) BY <1>5, <1>7, Zenon DEF Sums
  <1> QED BY <1>8

\* The sum of the values of f.
Sum(f) == (CHOOSE h : Sums(h, f, DOMAIN f))[DOMAIN f]

\* The sum is that of any function that satisfies the recursion.
LEMMA SumIs ==
  ASSUME NEW S, IsFiniteSet(S), NEW f \in [S -> Nat]
  PROVE  /\ Sum(f) \in Nat
         /\ \A h : Sums(h, f, S) => h[S] = Sum(f)
         /\ \E h : Sums(h, f, S)
  <1> DEFINE c == CHOOSE h : Sums(h, f, S)
  <1>1. \E h : Sums(h, f, S) BY SumsExist
  <1>2. Sums(c, f, S) BY <1>1
  <1>3. Sum(f) = c[S]
    <2>1. DOMAIN f = S OBVIOUS
    <2> QED BY <2>1 DEF Sum
  <1> HIDE DEF c
  <1>4. c[S] \in Nat
    <2>1. S \in SUBSET S OBVIOUS
    <2> QED BY <1>2, <2>1, SumsNat
  <1>5. ASSUME NEW h, Sums(h, f, S) PROVE h[S] = Sum(f)
    <2>1. \A x \in S : f[x] <= f[x] OBVIOUS
    <2>2. h[S] <= c[S] BY <1>2, <1>5, <2>1, SumsOrdered
    <2>3. c[S] <= h[S] BY <1>2, <1>5, <2>1, SumsOrdered
    <2>4. h[S] \in Nat
      <3>1. S \in SUBSET S OBVIOUS
      <3> QED BY <1>5, <3>1, SumsNat
    <2> QED BY <1>3, <1>4, <2>2, <2>3, <2>4
  <1> QED BY <1>1, <1>3, <1>4, <1>5

LEMMA SumOrdered ==
  ASSUME NEW S, IsFiniteSet(S), NEW f \in [S -> Nat], NEW g \in [S -> Nat],
         \A x \in S : f[x] <= g[x]
  PROVE  Sum(f) <= Sum(g)
  <1>1. PICK h : Sums(h, f, S) BY SumIs
  <1>2. PICK i : Sums(i, g, S) BY SumIs
  <1>3. h[S] = Sum(f) BY <1>1, SumIs
  <1>4. i[S] = Sum(g) BY <1>2, SumIs
  <1>5. h[S] <= i[S] BY <1>1, <1>2, SumsOrdered
  <1> QED BY <1>3, <1>4, <1>5

LEMMA SumLess ==
  ASSUME NEW S, IsFiniteSet(S), NEW f \in [S -> Nat], NEW g \in [S -> Nat],
         NEW e \in S, g[e] = f[e] + 1, \A x \in S \ {e} : f[x] = g[x]
  PROVE  Sum(g) = Sum(f) + 1
  <1>1. PICK h : Sums(h, f, S) BY SumIs
  <1>2. PICK i : Sums(i, g, S) BY SumIs
  <1>3. h[S] = Sum(f) BY <1>1, SumIs
  <1>4. i[S] = Sum(g) BY <1>2, SumIs
  <1>5. i[S] = h[S] + 1 BY <1>1, <1>2, SumsLess
  <1> QED BY <1>3, <1>4, <1>5

Weights(g) == [k \in DOMAIN g |-> g[k].weight]
Credits(g) == [k \in DOMAIN g |-> g[k].credit]

\* The total weight that FairShare folds is the sum of the group's weights.
LEMMA TotalIs ==
  ASSUME IsFiniteSet(DOMAIN group), \A k \in DOMAIN group : group[k].weight \in Nat
  PROVE  FairShare <=> \A k \in DOMAIN group : waits[group[k].index] <= 2 * Sum(Weights(group))
  <1> DEFINE S == DOMAIN group
             f == Weights(group)
             Body(h) == [s \in SUBSET S |-> IF s = {} THEN 0
                           ELSE group[Taken(s)].weight + h[s \ {Taken(s)}]]
             iter == CHOOSE h : h = Body(h)
  <1>1. FairShare <=> \A k \in DOMAIN group : waits[group[k].index] <= 2 * iter[S]
    BY DEF FairShare, MapThenSumSet, MapThenFoldSet, Taken
  <1>2. f \in [S -> Nat] BY DEF Weights
  <1>3. \E h : Sums(h, f, S) BY <1>2, SumIs
  <1>4. ASSUME NEW h PROVE Sums(h, f, S) <=> h = Body(h)
    <2>1. \A s \in SUBSET S : s # {} => f[Taken(s)] = group[Taken(s)].weight
      BY DEF Taken, Weights
    <2>2. [s \in SUBSET S |-> IF s = {} THEN 0 ELSE f[Taken(s)] + h[s \ {Taken(s)}]] = Body(h)
      <3> HIDE DEF f
      <3> QED BY <2>1, SMT
    <2> HIDE DEF f, Body
    <2> QED BY <2>2, Zenon DEF Sums
  <1> HIDE DEF Body
  <1>5. \E h : h = Body(h) BY <1>3, <1>4
  <1>6. iter = Body(iter) BY <1>5
  <1>7. Sums(iter, f, S) BY <1>4, <1>6
  <1> HIDE DEF iter, f
  <1>8. iter[S] = Sum(f) BY <1>2, <1>7, SumIs
  <1> QED BY <1>1, <1>8 DEF f

-----------------------------------------------------------------------------
(* The shares of the rotation.                                             *)

\* Between two of its turns a path waits for what the others have left of this
\* round and, when it has had its turn in it, of the next.
Shares(g, v) ==
  \A k \in DOMAIN g :
    /\ v[k - 1] \in Nat
    /\ v[k - 1] + Sum(Credits(g)) <= Sum(Weights(g)) + (IF g[k].credit = 0 THEN 0 ELSE Sum(Weights(g)))

ShareInv ==
  /\ DOMAIN waits = (0 .. Len(bond.paths) - 1) \cup bond.adds
  /\ Shares(group, waits)

\* The summands of a group.
LEMMA GroupSums ==
  ASSUME NEW n \in Nat, NEW g \in [1 .. n -> MemberT]
  PROVE  /\ IsFiniteSet(1 .. n) /\ DOMAIN g = 1 .. n
         /\ Credits(g) \in [1 .. n -> Nat] /\ Weights(g) \in [1 .. n -> Nat]
         /\ \A k \in 1 .. n : Credits(g)[k] = g[k].credit /\ Weights(g)[k] = g[k].weight
         /\ Sum(Credits(g)) \in Nat /\ Sum(Weights(g)) \in Nat
  <1>1. IsFiniteSet(1 .. n) /\ DOMAIN g = 1 .. n BY FS_Interval
  <1>2. \A k \in 1 .. n : g[k].credit \in Nat /\ g[k].weight \in Nat BY DEF MemberT
  <1>3. /\ Credits(g) \in [1 .. n -> Nat] /\ Weights(g) \in [1 .. n -> Nat]
        /\ \A k \in 1 .. n : Credits(g)[k] = g[k].credit /\ Weights(g)[k] = g[k].weight
    BY <1>1, <1>2 DEF Credits, Weights
  <1> QED BY <1>1, <1>3, SumIs

LEMMA CreditsFit ==
  ASSUME NEW n \in Nat, NEW g \in [1 .. n -> MemberT], \A k \in 1 .. n : g[k].credit <= g[k].weight
  PROVE  Sum(Credits(g)) <= Sum(Weights(g))
  <1>1. \A k \in 1 .. n : Credits(g)[k] <= Weights(g)[k] BY GroupSums
  <1> QED BY <1>1, GroupSums, SumOrdered

\* Nobody has waited yet.
LEMMA SharesAnew ==
  ASSUME NEW n \in Nat, NEW g \in [1 .. n -> MemberT], \A k \in 1 .. n : g[k].credit <= g[k].weight,
         NEW v, \A k \in 1 .. n : v[k - 1] = 0
  PROVE  Shares(g, v)
  <1>1. /\ Sum(Credits(g)) \in Nat /\ Sum(Weights(g)) \in Nat /\ DOMAIN g = 1 .. n
        /\ Sum(Credits(g)) <= Sum(Weights(g))
    BY GroupSums, CreditsFit
  <1> DEFINE c == Sum(Credits(g))
             w == Sum(Weights(g))
  <1>2. c \in Nat /\ w \in Nat /\ c <= w BY <1>1
  <1> HIDE DEF c, w
  <1>3. \A k \in 1 .. n : v[k - 1] \in Nat /\ v[k - 1] + c <= w + (IF g[k].credit = 0 THEN 0 ELSE w)
    BY <1>2
  <1> QED BY <1>1, <1>3 DEF Shares, c, w

\* A step that changes neither credit nor weight.
LEMMA SharesKept ==
  ASSUME NEW n \in Nat, NEW g \in [1 .. n -> MemberT], NEW h \in [1 .. n -> MemberT],
         \A k \in 1 .. n : h[k].credit = g[k].credit /\ h[k].weight = g[k].weight,
         NEW v, Shares(g, v)
  PROVE  Shares(h, v)
  <1>1. DOMAIN g = 1 .. n /\ DOMAIN h = 1 .. n OBVIOUS
  <1>2. Credits(h) = Credits(g) /\ Weights(h) = Weights(g) BY <1>1 DEF Credits, Weights
  <1> QED BY <1>1, <1>2 DEF Shares

\* select_weighted: the elected path e gives one credit; before that a new round
\* began if the paths in set had none.
Elects(n, g, r, h, set, e) ==
  /\ set \subseteq 1 .. n /\ e \in set
  /\ \A k \in 1 .. n : g[k].credit <= g[k].weight /\ r[k].weight = g[k].weight
                       /\ r[k].credit <= r[k].weight /\ h[k].weight = r[k].weight
  /\ \/ \A k \in 1 .. n : r[k].credit = g[k].credit
     \/ \A k \in set : g[k].credit = 0 /\ r[k].credit > 0
  /\ r[e].credit > 0 /\ h[e].credit = r[e].credit - 1
  /\ \A k \in 1 .. n \ {e} : h[k].credit = r[k].credit

\* The paths in set wait one medium longer, but for e.
Waited(n, set, e, v, u) ==
  \A k \in 1 .. n : u[k - 1] = IF k = e \/ k \notin set THEN 0 ELSE v[k - 1] + 1

LEMMA SharesSent ==
  ASSUME NEW n \in Nat, NEW g \in [1 .. n -> MemberT], NEW r \in [1 .. n -> MemberT],
         NEW h \in [1 .. n -> MemberT], NEW set, NEW e, Elects(n, g, r, h, set, e),
         NEW v, Shares(g, v),
         NEW u, Waited(n, set, e, v, u)
  PROVE  Shares(h, u)
  <1> USE DEF Elects, Waited
  <1> DEFINE cg == Sum(Credits(g))
             cr == Sum(Credits(r))
             ch == Sum(Credits(h))
             w  == Sum(Weights(g))
  <1>1. cg \in Nat /\ cr \in Nat /\ ch \in Nat /\ w \in Nat /\ DOMAIN h = 1 .. n /\ DOMAIN g = 1 .. n
    BY GroupSums
  <1>2. Sum(Weights(h)) = w /\ Sum(Weights(r)) = w
    <2>1. DOMAIN r = 1 .. n OBVIOUS
    <2>2. Weights(h) = Weights(g) /\ Weights(r) = Weights(g) BY <1>1, <2>1 DEF Weights
    <2> QED BY <2>2
  <1>3. cr <= w
    <2>1. cr <= Sum(Weights(r)) BY CreditsFit
    <2> QED BY <1>2, <2>1
  <1>4. cr = ch + 1
    <2>1. e \in 1 .. n OBVIOUS
    <2>2. h[e].credit \in Nat /\ r[e].credit \in Nat BY <2>1 DEF MemberT
    <2>3. r[e].credit = h[e].credit + 1 BY <2>2
    <2>4. Credits(r)[e] = Credits(h)[e] + 1 BY <2>1, <2>3, GroupSums
    <2>5. \A k \in 1 .. n \ {e} : Credits(h)[k] = Credits(r)[k]
      <3>1. \A k \in 1 .. n : Credits(h)[k] = h[k].credit BY GroupSums
      <3>2. \A k \in 1 .. n : Credits(r)[k] = r[k].credit BY GroupSums
      <3> QED BY <3>1, <3>2
    <2>6. Credits(r) \in [1 .. n -> Nat] /\ Credits(h) \in [1 .. n -> Nat] /\ IsFiniteSet(1 .. n)
      BY GroupSums
    <2> QED BY <2>1, <2>4, <2>5, <2>6, SumLess
  <1>5. ASSUME NEW k \in 1 .. n
        PROVE  u[k - 1] \in Nat /\ u[k - 1] + ch <= w + (IF h[k].credit = 0 THEN 0 ELSE w)
    <2>1. CASE k = e \/ k \notin set
      <3>1. u[k - 1] = 0 BY <2>1
      <3> HIDE DEF cg, cr, ch, w
      <3> QED BY <1>1, <1>3, <1>4, <3>1
    <2>2. CASE k # e /\ k \in set
      <3> DEFINE a == v[k - 1]
      <3>1. u[k - 1] = a + 1 BY <2>2
      <3>2. a \in Nat /\ a + cg <= w + (IF g[k].credit = 0 THEN 0 ELSE w) BY <1>1 DEF Shares
      <3>3. h[k].credit = r[k].credit BY <2>2
      <3> HIDE DEF a
      <3>4. CASE \A j \in 1 .. n : r[j].credit = g[j].credit
        <4>1. cr = cg
          <5>1. DOMAIN g = 1 .. n /\ DOMAIN r = 1 .. n OBVIOUS
          <5>2. Credits(r) = Credits(g) BY <3>4, <5>1 DEF Credits
          <5> QED BY <5>2
        <4>2. h[k].credit = g[k].credit BY <3>3, <3>4
        <4> HIDE DEF cg, cr, ch, w
        <4> QED BY <1>1, <1>4, <3>1, <3>2, <4>1, <4>2
      <3>5. CASE \A j \in set : g[j].credit = 0 /\ r[j].credit > 0
        <4>1. g[k].credit = 0 /\ h[k].credit > 0 BY <2>2, <3>3, <3>5
        <4>2. h[k].credit # 0 BY <4>1
        <4> HIDE DEF cg, cr, ch, w
        <4>3. a <= w BY <1>1, <3>2, <4>1
        <4>4. a + 1 + ch <= w + w BY <1>1, <1>3, <1>4, <3>2, <4>3
        <4> QED BY <3>1, <3>2, <4>2, <4>4
      <3> QED BY <3>4, <3>5
    <2> QED BY <2>1, <2>2
  <1> HIDE DEF ch, w
  <1> QED BY <1>1, <1>2, <1>5 DEF Shares, ch

\* What the shares need to know of the group.
Fits ==
  /\ Len(links) \in Nat /\ group \in [1 .. Len(links) -> MemberT]
  /\ \A k \in 1 .. Len(links) : /\ group[k].index = k - 1 /\ group[k].credit <= group[k].weight
                                /\ k - 1 \in DOMAIN heard
  /\ DOMAIN heard = (0 .. Len(bond.paths) - 1) \cup bond.adds

LEMMA InvFits == BondInv => Fits
  BY BondShape, PathFacts DEF PathOK, BondInv, BondTyped, Fits

LEMMA WaitsAnew ==
  ASSUME Fits, DOMAIN waits = DOMAIN heard, \A j \in DOMAIN waits : waits[j] = 0
  PROVE  ShareInv
  <1>1. \A k \in 1 .. Len(links) : waits[k - 1] = 0 BY DEF Fits
  <1>2. Shares(group, waits) BY <1>1, SharesAnew DEF Fits
  <1> QED BY <1>2 DEF ShareInv, Fits

\* A step that starts all waits over.
LEMMA WaitsOver ==
  ASSUME Fits', bond' = bond, ShareInv, waits' = [j \in DOMAIN waits |-> 0]
  PROVE  ShareInv'
  <1>1. DOMAIN waits' = DOMAIN heard' BY DEF ShareInv, Fits
  <1>2. PICK n \in Nat : n = Len(links)' BY DEF Fits
  <1>3. /\ group' \in [1 .. n -> MemberT]
        /\ \A k \in 1 .. n : group'[k].credit <= group'[k].weight /\ k - 1 \in DOMAIN heard'
    BY <1>2 DEF Fits
  <1>4. \A k \in 1 .. n : waits'[k - 1] = 0 BY <1>1, <1>3
  <1>5. Shares(group', waits') BY <1>3, <1>4, SharesAnew
  <1> QED BY <1>1, <1>5 DEF ShareInv, Fits

\* A step that leaves credits, weights and waits alone.
LEMMA WaitsKept ==
  ASSUME Fits, Fits', bond' = bond, Len(links') = Len(links), ShareInv, waits' = waits,
         \A k \in 1 .. Len(links) : group'[k].credit = group[k].credit /\ group'[k].weight = group[k].weight
  PROVE  ShareInv'
  <1>1. PICK n \in Nat : n = Len(links) BY DEF Fits
  <1>2. group' \in [1 .. n -> MemberT] /\ group \in [1 .. n -> MemberT] BY <1>1 DEF Fits
  <1>3. Shares(group', waits) BY <1>1, <1>2, SharesKept DEF ShareInv
  <1> QED BY <1>3 DEF ShareInv

\* observe, observe_path_rtt
LEMMA ObserveShares ==
  ASSUME BondInv, NEW i, NEW rtt, group' = GroupObserve(i, rtt), NEW k \in 1 .. Len(links)
  PROVE  group'[k].credit = group[k].credit /\ group'[k].weight = group[k].weight
  <1>1. group \in [1 .. Len(links) -> MemberT] /\ group[k] \in MemberT BY BondShape
  <1>2. group'[k] = IF group[k].index # i THEN group[k]
                    ELSE [Observed(group[k]) EXCEPT !.rtt = IF rtt = 0 THEN @ ELSE rtt]
    BY <1>1 DEF GroupObserve
  <1>3. CASE group[k].index # i BY <1>2, <1>3
  <1>4. CASE group[k].index = i
    <2> DEFINE o == Observed(group[k])
    <2>1. o \in MemberT /\ o.credit = group[k].credit /\ o.weight = group[k].weight
      BY <1>1, ObservedMember
    <2>2. group'[k] = [o EXCEPT !.rtt = IF rtt = 0 THEN o.rtt ELSE rtt] BY <1>2, <1>4
    <2> HIDE DEF o
    <2> QED BY <2>1, <2>2 DEF MemberT
  <1> QED BY <1>3, <1>4

LEMMA HearsShares ==
  ASSUME BondInv, Fits', ShareInv, NEW k \in DOMAIN links, NEW kind, NEW rtt, OnDatagram(k, kind, rtt)
  PROVE  ShareInv'
  <1>1. Fits BY InvFits
  <1>2. waits' = waits /\ bond' = bond BY DEF OnDatagram
  <1>3. PICK at : at = Position(k) OBVIOUS
  <1>4. CASE at \notin DOMAIN links
    <2>1. links' = links /\ group' = group BY <1>3, <1>4 DEF OnDatagram
    <2> QED BY <1>1, <1>2, <2>1, WaitsKept
  <1>5. CASE at \in DOMAIN links
    <2>1. PICK i, t : group' = GroupObserve(i, t)
      BY <1>3, <1>5 DEF OnDatagram, Hears
    <2>2. Len(links') = Len(links)
      <3>1. DOMAIN links' = DOMAIN links BY <1>3, <1>5 DEF OnDatagram
      <3>2. Len(links') \in Nat /\ Len(links) \in Nat BY <1>1 DEF Fits
      <3>3. DOMAIN group' = DOMAIN group BY <2>1 DEF GroupObserve
      <3>4. DOMAIN group' = 1 .. Len(links') /\ DOMAIN group = 1 .. Len(links) BY <1>1 DEF Fits
      <3>5. 1 .. Len(links') = 1 .. Len(links) BY <3>3, <3>4
      <3> QED BY <3>2, <3>5
    <2> QED BY <1>1, <1>2, <2>1, <2>2, ObserveShares, WaitsKept
  <1> QED BY <1>4, <1>5

\* The tick ages paths and leaves the rotation alone.
LEMMA TickShares == ASSUME BondInv, Fits', ShareInv, OnTick PROVE ShareInv'
  <1>1. Fits BY InvFits
  <1>2. waits' = waits /\ bond' = bond /\ DOMAIN group' = DOMAIN group BY DEF OnTick
  <1>3. Len(links') = Len(links)
    <2>1. Len(links') \in Nat /\ Len(links) \in Nat BY <1>1 DEF Fits
    <2>2. DOMAIN group' = 1 .. Len(links') /\ DOMAIN group = 1 .. Len(links) BY <1>1 DEF Fits
    <2>3. 1 .. Len(links') = 1 .. Len(links) BY <1>2, <2>2
    <2> QED BY <2>1, <2>3
  <1>4. ASSUME NEW k \in 1 .. Len(links)
        PROVE  group'[k].credit = group[k].credit /\ group'[k].weight = group[k].weight
    <2>1. group[k] \in MemberT /\ DOMAIN group = 1 .. Len(links) BY <1>1 DEF Fits
    <2>2. group'[k] = [group[k] EXCEPT !.silent = Age(@)] BY <2>1 DEF OnTick
    <2> QED BY <2>1, <2>2 DEF MemberT
  <1> QED BY <1>1, <1>2, <1>3, <1>4, WaitsKept

\* drain of a media packet: one credit is spent, and everybody else waits.
LEMMA SendShares == ASSUME BondInv, Fits', ShareInv, OnMedia PROVE ShareInv'
  <1> DEFINE elected == IF Sendable = {} THEN {} ELSE {Richest(Round, Sendable)}
  <1>1. Fits BY InvFits
  <1>2. PICK n \in Nat : n = Len(links) BY <1>1 DEF Fits
  <1>3. /\ links' = links /\ bond' = bond
        /\ group' = [k \in DOMAIN group |->
                       IF k \in elected THEN [Round[k] EXCEPT !.credit = @ - 1] ELSE Round[k]]
        /\ waits' = [i \in DOMAIN waits |->
                       IF \E k \in elected : group[k].index = i THEN 0
                       ELSE IF \E k \in Sendable : group[k].index = i THEN waits[i] + 1
                       ELSE 0]
    BY DEF OnMedia
  <1>4. /\ group \in [1 .. n -> MemberT] /\ group' \in [1 .. n -> MemberT] /\ DOMAIN group = 1 .. n
        /\ \A k \in 1 .. n : /\ group[k].index = k - 1 /\ group[k].credit <= group[k].weight
                             /\ k - 1 \in DOMAIN waits
        /\ Sendable \subseteq 1 .. n
    BY <1>1, <1>2, <1>3 DEF Fits, ShareInv, Sendable
  <1>5. \A j, k \in 1 .. n : group[k].index = j - 1 <=> k = j BY <1>4
  <1>6. elected \subseteq Sendable BY RoundIs
  <1>7. \A k \in 1 .. n : waits'[k - 1] = IF k \in elected THEN 0
                                          ELSE IF k \in Sendable THEN waits[k - 1] + 1 ELSE 0
    <2> SUFFICES ASSUME NEW k \in 1 .. n
                 PROVE  waits'[k - 1] = IF k \in elected THEN 0
                                        ELSE IF k \in Sendable THEN waits[k - 1] + 1 ELSE 0
      OBVIOUS
    <2>1. (\E j \in elected : group[j].index = k - 1) <=> k \in elected BY <1>4, <1>5, <1>6
    <2>2. (\E j \in Sendable : group[j].index = k - 1) <=> k \in Sendable BY <1>4, <1>5
    <2>3. k - 1 \in DOMAIN waits BY <1>4
    <2> HIDE DEF elected
    <2> QED BY <1>3, <2>1, <2>2, <2>3
  <1>8. DOMAIN waits' = DOMAIN waits BY <1>3
  <1>9. CASE Sendable = {}
    <2>1. Shares(group', waits')
      <3>1. \A k \in 1 .. n : waits'[k - 1] = 0 BY <1>6, <1>7, <1>9
      <3>2. \A k \in 1 .. n : group'[k].credit <= group'[k].weight BY <1>2, <1>3 DEF Fits
      <3> QED BY <1>4, <3>1, <3>2, SharesAnew
    <2> QED BY <1>3, <1>8, <2>1 DEF ShareInv
  <1>10. CASE Sendable # {}
    <2>1. PICK e \in Sendable : e = Richest(Round, Sendable) /\ Round[e].credit > 0
      BY <1>10, RoundIs
    <2>2. elected = {e} BY <1>10, <2>1
    <2> HIDE DEF elected
    <2>3. /\ Round \in [1 .. n -> MemberT]
          /\ \A k \in 1 .. n : Round[k].credit <= Round[k].weight
      BY <1>2, RoundIs
    <2>4. /\ group'[e].credit = Round[e].credit - 1
          /\ \A k \in 1 .. n \ {e} : group'[k].credit = Round[k].credit
          /\ \A k \in 1 .. n : group'[k].weight = Round[k].weight
      <3>1. e \in 1 .. n BY <1>4
      <3>2. group'[e] = [Round[e] EXCEPT !.credit = @ - 1] BY <1>3, <1>4, <2>2, <3>1
      <3>3. \A k \in 1 .. n \ {e} : group'[k] = Round[k] BY <1>3, <1>4, <2>2
      <3>4. Round[e] \in MemberT BY <2>3, <3>1
      <3>5. group'[e].credit = Round[e].credit - 1 /\ group'[e].weight = Round[e].weight
        BY <3>2, <3>4 DEF MemberT
      <3> QED BY <3>1, <3>3, <3>5
    <2>5. /\ \A k \in 1 .. n : Round[k].weight = group[k].weight
          /\ \/ \A k \in 1 .. n : Round[k].credit = group[k].credit
             \/ \A k \in Sendable : group[k].credit = 0 /\ Round[k].credit > 0
      <3>1. CASE Round = group BY <3>1
      <3>2. CASE Round = Refilled(Sendable) /\ group[Richest(group, Sendable)].credit = 0
        <4>1. \A k \in Sendable : group[k].credit \in Nat /\ group[k].weight > 0
          BY <1>4 DEF MemberT, Sendable
        <4>2. \A k \in Sendable : group[k].credit <= group[Richest(group, Sendable)].credit
          BY <1>4, <1>10, <4>1, RichestIn
        <4>3. \A k \in Sendable : group[k].credit = 0 BY <3>2, <4>1, <4>2
        <4>4. \A k \in 1 .. n : Round[k] = IF k \in Sendable THEN [group[k] EXCEPT !.credit = group[k].weight]
                                           ELSE group[k]
          BY <1>4, <3>2 DEF Refilled
        <4>5. \A k \in 1 .. n : /\ Round[k].weight = group[k].weight
                                /\ k \in Sendable => Round[k].credit = group[k].weight
          BY <1>4, <4>4 DEF MemberT
        <4> QED BY <1>4, <4>1, <4>3, <4>5
      <3> QED BY <3>1, <3>2 DEF Round
    <2>6. \A k \in 1 .. n : waits'[k - 1] = IF k = e \/ k \notin Sendable THEN 0 ELSE waits[k - 1] + 1
      BY <1>7, <2>2
    <2>7. Shares(group, waits) BY DEF ShareInv
    <2>8. Shares(group', waits')
      <3>1. Elects(n, group, Round, group', Sendable, e)
        BY <1>4, <2>1, <2>3, <2>4, <2>5 DEF Elects
      <3>2. PICK g, r, h, v, u, set : /\ g = group /\ r = Round /\ h = group'
                                      /\ v = waits /\ u = waits' /\ set = Sendable
        OBVIOUS
      <3>3. /\ g \in [1 .. n -> MemberT] /\ r \in [1 .. n -> MemberT] /\ h \in [1 .. n -> MemberT]
            /\ Elects(n, g, r, h, set, e) /\ Shares(g, v)
        BY <1>4, <2>3, <2>7, <3>1, <3>2
      <3>4. Waited(n, set, e, v, u) BY <2>6, <3>2 DEF Waited
      <3>5. Shares(h, u) BY <3>3, <3>4, SharesSent
      <3> QED BY <3>2, <3>5
    <2> QED BY <1>3, <1>8, <2>8 DEF ShareInv
  <1> QED BY <1>9, <1>10

LEMMA ShareStep ==
  ASSUME BondInv, Fits', ShareInv, [BondNext]_bondVars PROVE ShareInv'
  <1>1. CASE UNCHANGED bondVars BY <1>1 DEF bondVars, ShareInv
  <1>2. CASE \E k \in DOMAIN links : \E kind, rtt : OnDatagram(k, kind, rtt)
    BY <1>2, HearsShares
  <1>3. CASE OnMedia BY <1>3, SendShares
  <1>4. CASE OnFeedback BY <1>4 DEF OnFeedback, ShareInv
  <1>5. CASE OnTick BY <1>5, TickShares
  <1>6. CASE Fade BY <1>6 DEF Fade, ShareInv
  <1>7. CASE \E i, w : SetWeight(i, w) \/ AddPath(i, w) \/ RemovePath(i)
    <2>1. bond' = bond /\ waits' = [j \in DOMAIN waits |-> 0]
      BY <1>7 DEF SetWeight, AddPath, RemovePath
    <2> QED BY <2>1, WaitsOver
  <1>8. (\E k \in DOMAIN links :
           \/ OnDatagram(k, IF bond.sender THEN "control" ELSE "media", 0)
           \/ ~bond.sender /\ \E rtt \in 1 .. 2 : OnDatagram(k, "echo", rtt)
           \/ bond.eap /\ OnDatagram(k, "eap", 0))
        => \E k \in DOMAIN links : \E kind, rtt : OnDatagram(k, kind, rtt)
    BY Zenon
  <1> QED BY <1>1, <1>2, <1>3, <1>4, <1>5, <1>6, <1>7, <1>8, Zenon DEF BondNext

LEMMA ShareStarts == BondInv /\ BondInit => ShareInv
  <1> SUFFICES ASSUME BondInv, NEW c \in BondCases, BondStart(c) PROVE ShareInv BY DEF BondInit
  <1>1. Fits BY InvFits
  <1>2. DOMAIN waits = DOMAIN heard /\ \A j \in DOMAIN waits : waits[j] = 0 BY DEF BondStart
  <1> QED BY <1>1, <1>2, WaitsAnew

\* For any number of paths and any weights: while paths come and go only at the
\* end of the list, a path that stays usable waits for at most two rounds
\* (bonding.rs: select_weighted).
THEOREM BondFairShare == ASSUME AtTheEnd PROVE BondSpec => []FairShare
  <1>1. BondInv /\ ShareInv => FairShare
    <2> SUFFICES ASSUME BondInv, ShareInv PROVE FairShare OBVIOUS
    <2>1. Fits BY InvFits
    <2>2. PICK n \in Nat : n = Len(links) BY <2>1 DEF Fits
    <2>3. group \in [1 .. n -> MemberT] /\ \A k \in 1 .. n : group[k].index = k - 1 BY <2>1, <2>2 DEF Fits
    <2>4. /\ IsFiniteSet(DOMAIN group) /\ \A k \in DOMAIN group : group[k].weight \in Nat
          /\ DOMAIN group = 1 .. n /\ Sum(Credits(group)) \in Nat /\ Sum(Weights(group)) \in Nat
      BY <2>3, GroupSums DEF MemberT
    <2>6. ASSUME NEW k \in DOMAIN group PROVE waits[group[k].index] <= 2 * Sum(Weights(group))
      <3> DEFINE c == Sum(Credits(group))
                 w == Sum(Weights(group))
                 a == waits[k - 1]
      <3>1. a \in Nat /\ a + c <= w + (IF group[k].credit = 0 THEN 0 ELSE w) BY DEF ShareInv, Shares
      <3>2. c \in Nat /\ w \in Nat BY <2>4
      <3>3. group[k].index = k - 1 BY <2>3, <2>4
      <3> HIDE DEF a, c, w
      <3>4. a <= 2 * w BY <3>1, <3>2
      <3> QED BY <3>3, <3>4 DEF a, w
    <2> QED BY <2>4, <2>6, TotalIs
  <1>2. BondInit => BondInv BY BondStarts
  <1>3. BondInv /\ [BondNext]_bondVars => BondInv' BY BondStep
  <1>4. BondInv => Fits BY InvFits
  <1>5. BondInv /\ BondInit => ShareInv BY ShareStarts
  <1>6. BondInv /\ Fits' /\ ShareInv /\ [BondNext]_bondVars => ShareInv' BY ShareStep
  <1> QED BY <1>1, <1>2, <1>3, <1>4, <1>5, <1>6, PTL DEF BondSpec

-----------------------------------------------------------------------------
(* Source adaptation: what a report does to the encoder's target rate.     *)

USE AdaptAssumption

Stats == [received: Nat, missing: Nat, lost: Nat, fec: Nat]
Lqms  == [source_received: Nat, original_lost: Nat, unrecovered: Nat]

AdaptType ==
  /\ stats \in Stats /\ holes \in Nat /\ reports \in Seq(Lqms)
  /\ target \in MinRate .. MaxRateKbps /\ unrepaired \in BOOLEAN

-----------------------------------------------------------------------------
(* Arithmetic *)

\* A quotient of what is at most t times the divisor is at most t.
LEMMA QuotientBound ==
  ASSUME NEW a \in Int, NEW b \in Nat \ {0}, NEW t \in Nat, a <= t * b
  PROVE  a \div b \in Int /\ a \div b <= t
  <1> DEFINE q == a \div b
  <1>1. q \in Int /\ b * q <= a OBVIOUS
  <1> HIDE DEF q
  <1>2. SUFFICES ASSUME q >= t + 1 PROVE FALSE BY <1>1 DEF q
  <1>3. b * q >= b * (t + 1) BY <1>1, <1>2
  <1>4. b * (t + 1) = t * b + b OBVIOUS
  <1> QED BY <1>1, <1>3, <1>4

LEMMA ProductType == ASSUME NEW a \in Nat, NEW b \in Nat PROVE a * b \in Nat
  OBVIOUS

\* Max and Min of two numbers.
LEMMA TwoExtremes ==
  ASSUME NEW a \in Int, NEW b \in Int
  PROVE  /\ Max({a, b}) \in {a, b} /\ Max({a, b}) >= a /\ Max({a, b}) >= b
         /\ Min({a, b}) \in {a, b} /\ Min({a, b}) <= a /\ Min({a, b}) <= b
  <1>1. \E x \in {a, b} : \A y \in {a, b} : x >= y
    <2>1. CASE a >= b BY <2>1
    <2>2. CASE b >= a BY <2>2
    <2> QED BY <2>1, <2>2
  <1>2. \E x \in {a, b} : \A y \in {a, b} : x <= y
    <2>1. CASE a <= b BY <2>1
    <2>2. CASE b <= a BY <2>2
    <2> QED BY <2>1, <2>2
  <1> QED BY <1>1, <1>2 DEF Max, Min

\* The cut is a share of what was accounted for: never negative.
LEMMA CutType == ASSUME NEW m \in Lqms PROVE Cut(m) \in Nat
  <1>1. Accounted(m) \in Nat BY DEF Accounted, Lqms
  <1>2. Residual(m) \in Nat BY DEF Residual, Lqms
  <1>3. LossFraction(m) \in Nat BY DEF LossFraction, Lqms
  <1>4. TargetLoss * Accounted(m) \in Nat BY <1>1, ProductType
  <1> DEFINE r == Residual(m)
             l == LossFraction(m) - TargetLoss * Accounted(m)
             worse == Max({r, l})
             most  == MaxCut * Accounted(m)
  <1>5. r \in Nat /\ l \in Int /\ most \in Nat BY <1>1, <1>2, <1>3, <1>4 DEF MaxCut
  <1>6. Cut(m) = Min({Gain * worse, most}) BY DEF Cut
  <1> HIDE DEF r, l, most
  <1>7. worse \in {r, l} /\ worse >= r
    <2>1. r \in Int /\ l \in Int BY ONLY <1>5
    <2> QED BY ONLY <2>1, TwoExtremes, ZenonT(30)
  <1>8. worse \in Nat BY <1>5, <1>7
  <1> HIDE DEF worse
  <1> DEFINE g == Gain * worse
  <1>9. g \in Nat BY <1>8, ProductType
  <1> HIDE DEF g
  <1>10. Min({g, most}) \in {g, most} BY ONLY <1>5, <1>9, TwoExtremes, SMTT(30)
  <1>11. Cut(m) = Min({g, most}) BY <1>6 DEF g
  <1> QED BY <1>5, <1>9, <1>10, <1>11

\* A back-off never raises the target.
LEMMA DecreasedBound ==
  ASSUME target \in Nat, NEW m \in Lqms
  PROVE  Decreased(m) \in Int /\ Decreased(m) <= target
  <1>1. Accounted(m) \in Nat BY DEF Accounted, Lqms
  <1>2. CASE Accounted(m) = 0 BY <1>2 DEF Decreased
  <1>3. CASE Accounted(m) # 0
    <2> DEFINE b == 1000 * Accounted(m)
               c == Cut(m)
    <2>1. b \in Nat \ {0} /\ c \in Nat BY <1>1, <1>3, CutType
    <2>2. Decreased(m) = (target * (b - c)) \div b BY <1>3 DEF Decreased
    <2> HIDE DEF b, c
    <2>3. target * c \in Nat /\ target * b \in Nat BY <2>1, ProductType
    <2>4. target * (b - c) = target * b - target * c BY <2>1
    <2>5. target * (b - c) \in Int /\ target * (b - c) <= target * b BY <2>3, <2>4
    <2> QED BY <2>1, <2>2, <2>5, QuotientBound
  <1> QED BY <1>2, <1>3

-----------------------------------------------------------------------------
(* Reports *)

LEMMA LqmType == ASSUME AdaptType PROVE Lqm \in Lqms
  <1>1. stats.received \in Nat /\ stats.fec \in Nat /\ stats.missing \in Nat /\ stats.lost \in Nat
    BY DEF AdaptType, Stats
  <1>2. stats.received - Moved \in Nat BY <1>1 DEF Moved
  <1> QED BY <1>1, <1>2 DEF Lqm, Lqms

\* A report less is still a queue of reports.
LEMMA RemovedType ==
  ASSUME NEW q \in Seq(Lqms), NEW i \in DOMAIN q PROVE RemoveAt(q, i) \in Seq(Lqms)
  <1>1. i \in 1 .. Len(q) /\ Len(q) \in Nat OBVIOUS
  <1>2. SubSeq(q, 1, i - 1) \in Seq(Lqms)
    BY <1>1, SubSeqProperties
  <1>3. SubSeq(q, i + 1, Len(q)) \in Seq(Lqms)
    BY <1>1, SubSeqProperties
  <1> QED BY <1>2, <1>3 DEF RemoveAt

\* Only a repaired period raises the target, within its bounds.
LEMMA ObserveBound ==
  ASSUME AdaptType, NEW m \in Lqms
  PROVE  /\ ObserveLqm(m) \in MinRate .. MaxRateKbps
         /\ m.unrecovered > 0 => ObserveLqm(m) <= target
  <1>1. target \in MinRate .. MaxRateKbps /\ target \in Nat /\ m.unrecovered \in Nat
    BY DEF AdaptType, Lqms
  <1>2. CASE NoInformation(m) BY <1>1, <1>2 DEF ObserveLqm, NoInformation
  <1>3. CASE ~NoInformation(m) /\ Probes(m)
    <2>1. Increase \in Nat BY DEF Increase
    <2> QED BY <1>1, <1>3, <2>1 DEF ObserveLqm, Clamp, Probes
  <1>4. CASE ~NoInformation(m) /\ ~Probes(m)
    <2>1. Decreased(m) \in Int /\ Decreased(m) <= target BY <1>1, DecreasedBound
    <2> QED BY <1>1, <1>4, <2>1 DEF ObserveLqm, Clamp
  <1> QED BY <1>2, <1>3, <1>4

-----------------------------------------------------------------------------

LEMMA AdaptTypeInit == AdaptInit => AdaptType
  <1> SUFFICES ASSUME AdaptInit PROVE AdaptType OBVIOUS
  <1>1. stats \in Stats /\ holes \in Nat BY DEF AdaptInit, NewPeriod, Stats
  <1>2. reports \in Seq(Lqms)
    <2>1. reports = <<>> BY DEF AdaptInit
    <2>2. <<>> \in Seq(Lqms) OBVIOUS
    <2> QED BY <2>1, <2>2
  <1>3. target = MaxRateKbps /\ unrepaired = FALSE BY DEF AdaptInit
  <1>4. target \in MinRate .. MaxRateKbps BY <1>3
  <1>5. unrepaired \in BOOLEAN BY ONLY <1>3, Zenon
  <1> QED BY <1>1, <1>2, <1>4, <1>5 DEF AdaptType

\* The counters of a period only grow until the report.
LEMMA CountsType ==
  ASSUME AdaptType, NEW fields, Counts(fields) PROVE stats' \in Stats
  BY SMTT(30) DEF AdaptType, Counts, Stats

\* One step, with what it does to the target.
LEMMA AdaptStep ==
  ASSUME AdaptType, [AdaptNext]_adaptVars
  PROVE  /\ AdaptType'
         /\ target' \in MinRate .. MaxRateKbps
         /\ target' > target => ~unrepaired'
  <1>0. target \in MinRate .. MaxRateKbps /\ reports \in Seq(Lqms) BY DEF AdaptType
  <1>1. CASE \/ SourceArrives \/ SourceLost \/ HoleFilled \/ FecTooLate \/ HoleGivenUp
    <2>1. UNCHANGED <<reports, target, unrepaired>>
      BY <1>1 DEF SourceArrives, SourceLost, HoleFilled, FecTooLate, HoleGivenUp
    <2>2. stats' \in Stats
      BY <1>1, CountsType DEF SourceArrives, SourceLost, HoleFilled, FecTooLate, HoleGivenUp
    <2>3. holes' \in Nat
      BY <1>1 DEF SourceArrives, SourceLost, HoleFilled, FecTooLate, HoleGivenUp, AdaptType
    <2> QED BY <1>0, <2>1, <2>2, <2>3 DEF AdaptType
  <1>2. CASE Report
    <2>1. stats' = NewPeriod /\ reports' = Append(reports, Lqm)
          /\ UNCHANGED <<holes, target, unrepaired>>
      BY <1>2 DEF Report
    <2>2. reports' \in Seq(Lqms) BY <1>0, <2>1, LqmType, AppendProperties
    <2> QED BY <1>0, <2>1, <2>2 DEF AdaptType, NewPeriod, Stats
  <1>3. CASE ReportSpoilt
    <2>1. UNCHANGED <<stats, holes, target, unrepaired>>
          /\ \E i \in DOMAIN reports : reports' = RemoveAt(reports, i)
      BY <1>3 DEF ReportSpoilt
    <2>2. reports' \in Seq(Lqms) BY <1>0, <2>1, RemovedType
    <2> QED BY <1>0, <2>1, <2>2 DEF AdaptType
  <1>4. ASSUME NEW i \in 1 .. MaxReports, Observe(i)
        PROVE  AdaptType' /\ target' \in MinRate .. MaxRateKbps /\ (target' > target => ~unrepaired')
    <2>1. /\ i \in DOMAIN reports /\ target' = ObserveLqm(reports[i])
          /\ unrepaired' = (reports[i].unrecovered > 0)
          /\ reports' = RemoveAt(reports, i) \/ reports' = reports
          /\ UNCHANGED <<stats, holes>>
      BY <1>4 DEF Observe
    <2>2. reports[i] \in Lqms BY <1>0, <2>1
    <2>3. /\ target' \in MinRate .. MaxRateKbps
          /\ reports[i].unrecovered > 0 => target' <= target
      BY <2>1, <2>2, ObserveBound
    <2>4. reports' \in Seq(Lqms) BY <1>0, <2>1, RemovedType
    <2>5. target' > target => ~(reports[i].unrecovered > 0)
      BY <1>0, <2>3
    <2>6. unrepaired' \in BOOLEAN BY <2>1
    <2>7. stats' \in Stats /\ holes' \in Nat BY <2>1 DEF AdaptType
    <2>8. target' > target => ~unrepaired' BY ONLY <2>1, <2>5, ZenonT(30)
    <2>9. AdaptType' BY ONLY <2>3, <2>4, <2>6, <2>7 DEF AdaptType
    <2> QED BY <2>3, <2>8, <2>9
  <1>5. CASE UNCHANGED adaptVars BY <1>0, <1>5 DEF adaptVars, AdaptType
  <1> QED BY <1>1, <1>2, <1>3, <1>4, <1>5 DEF AdaptNext

\* observe_lqm asks for more only after a period in which nothing went
\* unrecovered, and keeps the target between its bounds, whatever is lost,
\* repeated or re-ordered and however FEC recoveries are accounted.
THEOREM ProbesOnlyRepaired == AdaptSpec => ProbesWhenRepaired
  <1>1. AdaptInit => AdaptType BY AdaptTypeInit
  <1>2. AdaptType /\ [AdaptNext]_adaptVars => AdaptType' BY AdaptStep
  <1>3. AdaptType /\ [AdaptNext]_adaptVars =>
          [ /\ target' \in MinRate .. MaxRateKbps
            /\ target' > target => ~unrepaired' ]_adaptVars
    BY AdaptStep
  <1> QED BY <1>1, <1>2, <1>3, PTL DEF AdaptSpec, ProbesWhenRepaired
===============================================================================
