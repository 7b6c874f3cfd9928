-------------------------- MODULE FlowSenderProofs --------------------------
(***************************************************************************)
(* Theorems about FlowSender, for every history size, gate, rate, NACK and *)
(* bound allowed by its assumptions.                                       *)
(***************************************************************************)
EXTENDS FlowSender, SequenceTheorems, TLAPS

USE HalfAssumption, ClockAssumption, SenderAssumption

-----------------------------------------------------------------------------
(* Arithmetic *)

\* Truncating division of naturals.
LEMMA DivNat == ASSUME NEW a \in Nat, NEW b \in Nat \ {0} PROVE a \div b \in Nat
  OBVIOUS

LEMMA ProductNat == ASSUME NEW a \in Nat, NEW b \in Nat PROVE a * b \in Nat
  OBVIOUS

\* One more retransmission costs one more gate.
LEMMA OneMore == ASSUME NEW r \in Nat, NEW g \in Nat PROVE (r + 1) * g = r * g + g
  OBVIOUS

\* A sequence number selects a slot of the history.
LEMMA IdxType == ASSUME NEW s \in SeqNum PROVE Idx(s) \in Index
  <1>1. s \in Nat /\ HistorySize \in Nat \ {0} BY DEF SeqNum
  <1> QED BY <1>1 DEF Idx, Index

LEMMA NextSeqType == ASSUME NEW s \in SeqNum PROVE WrappingAdd(s, 1) \in SeqNum
  BY DEF WrappingAdd, SeqNum, SeqSize

\* A timestamp becomes an NTP-64 value.
LEMMA FromTimestampType == ASSUME NEW t \in Nat PROVE FromTimestamp(t) \in Nat
  <1>1. t \div UsPerSecond \in Nat /\ t % UsPerSecond \in Nat BY DivNat
  <1>2. (t \div UsPerSecond) % SecMod \in Nat BY <1>1
  <1>3. ((t \div UsPerSecond) % SecMod) * FracMod \in Nat BY <1>2, ProductNat
  <1>4. (t % UsPerSecond) * FracMod \in Nat BY <1>1, ProductNat
  <1>5. UsPerSecond \div 2 \in Nat BY DivNat
  <1>6. ((t % UsPerSecond) * FracMod + UsPerSecond \div 2) \div UsPerSecond \in Nat
    BY <1>4, <1>5, DivNat
  <1> QED BY <1>3, <1>6 DEF FromTimestamp

\* The suppression gate never falls below its floor, whatever was measured.
LEMMA GateFloor ==
  ASSUME last_sample \in Nat
  PROVE  Gate \in Nat /\ MinGate \in Nat /\ MinGate <= Gate
  <1>1. EffectiveMin(RttMin) \in Nat BY DEF EffectiveMin, MaxOf
  <1>2. /\ LastClamped(last_sample, RttMin, RttMax) \in Nat
        /\ EffectiveMin(RttMin) <= LastClamped(last_sample, RttMin, RttMax)
    BY DEF LastClamped, ClampRange, EffectiveMin, MaxOf
  <1> QED BY <1>1, <1>2 DEF Gate, MinGate

\* What is added before a smaller part is taken away leaves a natural number.
LEMMA TakeEighth ==
  ASSUME NEW e \in Nat, NEW sample \in Nat, NEW part \in Nat, part <= e
  PROVE  e + sample - part \in Nat
  OBVIOUS

\* A window that is fed stays one: its rate does not go negative.
LEMMA WindowType ==
  ASSUME now \in Nat, NEW w \in Windows, NEW n \in Nat, NEW width \in Nat \ {0}
  PROVE  WindowFeed(w, n, width) \in Windows
  <1>1. CASE now - w.last >= width
    <2>1. now - w.last \in Nat \ {0} BY <1>1 DEF Windows
    <2>2. 8 * (w.bytes + n) \in Nat BY DEF Windows
    <2>3. 8 * (w.bytes + n) * UsPerSecond \in Nat BY <2>2, ProductNat
    <2>4. (8 * (w.bytes + n) * UsPerSecond) \div (now - w.last) \in Nat
      BY <2>1, <2>3, DivNat
    <2>5. w.eight \in Nat /\ w.eight \div 8 \in Nat /\ w.eight \div 8 <= w.eight
      BY DEF Windows
    <2>6. w.eight + (8 * (w.bytes + n) * UsPerSecond) \div (now - w.last)
            - w.eight \div 8 \in Nat
      BY <2>4, <2>5, TakeEighth
    <2> QED BY <1>1, <2>6 DEF WindowFeed, Windows
  <1>2. CASE ~(now - w.last >= width)
    <2>1. w.bytes + n \in Nat BY DEF Windows
    <2>2. [w EXCEPT !.bytes = @ + n] \in Windows BY <2>1 DEF Windows
    <2> QED BY <1>2, <2>2 DEF WindowFeed
  <1> QED BY <1>1, <1>2

LEMMA RateType ==
  ASSUME now \in Nat, NEW bw \in Rates, NEW n \in Nat
  PROVE  RateFeed(bw, n) \in Rates
  <1>1. ASSUME NEW w \in Windows
        PROVE  (IF bw.seeded THEN w ELSE [w EXCEPT !.last = now]) \in Windows
    BY DEF Windows
  <1>2. bw.slow \in Windows /\ bw.fast \in Windows BY DEF Rates
  <1>3. /\ WindowFeed(IF bw.seeded THEN bw.slow ELSE [bw.slow EXCEPT !.last = now],
                      n, SlowWindow) \in Windows
        /\ WindowFeed(IF bw.seeded THEN bw.fast ELSE [bw.fast EXCEPT !.last = now],
                      n, FastWindow) \in Windows
    BY <1>1, <1>2, WindowType
  <1> QED BY <1>3 DEF RateFeed, Rates

-----------------------------------------------------------------------------
(* The inductive invariant: the slot that holds a sequence agrees with the *)
(* history of that sequence, and its last retransmission pays for all of   *)
(* them.                                                                   *)

Agrees(sl) ==
  LET h == log[sl.seq] IN
  /\ sl.payload = h.payload /\ sl.source_time = h.source_time
  /\ sl.transmit_count = h.resends
  /\ h.first_sent <= now
  /\ ~sl.retried => h.resends = 0
  /\ sl.retried => /\ sl.last_retry <= now
                   /\ h.resends * MinGate <= (sl.last_retry - h.first_sent) + MinGate

SlotsAgree ==
  \A i \in Index : history[i].seq # Vacant =>
    Idx(history[i].seq) = i /\ Agrees(history[i])

\* A one-way sender retains nothing.
NothingKept == NoRecovery => \A i \in Index : history[i].seq = Vacant

IInv ==
  /\ TypeOK /\ SlotsAgree /\ NothingKept
  /\ RetransmitFaithful /\ RetriesBounded /\ StormBounded

-----------------------------------------------------------------------------
(* Type correctness, one lemma per kind of step. *)

LEMMA InitType == Init => TypeOK
  <1> SUFFICES ASSUME Init PROVE TypeOK OBVIOUS
  <1>1. NoSlot \in Slots BY DEF NoSlot, Slots, Vacant
  <1>2. history \in [Index -> Slots] BY <1>1 DEF Init
  <1>3. NewRate \in Rates BY DEF NewRate, NewWindow, Rates, Windows
  <1>4. data_bw \in Rates /\ retry_bw \in Rates BY <1>3 DEF Init
  <1>5. wire \in [seq: SeqNum, source_time: Nat, payload: Nat, ssrc: Nat,
                  retransmit: BOOLEAN]
    BY DEF Init, NoPacket, SeqNum, SeqSize
  <1>6. log \in [SeqNum -> [source_time: Nat, payload: Nat, first_sent: Nat, resends: Nat]]
    BY DEF Init, NotSent
  <1>7. todo \in Seq(SeqNum) BY DEF Init
  <1>8. now \in Nat /\ sent \in Nat /\ emitted \in Nat /\ last_sample \in Nat
        /\ sending \in BOOLEAN /\ next_seq \in SeqNum /\ echo_timer \in Nat \cup {Off}
    BY DEF Init
  <1> QED BY <1>2, <1>4, <1>5, <1>6, <1>7, <1>8 DEF TypeOK

LEMMA FirstSendType ==
  ASSUME TypeOK, NEW s \in SeqNum, NEW t \in Nat, NEW bytes \in Nat, FirstSend(s, t, bytes)
  PROVE  TypeOK'
  <1> USE DEF FirstSend
  <1>1. sent' \in Nat /\ now \in Nat BY DEF TypeOK
  <1>2. next_seq' \in SeqNum BY NextSeqType
  <1>3. history' \in [Index -> Slots] BY <1>1, IdxType DEF TypeOK, Slots
  <1>4. data_bw' \in Rates BY RateType DEF TypeOK
  <1>5. wire' \in [seq: SeqNum, source_time: Nat, payload: Nat, ssrc: Nat,
                   retransmit: BOOLEAN]
    BY <1>1 DEF Packet
  <1>6. log' \in [SeqNum -> [source_time: Nat, payload: Nat, first_sent: Nat, resends: Nat]]
    BY <1>1 DEF TypeOK
  <1>7. echo_timer' \in Nat \cup {Off} BY DEF TypeOK
  <1> QED BY <1>1, <1>2, <1>3, <1>4, <1>5, <1>6, <1>7 DEF TypeOK, serviceVars

\* What a retransmission finds: the head of the request list and its slot.
LEMMA Requested ==
  ASSUME TypeOK, ~Idle
  PROVE  /\ Head(todo) \in SeqNum /\ Idx(Head(todo)) \in Index
         /\ Slot(Head(todo)) \in Slots /\ Tail(todo) \in Seq(SeqNum)
  <1>1. todo \in Seq(SeqNum) /\ todo # <<>> BY DEF TypeOK, Idle
  <1>2. Head(todo) \in SeqNum /\ Tail(todo) \in Seq(SeqNum) BY <1>1
  <1>3. Idx(Head(todo)) \in Index BY <1>2, IdxType
  <1> QED BY <1>2, <1>3 DEF TypeOK, Slot

LEMMA ResendType == ASSUME TypeOK, Resend PROVE TypeOK'
  <1> DEFINE s == Head(todo)
  <1>1. /\ s \in SeqNum /\ Idx(s) \in Index /\ Slot(s) \in Slots
        /\ Tail(todo) \in Seq(SeqNum)
    BY Requested DEF Resend
  <1>2. /\ Slot(s).transmit_count + 1 \in Nat /\ Slot(s).bytes \in Nat
        /\ Slot(s).source_time \in Nat /\ Slot(s).payload \in Nat
    BY <1>1 DEF Slots
  <1>3. history' \in [Index -> Slots]
    <2>1. history' = [history EXCEPT ![Idx(s)] = [history[Idx(s)] EXCEPT
                        !.transmit_count = @ + 1, !.retried = TRUE, !.last_retry = now]]
      BY <1>1 DEF Resend, TypeOK, Slots
    <2>2. [history[Idx(s)] EXCEPT !.transmit_count = @ + 1, !.retried = TRUE,
                                  !.last_retry = now] \in Slots
      BY <1>1, <1>2 DEF TypeOK, Slots, Slot
    <2> QED BY <1>1, <2>1, <2>2 DEF TypeOK
  <1>4. wire' \in [seq: SeqNum, source_time: Nat, payload: Nat, ssrc: Nat,
                   retransmit: BOOLEAN]
    BY <1>1, <1>2 DEF Resend, Packet
  <1>5. log' \in [SeqNum -> [source_time: Nat, payload: Nat, first_sent: Nat, resends: Nat]]
    <2>0. log[s] \in [source_time: Nat, payload: Nat, first_sent: Nat, resends: Nat]
      BY <1>1 DEF TypeOK
    <2>1. log[s].resends + 1 \in Nat BY <2>0
    <2>2. [log[s] EXCEPT !.resends = @ + 1]
            \in [source_time: Nat, payload: Nat, first_sent: Nat, resends: Nat]
      BY <2>0, <2>1
    <2>3. log' = [log EXCEPT ![s] = [log[s] EXCEPT !.resends = @ + 1]]
      BY <1>1 DEF Resend, TypeOK
    <2> QED BY <1>1, <2>2, <2>3 DEF TypeOK
  <1>6. retry_bw' \in Rates BY <1>1, <1>2, RateType DEF Resend, TypeOK
  <1>7. emitted' \in Nat
    <2>1. emitted \in Nat BY DEF TypeOK
    <2>2. emitted' = emitted + 1 BY DEF Resend
    <2> QED BY <2>1, <2>2
  <1>8. todo' \in Seq(SeqNum)
    <2>1. todo' = <<>> \/ todo' = Tail(todo) BY DEF Resend
    <2>2. <<>> \in Seq(SeqNum) OBVIOUS
    <2> QED BY <1>1, <2>1, <2>2
  <1> QED BY <1>3, <1>4, <1>5, <1>6, <1>7, <1>8 DEF Resend, TypeOK, pushVars

\* Whatever overrides are given, a payload settles on a sequence and an instant.
LEMMA PushBlockSettles ==
  ASSUME TypeOK, NEW bytes \in Nat, NEW b \in Blocks, PushBlock(b, bytes)
  PROVE  \E s \in SeqNum, t \in Nat : FirstSend(s, t, bytes)
  <1> DEFINE s == IF b.seq = Absent THEN next_seq ELSE b.seq
             t == IF b.source_time = Absent THEN FromTimestamp(now) ELSE b.source_time
  <1>1. next_seq \in SeqNum /\ FromTimestamp(now) \in Nat
    BY FromTimestampType DEF TypeOK
  <1>2. b.seq \in SeqNum \cup {Absent} /\ b.source_time \in Nat \cup {Absent}
    OBVIOUS
  <1>3. s \in SeqNum /\ t \in Nat BY <1>1, <1>2
  <1>4. FirstSend(s, t, bytes) BY DEF PushBlock
  <1> HIDE DEF s, t
  <1> QED BY <1>3, <1>4

LEMMA NextType == ASSUME TypeOK, [Next]_vars PROVE TypeOK'
  <1>1. ASSUME NEW bytes \in Sizes, PushApp(bytes) PROVE TypeOK'
    BY <1>1, FirstSendType, FromTimestampType DEF PushApp, TypeOK
  <1>2. ASSUME NEW bytes \in Sizes, NEW b \in Blocks, PushBlock(b, bytes) PROVE TypeOK'
    BY <1>2, PushBlockSettles, FirstSendType
  <1>3. CASE Refuse
    BY <1>3, Requested DEF Refuse, TypeOK, rateVars, pushVars
  <1>4. CASE Resend BY <1>4, ResendType
  <1>5. ASSUME NEW missing \in Requests, Nack(missing) PROVE TypeOK'
    <2>1. data_bw' \in Rates /\ retry_bw' \in Rates
      BY <1>5, RateType DEF Nack, TypeOK
    <2> QED BY <1>5, <2>1 DEF Nack, TypeOK, pushVars
  <1>6. ASSUME NEW x \in RttSamples, EchoResponse(x) PROVE TypeOK'
    BY <1>6, SMTT(30) DEF EchoResponse, TypeOK, MaxOf, rateVars, serviceVars, pushVars
  <1>7. CASE EchoTimer
    <2>1. echo_timer' \in Nat \cup {Off} BY <1>7 DEF EchoTimer, TypeOK
    <2> QED BY <1>7, <2>1 DEF EchoTimer, TypeOK, rateVars, serviceVars
  <1>8. CASE Advance
    <2>1. now' \in Nat BY <1>8 DEF Advance, TypeOK
    <2> QED BY <1>8, <2>1 DEF Advance, TypeOK, rateVars, serviceVars, pushVars
  <1>9. CASE UNCHANGED vars
    BY <1>9 DEF vars, TypeOK, rateVars, serviceVars, pushVars
  <1>10. CASE Stopped
    BY <1>9, <1>10 DEF Stopped
  <1> QED BY <1>1, <1>2, <1>3, <1>4, <1>5, <1>6, <1>7, <1>8, <1>9, <1>10
          DEF Next, Push, Service

\* Type correctness of the sender: sequence numbers, counters, instants and the
\* premultiplied rates keep their types in every state.
THEOREM TypeCorrect == Spec => []TypeOK
  <1>1. Init => TypeOK BY InitType
  <1>2. TypeOK /\ [Next]_vars => TypeOK' BY NextType
  <1> QED BY <1>1, <1>2, PTL DEF Spec

-----------------------------------------------------------------------------
(* The inductive invariant *)

Sends == [source_time: Nat, payload: Nat, first_sent: Nat, resends: Nat]

LEMMA LogType == ASSUME TypeOK, NEW s \in SeqNum PROVE log[s] \in Sends
  BY DEF TypeOK, Sends

LEMMA SlotType == ASSUME TypeOK, NEW i \in Index PROVE history[i] \in Slots
  BY DEF TypeOK

LEMMA MinGateType == MinGate \in Nat
  BY DEF MinGate, EffectiveMin, MaxOf

\* The bound of StormBounded for one record of the history.
Paid(h, t) == h.resends * MinGate <= (t - h.first_sent) + MinGate

\* A packet that was not re-sent has paid.
LEMMA FreshPaid ==
  ASSUME NEW h \in Sends, h.resends = 0, NEW t \in Nat, h.first_sent <= t
  PROVE  Paid(h, t)
  <1>1. h.first_sent \in Nat /\ MinGate \in Nat BY MinGateType DEF Sends
  <1>2. h.resends * MinGate = 0 BY <1>1
  <1> QED BY <1>1, <1>2 DEF Paid

\* What is paid stays paid.
LEMMA PaidLater ==
  ASSUME NEW h \in Sends, NEW t \in Nat, NEW u \in Nat, t <= u, Paid(h, t)
  PROVE  Paid(h, u)
  <1>1. h.resends * MinGate \in Nat /\ h.first_sent \in Nat /\ MinGate \in Nat
    BY MinGateType, ProductNat DEF Sends
  <1> QED BY <1>1 DEF Paid

LEMMA InitInv == Init => IInv
  <1> SUFFICES ASSUME Init PROVE IInv OBVIOUS
  <1>1. TypeOK BY InitType
  <1>2. \A i \in Index : history[i].seq = Vacant BY DEF Init, NoSlot
  <1>3. SlotsAgree /\ NothingKept BY <1>2 DEF SlotsAgree, NothingKept
  <1>4. RetransmitFaithful BY DEF Init, NoPacket, RetransmitFaithful
  <1>5. ASSUME NEW s \in SeqNum
        PROVE  log[s].resends <= MaxRetries /\ Paid(log[s], now)
    <2>1. log[s] \in Sends /\ now \in Nat BY <1>1, LogType DEF TypeOK
    <2>2. log[s].resends = 0 /\ log[s].first_sent = 0 /\ now = 0
      BY DEF Init, NotSent
    <2> QED BY <2>1, <2>2, FreshPaid
  <1> QED BY <1>1, <1>3, <1>4, <1>5 DEF IInv, RetriesBounded, StormBounded, Paid

\* A step that leaves history, log and wire alone, while time may pass.
LEMMA QuietInv ==
  ASSUME IInv, TypeOK', UNCHANGED <<history, log, wire>>, now <= now'
  PROVE  IInv'
  <1>1. now \in Nat /\ now' \in Nat BY DEF IInv, TypeOK
  <1>2. SlotsAgree'
    <2> SUFFICES ASSUME NEW i \in Index, history[i].seq # Vacant
                 PROVE  Idx(history[i].seq) = i /\ Agrees(history[i])'
      BY DEF SlotsAgree
    <2>1. Idx(history[i].seq) = i /\ Agrees(history[i]) BY DEF IInv, SlotsAgree
    <2>2. history[i] \in Slots /\ history[i].seq \in SeqNum
      BY SlotType DEF IInv, Slots
    <2>3. log[history[i].seq] \in Sends BY <2>2, LogType DEF IInv
    <2>4. log[history[i].seq].first_sent \in Nat /\ history[i].last_retry \in Nat
      BY <2>2, <2>3 DEF Sends, Slots
    <2> QED BY <1>1, <2>1, <2>4 DEF Agrees
  <1>3. NothingKept' BY DEF IInv, NothingKept
  <1>4. RetransmitFaithful' BY DEF IInv, RetransmitFaithful
  <1>5. RetriesBounded' BY DEF IInv, RetriesBounded
  <1>6. StormBounded'
    <2> SUFFICES ASSUME NEW s \in SeqNum PROVE Paid(log[s], now')
      BY DEF StormBounded, Paid
    <2>1. log[s] \in Sends BY LogType DEF IInv
    <2>2. Paid(log[s], now) BY DEF IInv, StormBounded, Paid
    <2> QED BY <1>1, <2>1, <2>2, PaidLater
  <1> QED BY <1>2, <1>3, <1>4, <1>5, <1>6 DEF IInv

LEMMA FirstSendInv ==
  ASSUME IInv, NEW s \in SeqNum, NEW t \in Nat, NEW bytes \in Nat, FirstSend(s, t, bytes)
  PROVE  IInv'
  <1> DEFINE h == [source_time |-> t, payload |-> sent', first_sent |-> now, resends |-> 0]
             new == [seq |-> s, source_time |-> t, payload |-> sent', bytes |-> bytes,
                     transmit_count |-> 0, retried |-> FALSE, last_retry |-> 0]
  <1>1. TypeOK' BY FirstSendType DEF IInv
  <1>2. now \in Nat /\ now' = now /\ sent' \in Nat
    BY DEF FirstSend, IInv, TypeOK
  <1>3. log' = [log EXCEPT ![s] = h] /\ DOMAIN log = SeqNum
    BY DEF FirstSend, IInv, TypeOK
  <1>4. log'[s] = h /\ \A q \in SeqNum \ {s} : log'[q] = log[q] BY <1>3
  <1>5. DOMAIN history = Index /\ Idx(s) \in Index BY IdxType DEF IInv, TypeOK
  <1>6. SlotsAgree'
    <2>1. CASE NoRecovery
      <3>1. history' = history BY <2>1 DEF FirstSend
      <3> QED BY <2>1, <3>1 DEF IInv, NothingKept, SlotsAgree
    <2>2. CASE ~NoRecovery
      <3>1. history' = [history EXCEPT ![Idx(s)] = new] BY <2>2 DEF FirstSend
      <3> SUFFICES ASSUME NEW i \in Index, history'[i].seq # Vacant
                   PROVE  Idx(history'[i].seq) = i /\ Agrees(history[i])'
        BY DEF SlotsAgree
      <3>2. CASE i = Idx(s)
        <4>1. history'[i] = new BY <1>5, <3>1, <3>2
        <4> QED BY <1>2, <1>4, <3>2, <4>1 DEF Agrees
      <3>3. CASE i # Idx(s)
        <4>1. history'[i] = history[i] BY <1>5, <3>1, <3>3
        <4>2. Idx(history[i].seq) = i /\ Agrees(history[i])
          BY <4>1 DEF IInv, SlotsAgree
        <4>3. history[i].seq \in SeqNum \ {s}
          BY <3>3, <4>1, <4>2, SlotType DEF IInv, Slots
        <4> QED BY <1>2, <1>4, <4>1, <4>2, <4>3 DEF Agrees
      <3> QED BY <3>2, <3>3
    <2> QED BY <2>1, <2>2
  <1>7. NothingKept' BY DEF FirstSend, IInv, NothingKept
  <1>8. RetransmitFaithful' BY DEF FirstSend, Packet, RetransmitFaithful
  <1>9. ASSUME NEW q \in SeqNum
        PROVE  log'[q].resends <= MaxRetries /\ Paid(log'[q], now)
    <2>1. CASE q = s
      <3>1. h \in Sends /\ h.resends = 0 /\ h.first_sent <= now
        BY <1>2 DEF Sends
      <3>2. Paid(h, now) BY <1>2, <3>1, FreshPaid
      <3> QED BY <1>4, <2>1, <3>1, <3>2
    <2>2. CASE q # s
      BY <1>4, <2>2 DEF IInv, RetriesBounded, StormBounded, Paid
    <2> QED BY <2>1, <2>2
  <1> QED BY <1>1, <1>2, <1>6, <1>7, <1>8, <1>9
          DEF IInv, RetriesBounded, StormBounded, Paid

\* A retransmission is counted, and leaves the rest of the history as it was.
LEMMA CountedType ==
  ASSUME NEW h \in Sends
  PROVE  LET c == [h EXCEPT !.resends = @ + 1] IN
         /\ c.resends = h.resends + 1 /\ c.first_sent = h.first_sent
         /\ c.payload = h.payload /\ c.source_time = h.source_time
  BY DEF Sends

\* A retransmission that the gate let through is paid for by the wait before it.
LEMMA GatePays ==
  ASSUME NEW p \in Nat, NEW last \in Nat, NEW first \in Nat, NEW t \in Nat,
         NEW g \in Nat, NEW m \in Nat,
         m <= g, ~(t - last < g), p <= (last - first) + m
  PROVE  p <= t - first
  OBVIOUS

LEMMA AddBoth ==
  ASSUME NEW p \in Nat, NEW w \in Int, NEW g \in Nat, p <= w
  PROVE  p + g <= w + g
  OBVIOUS

LEMMA ResendInv == ASSUME IInv, Resend PROVE IInv'
  <1> DEFINE s == Head(todo)
             sl == history[Idx(s)]
             h == log[s]
             again == [sl EXCEPT !.transmit_count = @ + 1, !.retried = TRUE,
                                 !.last_retry = now]
             counted == [h EXCEPT !.resends = @ + 1]
  <1>1. TypeOK' BY ResendType DEF IInv
  <1>2. now \in Nat /\ now' = now BY DEF Resend, IInv, TypeOK
  <1>3. s \in SeqNum /\ Idx(s) \in Index /\ sl \in Slots
    BY Requested DEF Resend, IInv, Slot
  <1>4. h \in Sends BY <1>3, LogType DEF IInv
  <1>5. sl.seq = s /\ s # Vacant
    <2>1. Resendable(s) BY DEF Resend
    <2>2. Retained(s) BY <2>1 DEF Resendable
    <2>3. sl.seq = s BY <2>2 DEF Retained, Slot
    <2>4. s \in Nat /\ s >= 0 BY <1>3 DEF SeqNum
    <2>5. s # Vacant BY <2>4 DEF Vacant
    <2> QED BY <2>3, <2>5
  <1>6. Agrees(sl) BY <1>3, <1>5 DEF IInv, SlotsAgree
  <1>7. history' = [history EXCEPT ![Idx(s)] = again] /\ log' = [log EXCEPT ![s] = counted]
    BY <1>3 DEF Resend, IInv, TypeOK, Slots
  <1>8. /\ history'[Idx(s)] = again
        /\ \A i \in Index \ {Idx(s)} : history'[i] = history[i]
        /\ log'[s] = counted
        /\ \A q \in SeqNum \ {s} : log'[q] = log[q]
    BY <1>3, <1>7 DEF IInv, TypeOK
  <1>9. /\ counted.resends = h.resends + 1 /\ counted.first_sent = h.first_sent
        /\ counted.payload = h.payload /\ counted.source_time = h.source_time
    BY <1>4, CountedType
  <1>10. /\ sl.transmit_count = h.resends
         /\ h.first_sent <= now
         /\ ~sl.retried => h.resends = 0
         /\ sl.retried => h.resends * MinGate <= (sl.last_retry - h.first_sent) + MinGate
    BY <1>5, <1>6 DEF Agrees
  <1>11. counted.resends <= MaxRetries
    <2>1. ~(sl.transmit_count >= MaxRetries)
      BY DEF Resend, Resendable, Exhausted, Slot
    <2>2. h.resends \in Nat /\ MaxRetries \in Nat BY <1>4 DEF Sends
    <2> HIDE DEF counted, sl, h
    <2> QED BY <1>9, <1>10, <2>1, <2>2
  <1>12. Paid(counted, now)
    <2>1. /\ h.resends \in Nat /\ h.first_sent \in Nat /\ sl.last_retry \in Nat
          /\ sl.retried \in BOOLEAN
      BY <1>3, <1>4 DEF Sends, Slots
    <2>2. Gate \in Nat /\ MinGate <= Gate BY GateFloor DEF IInv, TypeOK
    <2>3. sl.retried => ~(now - sl.last_retry < Gate)
      BY DEF Resend, Resendable, Suppressed, Slot
    <2> HIDE DEF counted, sl, h
    <2>4. counted.resends * MinGate = h.resends * MinGate + MinGate
      BY <1>9, <2>1, OneMore, MinGateType
    <2>5. h.resends * MinGate \in Nat BY <2>1, ProductNat, MinGateType
    <2>6. h.resends * MinGate <= now - h.first_sent
      <3>1. CASE ~sl.retried
        <4>1. h.resends * MinGate = 0 BY <1>10, <3>1, MinGateType
        <4> QED BY <1>2, <1>10, <2>1, <4>1
      <3>2. CASE sl.retried
        <4>1. h.resends * MinGate <= (sl.last_retry - h.first_sent) + MinGate
          BY <1>10, <3>2
        <4>2. ~(now - sl.last_retry < Gate) BY <2>3, <3>2
        <4> QED BY <1>2, <2>1, <2>2, <2>5, <4>1, <4>2, MinGateType, GatePays
      <3> QED BY <3>1, <3>2
    <2>7. h.resends * MinGate + MinGate <= (now - h.first_sent) + MinGate
      <3>1. now - h.first_sent \in Int BY <1>2, <2>1
      <3> QED BY <2>5, <2>6, <3>1, MinGateType, AddBoth
    <2>8. counted.resends * MinGate <= (now - counted.first_sent) + MinGate
      BY <1>9, <2>4, <2>7
    <2> QED BY <2>8 DEF Paid
  <1>13. SlotsAgree'
    <2> SUFFICES ASSUME NEW i \in Index, history'[i].seq # Vacant
                 PROVE  Idx(history'[i].seq) = i /\ Agrees(history[i])'
      BY DEF SlotsAgree
    <2>1. CASE i = Idx(s)
      <3>1. history'[i] = again BY <1>8, <2>1
      <3>2. /\ again.seq = s /\ again.retried /\ again.last_retry = now
            /\ again.payload = sl.payload /\ again.source_time = sl.source_time
            /\ again.transmit_count = sl.transmit_count + 1
        BY <1>3, <1>5 DEF Slots
      <3>3. /\ counted.payload = h.payload /\ counted.source_time = h.source_time
            /\ counted.first_sent = h.first_sent /\ counted.resends = h.resends + 1
        BY <1>9
      <3>4. /\ sl.payload = h.payload /\ sl.source_time = h.source_time
            /\ sl.transmit_count = h.resends /\ h.first_sent <= now
        BY <1>5, <1>6 DEF Agrees
      <3>5. counted.resends * MinGate <= (now - counted.first_sent) + MinGate
        BY <1>12 DEF Paid
      <3>6. now <= now BY <1>2
      <3> HIDE DEF again, counted, sl, h
      <3> QED BY <1>2, <1>8, <2>1, <3>1, <3>2, <3>3, <3>4, <3>5, <3>6 DEF Agrees
    <2>2. CASE i # Idx(s)
      <3>1. history'[i] = history[i] BY <1>8, <2>2
      <3>2. Idx(history[i].seq) = i /\ Agrees(history[i])
        BY <3>1 DEF IInv, SlotsAgree
      <3>3. history[i].seq \in SeqNum \ {s}
        BY <2>2, <3>1, <3>2, SlotType DEF IInv, Slots
      <3>4. log'[history[i].seq] = log[history[i].seq] BY <1>8, <3>3
      <3> HIDE DEF again, counted, sl, h, s
      <3> QED BY <1>2, <3>1, <3>2, <3>4, SMTT(30) DEF Agrees
    <2> QED BY <2>1, <2>2
  <1>14. NothingKept' BY <1>3, <1>5 DEF IInv, NothingKept
  <1>15. RetransmitFaithful'
    <2>1. wire' = Packet(s, sl.source_time, sl.payload, TRUE) BY DEF Resend, Slot
    <2>2. wire'.seq = s /\ wire'.payload = sl.payload /\ wire'.source_time = sl.source_time
      BY <2>1 DEF Packet
    <2>3. log'[s].payload = h.payload /\ log'[s].source_time = h.source_time
      BY <1>4, <1>8 DEF Sends
    <2>4. sl.payload = h.payload /\ sl.source_time = h.source_time
      BY <1>5, <1>6 DEF Agrees
    <2> QED BY <2>2, <2>3, <2>4 DEF RetransmitFaithful
  <1>16. ASSUME NEW q \in SeqNum
         PROVE  log'[q].resends <= MaxRetries /\ Paid(log'[q], now)
    <2>1. CASE q = s BY <1>8, <1>11, <1>12, <2>1
    <2>2. CASE q # s
      BY <1>8, <2>2 DEF IInv, RetriesBounded, StormBounded, Paid
    <2> QED BY <2>1, <2>2
  <1> QED BY <1>1, <1>2, <1>13, <1>14, <1>15, <1>16
          DEF IInv, RetriesBounded, StormBounded, Paid

LEMMA NextInv == ASSUME IInv, [Next]_vars PROVE IInv'
  <1>1. TypeOK' /\ now \in Nat BY NextType DEF IInv, TypeOK
  <1>2. ASSUME NEW bytes \in Sizes, PushApp(bytes) PROVE IInv'
    <2>1. next_seq \in SeqNum /\ FromTimestamp(now) \in Nat /\ bytes \in Nat
      BY FromTimestampType DEF IInv, TypeOK
    <2> QED BY <1>2, <2>1, FirstSendInv DEF PushApp
  <1>3. ASSUME NEW bytes \in Sizes, NEW b \in Blocks, PushBlock(b, bytes) PROVE IInv'
    <2>1. TypeOK /\ bytes \in Nat BY DEF IInv
    <2> QED BY <1>3, <2>1, PushBlockSettles, FirstSendInv
  <1>4. CASE Resend BY <1>4, ResendInv
  <1>5. CASE UNCHANGED <<history, log, wire>> /\ now <= now'
    BY <1>1, <1>5, QuietInv
  <1>6. CASE Refuse BY <1>1, <1>5, <1>6 DEF Refuse
  <1>7. ASSUME NEW missing \in Requests, Nack(missing) PROVE IInv'
    BY <1>1, <1>5, <1>7 DEF Nack
  <1>8. ASSUME NEW x \in RttSamples, EchoResponse(x) PROVE IInv'
    BY <1>1, <1>5, <1>8 DEF EchoResponse
  <1>9. CASE EchoTimer BY <1>1, <1>5, <1>9 DEF EchoTimer
  <1>10. CASE Advance BY <1>1, <1>5, <1>10 DEF Advance
  <1>11. CASE UNCHANGED vars BY <1>1, <1>5, <1>11 DEF vars
  <1>12. CASE Stopped BY <1>11, <1>12 DEF Stopped
  <1> QED BY <1>2, <1>3, <1>4, <1>6, <1>7, <1>8, <1>9, <1>10, <1>11, <1>12
          DEF Next, Push, Service

\* The inductive invariant holds in every state: what the sender's slots, retry
\* counts and gates hold agrees with what was sent and when.
THEOREM InvHolds == Spec => []IInv
  <1>1. Init => IInv BY InitInv
  <1>2. IInv /\ [Next]_vars => IInv' BY NextInv
  <1> QED BY <1>1, <1>2, PTL DEF Spec

\* Every retransmission carries the payload and the timestamp of the last first
\* transmission of its sequence, although slots are reused without any check.
THEOREM RetransmitsFaithful == Spec => []RetransmitFaithful
  <1>1. IInv => RetransmitFaithful BY DEF IInv
  <1> QED BY <1>1, InvHolds, PTL

\* No transmission is re-sent more than max_retries times.
THEOREM RetriesHold == Spec => []RetriesBounded
  <1>1. IInv => RetriesBounded BY DEF IInv
  <1> QED BY <1>1, InvHolds, PTL

\* One retransmission per round-trip floor, whatever NACKs arrive: the gate of
\* service_nack is enough on its own, however the RTT samples move it.
THEOREM NoStorm == Spec => []StormBounded
  <1>1. IInv => StormBounded BY DEF IInv
  <1> QED BY <1>1, InvHolds, PTL

\* Both together: what any NACKs can make the sender do is bounded.
THEOREM ResendsHold == Spec => []ResendsBounded
  <1>1. IInv => ResendsBounded BY DEF IInv, ResendsBounded
  <1> QED BY <1>1, InvHolds, PTL
=============================================================================
