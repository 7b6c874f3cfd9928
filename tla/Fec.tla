--------------------------------- MODULE Fec ----------------------------------
(***************************************************************************)
(* SMPTE ST 2022-1/-5 forward error correction (rist-core fec, fec.rs): the *)
(* sender clips first transmissions into a matrix of row and column         *)
(* groups, the receiver rebuilds a packet that is the only one its group    *)
(* misses.  The bytes of a datagram are a set of atoms and XOR is symmetric *)
(* difference: media s is {s}, and a retransmission of it in band, whose    *)
(* header carries the R bit, is {s, RBit}.                                  *)
(***************************************************************************)
EXTENDS Integers, Sequences, FiniteSets
LOCAL INSTANCE SequencesExt

CONSTANTS
  FecHalf,                \* half of the sequence space
  BaseSpan,               \* base_span(): what the wire keeps of a base
  FecCols, FecRows, ColumnOnly,
  FecWindow, MaxFecs,     \* the decoder's window and max_fecs
  FecIsn,                 \* sequence of the first media packet
  InBand,                 \* the datagram is protected (Advanced), not the payload
  MaxMedia,               \* packets of a run
  MaxFaults               \* losses, delays, copies and packets not encoded

FecSeq == INSTANCE SeqArith WITH Half <- FecHalf

ASSUME FecAssumption ==
  /\ FecHalf \in Nat \ {0} /\ BaseSpan \in 1 .. 2 * FecHalf
  /\ FecCols \in Nat \ {0} /\ FecRows \in Nat \ {0} /\ FecIsn \in FecSeq!SeqNum
  /\ ColumnOnly \in BOOLEAN /\ InBand \in BOOLEAN

VARIABLES
  fecSent,   \* media packets numbered so far
  enc,       \* None, or [row, cols] of groups [base, collected, clip]
  air,       \* datagrams under way, in order
  late,      \* datagrams held up, to arrive at any time
  dec,       \* None, or the decoder [last, media, fecs]
  fecLog,    \* heard media, heard groups and recoveries
  gaps,      \* sequences never clipped
  faults

fecVars == <<fecSent, enc, air, late, dec, fecLog, gaps, faults>>

None == [none |-> TRUE]
RBit == -1  \* no sequence
Xor(a, b) == (a \ b) \cup (b \ a)
Plus(s, k) == FecSeq!Add(s, k)
SeqDiff(a, b) == FecSeq!Distance(a, b)
Matrix == FecCols * FecRows

----------------------------------------------------------------------------
(* The encoder *)

Fresh(base) == [base |-> base, collected |-> 0, clip |-> {}]
Clip(g, c) == [g EXCEPT !.collected = @ + 1, !.clip = Xor(@, c)]
NewEncoder(isn) ==
  [row |-> Fresh(isn), cols |-> [i \in 0 .. FecCols - 1 |-> Fresh(Plus(isn, i))]]

\* Slip: a group that missed a packet is carried into the next matrix.
StaleKept(g, s, period) == g
\* A group whose period s lies beyond is started over.
Stale(g, s, period) ==
  IF SeqDiff(g.base, s) >= period THEN Fresh(Plus(g.base, period)) ELSE g

\* The header keeps the base modulo BaseSpan.
Emit(g, stride, count) ==
  [kind |-> "fec", base |-> g.base % BaseSpan, stride |-> stride, count |-> count,
   clip |-> g.clip, full |-> g.base]

\* Encoder::push: the encoder and the packets s completes.
PushPacket(e, s, c) ==
  LET row == Clip(Stale(e.row, s, FecCols), c)
      pos == SeqDiff(row.base, s)
      inCol == FecRows > 1 /\ pos \in 0 .. FecCols - 1
      col == Clip(Stale(e.cols[pos], s, Matrix), c)
      colDone == inCol /\ col.collected >= FecRows
      rowDone == row.collected >= FecCols
  IN [enc |-> [row |-> IF rowDone THEN Fresh(Plus(row.base, FecCols)) ELSE row,
               cols |-> IF ~inCol THEN e.cols
                        ELSE [e.cols EXCEPT ![pos] =
                          IF colDone THEN Fresh(Plus(col.base, Matrix)) ELSE col]],
      out |-> (IF colDone THEN <<Emit(col, FecCols, FecRows)>> ELSE <<>>)
              \o (IF rowDone /\ ~ColumnOnly THEN <<Emit(row, 1, FecCols)>> ELSE <<>>)]

----------------------------------------------------------------------------
(* The decoder *)

Members(f) == {Plus(f.base, k * f.stride) : k \in 0 .. f.count - 1}
Missing(d, f) == Members(f) \ DOMAIN d.media
Floor(d) == Plus(d.last, -FecWindow)

GeometryOk(p) ==
  \/ p.stride = FecCols /\ p.count = FecRows
  \/ ~ColumnOnly /\ p.stride = 1 /\ p.count = FecCols

\* widen: the base nearest to the newest packet among three eras.
Widen(last, base) ==
  LET cand == ((last \div BaseSpan) * BaseSpan) + base
      Away(c) == LET x == SeqDiff(last, c) IN IF x < 0 THEN -x ELSE x
      near == IF Away(Plus(cand, BaseSpan)) < Away(cand) THEN Plus(cand, BaseSpan) ELSE cand
  IN IF Away(Plus(cand, -BaseSpan)) < Away(near) THEN Plus(cand, -BaseSpan) ELSE near

\* A group whose oldest member may have been evicted.
Aged(d, f) == SeqDiff(Floor(d), f.base) < 0
\* A group with a member the sender may not have sent.
AheadOf(d, f) == SeqDiff(d.last, Plus(f.base, (f.count - 1) * f.stride)) > 0

\* try_recover on group i; the decoder's out grows by what it rebuilds.
TryRecover(d, i) ==
  LET f == d.fecs[i]
      Done == [d EXCEPT !.fecs[i].done = TRUE]
      bytes == FoldSet(LAMBDA s, acc : Xor(acc, d.media[s]), f.clip,
                       Members(f) \cap DOMAIN d.media)
  IN CASE f.done -> d
       [] ~f.done /\ Aged(d, f) -> Done
       [] ~f.done /\ ~Aged(d, f) /\ AheadOf(d, f) -> d
       [] OTHER ->
            IF Missing(d, f) = {} THEN Done
            ELSE IF Cardinality(Missing(d, f)) > 1 THEN d
            ELSE LET s == CHOOSE x \in Missing(d, f) : TRUE
                 IN [Done EXCEPT !.media = [x \in DOMAIN @ \cup {s} |->
                                              IF x = s THEN bytes ELSE @[x]],
                                 !.out = @ \cup {[seq |-> s, bytes |-> bytes]}]

Pass(d) == FoldLeft(LAMBDA acc, i : TryRecover(acc, i), d,
                    [i \in 1 .. Len(d.fecs) |-> i])

\* recover_all: scan until a full pass recovers nothing.
RECURSIVE RecoverAll(_)
RecoverAll(d) == LET p == Pass(d) IN IF p.out = d.out THEN p ELSE RecoverAll(p)

Evict(d) ==
  LET kept == {s \in DOMAIN d.media : SeqDiff(Floor(d), s) >= 0}
  IN [d EXCEPT !.media = [s \in kept |-> d.media[s]],
               !.fecs = SelectSeq(@, LAMBDA f : SeqDiff(Floor(d), f.base) >= 0)]

\* Decoder::push_media; the decoder is built at the first packet.
PushMedia(d0, s, bytes) ==
  LET d == IF d0 = None THEN [last |-> s, media |-> [x \in {} |-> {}], fecs |-> <<>>, out |-> {}]
           ELSE IF SeqDiff(d0.last, s) > 0 THEN [d0 EXCEPT !.last = s] ELSE d0
      stored == [d EXCEPT !.media = [x \in DOMAIN @ \cup {s} |-> IF x = s THEN bytes ELSE @[x]]]
  IN IF s \in DOMAIN d.media THEN d ELSE Evict(RecoverAll(stored))

Known(d, f) == \E i \in DOMAIN d.fecs :
  d.fecs[i].base = f.base /\ d.fecs[i].stride = f.stride /\ d.fecs[i].count = f.count

\* Decoder::push_fec; nothing before the first media packet.
PushFec(d, p) ==
  LET f == [base |-> Widen(d.last, p.base), stride |-> p.stride, count |-> p.count,
            clip |-> p.clip, done |-> FALSE]
      kept == IF Len(d.fecs) < MaxFecs THEN d
              ELSE LET e == Evict(d)
                   IN IF Len(e.fecs) < MaxFecs THEN e ELSE [e EXCEPT !.fecs = Tail(@)]
  IN IF d = None \/ p.count <= 1 \/ ~GeometryOk(p) THEN d
     ELSE IF Known(d, f) THEN d
     ELSE Evict(RecoverAll([kept EXCEPT !.fecs = Append(@, f)]))

----------------------------------------------------------------------------
(* The sender, the paths and the receiver *)

FecInit ==
  /\ fecSent = 0 /\ enc = None /\ air = <<>> /\ late = {} /\ dec = None /\ gaps = {} /\ faults = 0
  /\ fecLog = [media |-> {}, groups |-> {}, out |-> {}]

Fault == faults < MaxFaults /\ faults' = faults + 1

Number(k) == Plus(FecIsn, k)
Media(s, bytes) == [kind |-> "media", seq |-> s, bytes |-> bytes]

\* drain: a first transmission is sent, then clipped, then its groups are sent.
\* The sender hears nothing of FEC, so it waits for the datagrams in order.
SendFirst ==
  /\ fecSent < MaxMedia /\ air = <<>>
  /\ \E s \in {Number(fecSent)} :
       \E p \in {PushPacket(IF enc = None THEN NewEncoder(s) ELSE enc, s, {s})} :
         /\ enc' = p.enc
         /\ air' = <<Media(s, {s})>> \o p.out
  /\ fecSent' = fecSent + 1
  /\ UNCHANGED <<late, dec, fecLog, gaps, faults>>

\* A packet that could not be encoded is neither sent nor clipped.
SkipOne ==
  /\ Fault /\ fecSent < MaxMedia /\ air = <<>>
  /\ gaps' = gaps \cup {Number(fecSent)}
  /\ fecSent' = fecSent + 1
  /\ UNCHANGED <<enc, air, late, dec, fecLog>>

\* ARQ resends a packet the decoder lacks; the encoder never sees the copy.
Resent ==
  /\ Fault
  /\ \E k \in 0 .. fecSent - 1 :
       /\ Number(k) \notin gaps \cup fecLog.media
       /\ late' = late \cup {Media(Number(k), IF InBand THEN {Number(k), RBit} ELSE {Number(k)})}
  /\ UNCHANGED <<fecSent, enc, air, dec, fecLog, gaps>>

Lost ==
  /\ Fault /\ air # <<>> /\ air' = Tail(air)
  /\ UNCHANGED <<fecSent, enc, late, dec, fecLog, gaps>>

Delayed ==
  /\ Fault /\ air # <<>> /\ air' = Tail(air)
  /\ late' = late \cup {Head(air)}
  /\ UNCHANGED <<fecSent, enc, dec, fecLog, gaps>>

\* What one reception added, and the decoder with its out taken.
Logged(log, before, after) ==
  [log EXCEPT !.out = @ \cup
     {[seq |-> r.seq, bytes |-> r.bytes,
       known |-> r.seq \in log.media \cup {o.seq : o \in log.out}] : r \in after.out}]
Taken(d) == IF d = None THEN None ELSE [d EXCEPT !.out = {}]

ReceiveMedia(d) ==
  LET after == PushMedia(dec, d.seq, d.bytes)
  IN /\ dec' = Taken(after)
     /\ fecLog' = Logged([fecLog EXCEPT !.media = @ \cup {d.seq}], dec, after)

ReceiveFec(d) ==
  IF dec = None THEN UNCHANGED <<dec, fecLog>>
  ELSE LET after == PushFec(dec, d)
       IN /\ dec' = Taken(after)
          /\ fecLog' = Logged([fecLog EXCEPT !.groups = @ \cup {d}], dec, after)

Receive(d) == IF d.kind = "media" THEN ReceiveMedia(d) ELSE ReceiveFec(d)

Received ==
  /\ air # <<>> /\ air' = Tail(air) /\ Receive(Head(air))
  /\ UNCHANGED <<fecSent, enc, late, gaps, faults>>

ReceivedLate ==
  /\ \E d \in late : late' = late \ {d} /\ Receive(d)
  /\ UNCHANGED <<fecSent, enc, air, gaps, faults>>

\* A copy over a second path arrives now, and the other later.
Duplicated ==
  /\ Fault /\ air # <<>> /\ Receive(Head(air)) /\ air' = Tail(air)
  /\ late' = late \cup {Head(air)}
  /\ UNCHANGED <<fecSent, enc, gaps>>

FecNext == \/ SendFirst \/ SkipOne \/ Resent \/ Lost \/ Delayed
           \/ Received \/ ReceivedLate \/ Duplicated
FecSpec == FecInit /\ [][FecNext]_fecVars

----------------------------------------------------------------------------
(* Properties *)

Whole(p) == {Plus(p.full, k * p.stride) : k \in 0 .. p.count - 1}

\* Encoder::push emits a group only when all its packets were clipped, and
\* clipped once, also after a packet that could not be encoded.
GroupsSound ==
  \A i \in DOMAIN air : air[i].kind = "fec" =>
    /\ air[i].clip = Whole(air[i])
    /\ Whole(air[i]) \cap gaps = {}

\* try_recover rebuilds the bytes the sender put on the wire (fec.rs: "a
\* recovery is the missing packet's exact bytes").
RecoversExact == \A r \in fecLog.out : r.bytes = {r.seq}

\* A packet is rebuilt at most once, never after it arrived, and never before
\* it was sent (the guards on base and newest in try_recover).
RecoversLostOnly ==
  \A r \in fecLog.out :
    /\ ~r.known
    /\ \E k \in 0 .. fecSent - 1 : r.seq = Number(k)
    /\ r.seq \notin gaps

\* What FEC hands to the flow can stand in for the packet: a group is the XOR
\* of exactly its packets, what is rebuilt from it has the bytes of the packet
\* that is missing, and a packet is rebuilt once and only when it is
\* (fec/encoder.rs: push; fec/decoder.rs: try_recover).
RecoverySound == GroupsSound /\ RecoversExact /\ RecoversLostOnly

\* recover_all leaves no group to peel: whatever the order in which media,
\* groups, copies and recoveries came, a group that arrived, that the window
\* still covers and that the newest packet has passed lacks none or several.
Peeled ==
  dec # None =>
    \A p \in fecLog.groups :
      LET newest == Plus(p.full, (p.count - 1) * p.stride)
      IN (SeqDiff(Floor(dec), p.full) >= 0 /\ SeqDiff(dec.last, newest) <= 0)
           => Cardinality(Whole(p) \ DOMAIN dec.media) # 1

\* FEC repairs what it can and nothing else.
FecRepairs == RecoverySound /\ Peeled
=============================================================================
