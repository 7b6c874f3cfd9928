--------------------------------- MODULE Wire ---------------------------------
(***************************************************************************)
(* How a packet keeps its identity over a wire that carries only the low   *)
(* half of its sequence and a wrapping timestamp (codec.rs), and how the   *)
(* receiver names the packets it misses: range or bitmask records, several *)
(* to a packet, behind an EXTSEQ packet with the upper half in the Main    *)
(* profile (rtcp.rs, codec_main.rs), or one record of whole numbers to a   *)
(* datagram in the Advanced profile (adv.rs), whose media carries the      *)
(* whole sequence.  A packet is its index k in the sender's stream; the    *)
(* flow around it is that of FlowReceiver, reduced to which sequences are  *)
(* missing.                                                                *)
(***************************************************************************)
EXTENDS Integers, SequencesExt

CONSTANTS
  WireMod,        \* 2^16: values of the sequence on the wire
  Uppers,         \* values of the upper half
  TickMod,        \* 2^32: values of the RTP timestamp
  MaskBits,       \* 16: bits of a Generic NACK mask
  MaxRecords,     \* MAX_NACK_RECORDS_PER_PACKET
  AdvBits,        \* 32: bits of an Advanced NACK mask
  AdvRun,         \* MAX_NACK_DECODE_RANGE
  MaxStream,      \* packets sent while the receiver listens
  MaxFlight,      \* packets under way at a time
  WireCases       \* the cases of a run

\* profile: how sequences are carried; bitmask: the NACK encoding; start: the random
\* first sequence (16 bits); ts: the first timestamp; joined: packets sent
\* before the receiver listens; restart: the sender starts anew once, at this
\* sequence under another SSRC, or never (-1).
WireCase == [profile : {"simple", "main", "advanced"}, bitmask : BOOLEAN, start : 0 .. WireMod - 1,
             ts : 0 .. TickMod - 1, joined : Nat, restart : -1 .. WireMod - 1]

ASSUME WireAssumption ==
  /\ WireMod \in Nat /\ WireMod % 2 = 0 /\ WireMod > 0
  /\ Uppers \in Nat \ {0}
  /\ TickMod \in Nat /\ TickMod % 2 = 0 /\ WireMod <= TickMod
  /\ MaskBits \in 1 .. WireMod - 1 /\ MaxRecords \in Nat \ {0}
  /\ AdvBits \in Nat \ {0} /\ AdvRun \in Nat \ {0}
  /\ MaxStream \in Nat /\ MaxFlight \in Nat
  /\ WireCases \subseteq WireCase

VARIABLES
  wcase,
  stream,    \* [start, ts, sent]: the sender's numbering and its position
  under,     \* media under way: [k, retransmit]
  decoder,   \* MediaDecoder: [started, ref_seq, ref_ticks]
  latest,    \* the packet decoded last
  known,     \* what the receiving flow was fed: [k, seq, time]
  asking,    \* NACK compounds under way: [asked, packets]
  heard,     \* history: the last NACK the sender decoded
  resent     \* whether the sender has restarted

wireVars == <<wcase, stream, under, decoder, latest, known, asking, heard, resent>>

SeqRange == WireMod * Uppers
Low(s) == s % WireMod
High(s) == s \div WireMod

\* The sender's 32-bit sequence and the timestamp of packet k.
SentSeq(k) == (stream.start + k) % SeqRange
SentTs(k) == (stream.ts + k) % TickMod
HighestSent == SentSeq(stream.sent - 1)

NothingHeard == [asked |-> {}, decoded |-> {}]

WireStart(c) ==
  /\ wcase = c
  /\ stream = [start |-> c.start, ts |-> c.ts, sent |-> c.joined]
  /\ under = {} /\ known = {} /\ asking = {} /\ latest = 0
  /\ decoder = [started |-> FALSE, ref_seq |-> 0, ref_ticks |-> 0]
  /\ heard = NothingHeard /\ resent = FALSE

WireInit == \E c \in WireCases : WireStart(c)

----------------------------------------------------------------------------
(* MediaDecoder *)

\* The value with the same low part as w that lies nearest to ref.
Nearest(w, ref, mod) ==
  LET cand == (ref - (ref % mod)) + w
  IN IF cand - ref > mod \div 2 THEN cand - mod
     ELSE IF cand - ref < -(mod \div 2) THEN cand + mod
     ELSE cand

\* Slip: the decoder never steps back over a wrap.
WidenSeqForward(wire16, ref) ==
  LET cand == (ref - (ref % WireMod)) + wire16
  IN (IF cand - ref < -(WireMod \div 2) THEN cand + WireMod ELSE cand) % SeqRange

\* widen_seq: wrapping arithmetic on 32 bits; widen_ticks is not bounded.
WidenSeq(wire16, ref) == Nearest(wire16, ref, WireMod) % SeqRange
WidenTicks(wire32, ref) == Nearest(wire32, ref, TickMod)

\* MediaDecoder::decode; the first packet is the anchor.
Widened(wire16, wire32) ==
  IF decoder.started
  THEN [started |-> TRUE, ref_seq |-> WidenSeq(wire16, decoder.ref_seq),
        ref_ticks |-> WidenTicks(wire32, decoder.ref_ticks)]
  ELSE [started |-> TRUE, ref_seq |-> wire16, ref_ticks |-> wire32]

\* rtp::Header, as both ends write and read it.
RtpHeader(k) == [seq |-> Low(SentSeq(k)), ts |-> SentTs(k)]

\* decode_media_adv takes the sequence as it is; its times are those of Advanced.
Decoded(k) ==
  IF wcase.profile = "advanced" THEN [started |-> TRUE, ref_seq |-> SentSeq(k), ref_ticks |-> 0]
  ELSE Widened(RtpHeader(k).seq, RtpHeader(k).ts)

\* Ticks before the session's zero are clamped.
SourceTime(ticks) == IF ticks < 0 THEN 0 ELSE ticks

----------------------------------------------------------------------------
(* Packing a list of missing sequences *)

\* encode_range_nack: a run of consecutive numbers is one record.
JoinRange(recs, s) ==
  IF recs # <<>> /\ s = (Last(recs).first + Last(recs).extra + 1) % WireMod
     /\ Last(recs).extra < WireMod - 1
  THEN [recs EXCEPT ![Len(recs)].extra = @ + 1]
  ELSE Append(recs, [first |-> s, extra |-> 0])

\* nack_pairs_from_seqs: a number and the MaskBits behind it.
JoinMask(recs, s) ==
  IF recs # <<>> /\ (s - Last(recs).pid) % WireMod \in 1 .. MaskBits
  THEN [recs EXCEPT ![Len(recs)].blp = @ \cup {(s - Last(recs).pid) % WireMod}]
  ELSE Append(recs, [pid |-> s, blp |-> {}])

\* The records of 16-bit numbers, at most MaxRecords to a packet.
Records(ms) == LET low == [i \in DOMAIN ms |-> Low(ms[i])]
               IN IF wcase.bitmask THEN FoldLeft(JoinMask, <<>>, low) ELSE FoldLeft(JoinRange, <<>>, low)

NackPackets(ms) ==
  LET recs == Records(ms)
      full == (Len(recs) + MaxRecords - 1) \div MaxRecords
  IN [i \in 1 .. full |->
        SubSeq(recs, (i - 1) * MaxRecords + 1,
               IF i = full THEN Len(recs) ELSE i * MaxRecords)]

\* Runs of equal upper half.
JoinGroup(groups, s) ==
  IF groups # <<>> /\ High(Last(Last(groups))) = High(s)
  THEN [groups EXCEPT ![Len(groups)] = Append(@, s)]
  ELSE Append(groups, <<s>>)

NoExt == -1
Qualified(packets, high) ==
  [i \in DOMAIN packets |-> [ext |-> IF i = 1 THEN high ELSE NoExt, records |-> packets[i]]]

\* encode_nack: an EXTSEQ packet before each group, unless no upper half is set.
EncodeNack(ms) ==
  IF wcase.profile = "simple" \/ \A i \in DOMAIN ms : High(ms[i]) = 0
  THEN Qualified(NackPackets(ms), NoExt)
  ELSE LET groups == FoldLeft(JoinGroup, <<>>, ms)
       IN FlattenSeq([i \in DOMAIN groups |->
                        Qualified(NackPackets(groups[i]), High(groups[i][1]))])

\* encode_range_nack of adv.rs: a run ends before it is longer than its reader
\* takes.
JoinRun(recs, s) ==
  IF recs # <<>> /\ s = (Last(recs).first + Last(recs).extra + 1) % SeqRange
     /\ Last(recs).extra + 1 < AdvRun
  THEN [recs EXCEPT ![Len(recs)].extra = @ + 1]
  ELSE Append(recs, [first |-> s, extra |-> 0])

\* encode_bitmask_nack of adv.rs.
JoinBits(recs, s) ==
  IF recs # <<>> /\ (s - Last(recs).pid) % SeqRange \in 1 .. AdvBits
  THEN [recs EXCEPT ![Len(recs)].blp = @ \cup {(s - Last(recs).pid) % SeqRange}]
  ELSE Append(recs, [pid |-> s, blp |-> {}])

\* One datagram per record (they are taken to share their fate).
EncodeWhole(ms) ==
  LET recs == IF wcase.bitmask THEN FoldLeft(JoinBits, <<>>, ms) ELSE FoldLeft(JoinRun, <<>>, ms)
  IN [i \in DOMAIN recs |-> [ext |-> NoExt, records |-> <<recs[i]>>]]

EncodeMissing(ms) == IF wcase.profile = "advanced" THEN EncodeWhole(ms) ELSE EncodeNack(ms)

----------------------------------------------------------------------------
(* Unpacking *)

\* missing_seqs of either encoding.
Numbers(r) ==
  IF wcase.bitmask THEN {r.pid} \cup {(r.pid + b) % WireMod : b \in r.blp}
  ELSE {(r.first + i) % WireMod : i \in 0 .. r.extra}

MissingSeqs(packet) == UNION {Numbers(packet.records[i]) : i \in DOMAIN packet.records}

\* missing of either Advanced record; a range is read up to its bound.
WholeNumbers(r) ==
  IF wcase.bitmask THEN {r.pid} \cup {(r.pid + b) % SeqRange : b \in r.blp}
  ELSE {(r.first + i) % SeqRange : i \in 0 .. (IF r.extra < AdvRun THEN r.extra ELSE AdvRun)}

\* Slip: the rule of the media decoder.
WidenAtMostNearest(wire16, ref) == Nearest(wire16, ref, WireMod) % SeqRange

\* widen_seq_at_most: the greatest one not beyond the send position.
WidenAtMost(wire16, ref) ==
  LET cand == (ref - Low(ref)) + wire16
  IN IF cand > ref THEN (cand - WireMod) % SeqRange ELSE cand

\* fold_nack; nack_to_wire when there is no EXTSEQ.
FoldNack(packet) ==
  IF packet.ext # NoExt
  THEN {packet.ext * WireMod + s : s \in MissingSeqs(packet)}
  ELSE {WidenAtMost(s, HighestSent) : s \in MissingSeqs(packet)}

----------------------------------------------------------------------------
(* Sender, network and receiver *)

Quiet == heard' = NothingHeard

WireSend ==
  /\ stream.sent < wcase.joined + MaxStream /\ Cardinality(under) < MaxFlight
  /\ under' = under \cup {[k |-> stream.sent, retransmit |-> FALSE]}
  /\ stream' = [stream EXCEPT !.sent = @ + 1]
  /\ Quiet /\ UNCHANGED <<wcase, decoder, latest, known, asking, resent>>

\* The packet the receiving flow started on.
First == CHOOSE p \in known : \A q \in known : p.k <= q.k

\* A packet is never late by half the 16-bit range or more: the recovery window
\* ends before that.
InReach(k) == known = {} \/ k - latest \in 1 - WireMod \div 2 .. WireMod \div 2 - 1

\* What the recovery window still holds.
Held(ps) == {p \in ps : \A q \in ps : q.k - p.k < WireMod \div 2}

WireDeliver ==
  \E m \in under :
    /\ InReach(m.k)
    /\ under' = under \ {m}
    /\ decoder' = Decoded(m.k)
    /\ latest' = m.k
    \* The flow starts on a first transmission and sheds what is older.
    /\ known' = IF (known = {} /\ m.retransmit) \/ (known # {} /\ m.k < First.k)
                THEN known
                ELSE Held(known \cup {[k |-> m.k, seq |-> decoder'.ref_seq,
                                       time |-> SourceTime(decoder'.ref_ticks)]})
    /\ Quiet /\ UNCHANGED <<wcase, stream, asking, resent>>

WireLose ==
  /\ \E m \in under : under' = under \ {m}
  /\ Quiet /\ UNCHANGED <<wcase, stream, decoder, latest, known, asking, resent>>

\* The receiver's own numbers for the packets between the first and the newest
\* one that it does not have, in ascending circular order.
Newest == CHOOSE p \in known : \A q \in known : p.k >= q.k
HoleIndices == {k \in First.k .. Newest.k : \A p \in known : p.k # k}
NumberOf(k) == (First.seq + k - First.k) % SeqRange

\* The indices ks in ascending order, each behind as many as are less.
Ascending(ks) ==
  [i \in 1 .. Cardinality(ks) |-> CHOOSE k \in ks : Cardinality({j \in ks : j < k}) = i - 1]

Compound(ks) ==
  LET order == Ascending(ks)
  IN [asked |-> ks, packets |-> EncodeMissing([i \in DOMAIN order |-> NumberOf(order[i])])]

NackHoles ==
  /\ known # {} /\ asking = {}
  /\ \E ks \in SUBSET HoleIndices \ {{}} : asking' = {Compound(ks)}
  /\ Quiet /\ UNCHANGED <<wcase, stream, under, decoder, latest, known, resent>>

\* A NACK is decoded while what it asks for is less than one wrap behind.
Young(c) == \A k \in c.asked : k > stream.sent - 1 - WireMod

Understands(packet) ==
  IF wcase.profile = "advanced"
  THEN UNION {WholeNumbers(packet.records[i]) : i \in DOMAIN packet.records}
  ELSE FoldNack(packet)

\* parse_compound: every packet of the datagram.
Parsed(c) == UNION {Understands(c.packets[i]) : i \in DOMAIN c.packets}

\* A retransmission is marked in its SSRC.
Again(k) == [k |-> k, retransmit |-> TRUE]

\* decode_feedback, decode_feedback_main, decode_control, and the history lookup behind them.
WireNack ==
  \E c \in asking :
    LET decoded == Parsed(c)
    IN /\ Young(c)
       /\ heard' = [asked |-> {SentSeq(k) : k \in c.asked}, decoded |-> decoded]
       /\ under' = under \cup {Again(k) :
                                 k \in {j \in 0 .. stream.sent - 1 :
                                          SentSeq(j) \in decoded /\ j > stream.sent - 1 - WireMod}}
       /\ asking' = {}
       /\ UNCHANGED <<wcase, stream, decoder, latest, known, resent>>

NackLost ==
  /\ asking # {} /\ asking' = {}
  /\ Quiet /\ UNCHANGED <<wcase, stream, under, decoder, latest, known, resent>>

\* A new sender in the place of the old: the receiving flow resets on its SSRC,
\* the decoder does not.
SenderRestarts ==
  /\ wcase.restart >= 0 /\ ~resent /\ known # {}
  /\ resent' = TRUE
  /\ stream' = [start |-> wcase.restart, ts |-> 0, sent |-> 0]
  /\ under' = {} /\ known' = {} /\ asking' = {}
  /\ Quiet /\ UNCHANGED <<wcase, decoder, latest>>

WireNext == \/ WireSend \/ WireDeliver \/ WireLose \/ NackHoles \/ WireNack
            \/ NackLost \/ SenderRestarts

WireSpec == WireInit /\ [][WireNext]_wireVars

----------------------------------------------------------------------------
(* Properties *)

\* "A retransmit and its original always reconstruct to the same (seq,
\* source_time) pair" (MediaDecoder), different packets never do, and the
\* reconstructed sequences keep the distances of the sent ones, in whatever
\* order packets arrive and wherever they wrap.
SameIdentity ==
  \A p, q \in known :
    /\ p.seq = (q.seq + p.k - q.k) % SeqRange
    /\ p.k = q.k => p.time = q.time
    /\ p.k < q.k => p.time <= q.time

\* The sender understands a NACK as the receiver meant it: the sequences are
\* "widened to 32 bits nearest-at-most nack_ref ... so they match the sender's
\* history keys" (decode_feedback), in either encoding, split over packets and
\* qualified by EXTSEQ or not.
NackExact == heard.decoded = heard.asked
=============================================================================
