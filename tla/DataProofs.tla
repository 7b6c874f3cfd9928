------------------------------ MODULE DataProofs ------------------------------
(***************************************************************************)
(* Numbers on the wire: a packet keeps its sequence and its time although   *)
(* the wire carries only the low part of either, for every width of the two *)
(* parts, every stream and every order of arrival within reach; every       *)
(* control message nobody knows is answered once at the most; payloads cut  *)
(* into pieces come out whole; times extrapolated from the sequence stay in *)
(* their epoch; and a NACK is understood as it was meant, in either         *)
(* encoding and every profile.                                              *)
(***************************************************************************)
EXTENDS Wire, Advanced, Delivery, SequenceTheorems, FiniteSetTheorems, TLAPS

-----------------------------------------------------------------------------
(* Remainders                                                                *)

LEMMA ModRange ==
  ASSUME NEW a \in Int, NEW m \in Nat \ {0} PROVE a % m \in 0 .. m - 1
  OBVIOUS

LEMMA ModIs ==
  ASSUME NEW a \in Int, NEW m \in Nat \ {0}, NEW q \in Int, NEW r \in 0 .. m - 1, a = m * q + r
  PROVE  a % m = r
  OBVIOUS

LEMMA ModSplit ==
  ASSUME NEW a \in Int, NEW m \in Nat \ {0}
  PROVE  \E q \in Int : a = m * q + (a % m)
  <1> DEFINE q == a \div m
             r == a % m
  <1>1. q \in Int /\ r \in 0 .. m - 1 OBVIOUS
  <1>2. q = a \div m /\ r = a % m OBVIOUS
  <1> HIDE DEF q, r
  <1>3. a = m * q + r BY <1>1, <1>2
  <1> QED BY <1>1, <1>2, <1>3

LEMMA Distribute ==
  ASSUME NEW m \in Int, NEW q \in Int, NEW p \in Int PROVE m * (q + p) = m * q + m * p
  OBVIOUS

\* What is added to a number may as well be added to its remainder.
LEMMA ModAdd ==
  ASSUME NEW a \in Int, NEW b \in Int, NEW m \in Nat \ {0}
  PROVE  ((a % m) + b) % m = (a + b) % m
  <1> DEFINE x == a % m
             s == x + b
             t == a + b
             y == s % m
  <1>1. x \in 0 .. m - 1 BY ModRange
  <1>2. PICK q \in Int : a = m * q + x BY ModSplit
  <1> HIDE DEF x
  <1>3. s \in Int /\ s = x + b /\ t \in Int /\ t = a + b BY <1>1
  <1> HIDE DEF s, t
  <1>4. y \in 0 .. m - 1 BY <1>3, ModRange
  <1>5. PICK p \in Int : s = m * p + y BY <1>3, ModSplit
  <1> HIDE DEF y
  <1> DEFINE z == q + p
  <1>6. m * z = m * q + m * p BY Distribute
  <1>7. m * q \in Int /\ m * p \in Int /\ z \in Int OBVIOUS
  <1> HIDE DEF z
  <1>8. t = m * z + y BY <1>1, <1>2, <1>3, <1>4, <1>5, <1>6, <1>7
  <1>9. t % m = y BY <1>3, <1>4, <1>7, <1>8, ModIs
  <1> QED BY <1>9 DEF x, s, t, y

LEMMA ModSmall ==
  ASSUME NEW m \in Nat \ {0}, NEW a \in 0 .. m - 1 PROVE a % m = a
  OBVIOUS

\* The low part of a number is that of its remainder by a multiple.
LEMMA ModMod ==
  ASSUME NEW a \in Int, NEW m \in Nat \ {0}, NEW u \in Nat \ {0}
  PROVE  m * u \in Nat \ {0} /\ (a % (m * u)) % m = a % m
  <1> DEFINE n == m * u
             x == a % n
             y == x % m
  <1>1. n \in Nat \ {0} /\ n = m * u OBVIOUS
  <1> HIDE DEF n
  <1>2. x \in 0 .. n - 1 BY <1>1, ModRange
  <1>3. x \in Int BY <1>1, <1>2
  <1>4. PICK q \in Int : a = n * q + x BY <1>1, ModSplit
  <1> HIDE DEF x
  <1>5. y \in 0 .. m - 1 BY <1>3, ModRange
  <1>6. PICK p \in Int : x = m * p + y BY <1>3, ModSplit
  <1> HIDE DEF y
  <1> DEFINE v == u * q
             z == v + p
  <1>7. n * q = m * v BY <1>1
  <1>8. v \in Int /\ z \in Int OBVIOUS
  <1> HIDE DEF v
  <1>9. m * z = m * v + m * p BY <1>8, Distribute
  <1>10. m * v \in Int /\ m * p \in Int BY <1>8
  <1> HIDE DEF z
  <1>11. a = m * z + y BY <1>3, <1>4, <1>5, <1>6, <1>7, <1>9, <1>10
  <1>12. a % m = y BY <1>5, <1>8, <1>11, ModIs
  <1> QED BY <1>1, <1>12 DEF n, x, y

-----------------------------------------------------------------------------
(* Widening                                                                  *)

\* A number with the low part w, whatever the reference is.
LEMMA NearestLow ==
  ASSUME NEW m \in Nat \ {0}, NEW ref \in Int, NEW w \in 0 .. m - 1
  PROVE  Nearest(w, ref, m) \in Int /\ Nearest(w, ref, m) % m = w
  <1> DEFINE r == ref % m
             h == m \div 2
             n == Nearest(w, ref, m)
  <1>1. r \in 0 .. m - 1 /\ h \in Int BY ModRange
  <1>2. PICK q \in Int : ref = m * q + r BY ModSplit
  <1>3. n \in {(ref - r) + w - m, (ref - r) + w + m, (ref - r) + w}
    BY DEF Nearest
  <1> HIDE DEF r, h, n
  <1>4. m * q \in Int /\ ref - r = m * q BY <1>1, <1>2
  <1>5. m * (q - 1) = m * q - m /\ m * (q + 1) = m * q + m OBVIOUS
  <1>6. \E p \in Int : n = m * p + w
    <2>1. CASE n = (ref - r) + w - m
      <3> DEFINE p == q - 1
      <3>1. p \in Int /\ m * p = m * q - m BY <1>5
      <3> HIDE DEF p
      <3>2. n = m * p + w BY <1>4, <2>1, <3>1
      <3> QED BY <3>1, <3>2
    <2>2. CASE n = (ref - r) + w + m
      <3> DEFINE p == q + 1
      <3>1. p \in Int /\ m * p = m * q + m BY <1>5
      <3> HIDE DEF p
      <3>2. n = m * p + w BY <1>4, <2>2, <3>1
      <3> QED BY <3>1, <3>2
    <2>3. CASE n = (ref - r) + w
      <3>1. n = m * q + w BY <1>4, <2>3
      <3> QED BY <3>1
    <2> QED BY <1>3, <2>1, <2>2, <2>3
  <1>7. n \in Int BY <1>1, <1>3, <1>4
  <1>8. n % m = w BY <1>6, <1>7, ModIs
  <1> QED BY <1>7, <1>8 DEF n

\* Less than half the range away, it is the number that was meant.
LEMMA NearestIs ==
  ASSUME NEW m \in Nat \ {0}, m % 2 = 0, NEW ref \in Int,
         NEW d \in 1 - m \div 2 .. m \div 2 - 1
  PROVE  Nearest((ref + d) % m, ref, m) = ref + d
  <1> DEFINE r == ref % m
             h == m \div 2
             t == ref + d
             w == t % m
             c == (ref - r) + w
  <1>1. r \in 0 .. m - 1 BY ModRange
  <1>2. h \in Int /\ m = h + h OBVIOUS
  <1>3. PICK q \in Int : ref = m * q + r BY ModSplit
  <1>4. t \in Int /\ t = ref + d /\ d \in Int BY <1>2
  <1>5. Nearest(w, ref, m) = IF c - ref > h THEN c - m ELSE IF c - ref < -h THEN c + m ELSE c
    BY DEF Nearest
  <1>6. d \in 1 - h .. h - 1 OBVIOUS
  <1> HIDE DEF r, h, t
  <1> DEFINE a == m * q
  <1>7. a \in Int /\ ref = a + r BY <1>3
  <1>8. m * (q - 1) = a - m /\ m * (q + 1) = a + m OBVIOUS
  <1> HIDE DEF a
  <1>9. CASE r + d < 0
    <2> DEFINE p == q - 1
               v == r + d + m
    <2>1. p \in Int OBVIOUS
    <2>2. m * p = a - m BY <1>8
    <2>3. v = r + d + m OBVIOUS
    <2>4. v \in 0 .. m - 1 BY <1>1, <1>2, <1>4, <1>6, <1>9
    <2> HIDE DEF p, v
    <2>5. t = m * p + v BY <1>1, <1>4, <1>7, <2>1, <2>2, <2>3
    <2>6. t \in Int BY <1>4
    <2>7. w = v BY <2>1, <2>5, <2>4, <2>6, ModIs
    <2> HIDE DEF w
    <2> QED BY <1>1, <1>2, <1>4, <1>5, <1>6, <1>7, <2>3, <2>7 DEF w, t
  <1>10. CASE r + d >= m
    <2> DEFINE p == q + 1
               v == r + d - m
    <2>1. p \in Int OBVIOUS
    <2>2. m * p = a + m BY <1>8
    <2>3. v = r + d - m OBVIOUS
    <2>4. v \in 0 .. m - 1 BY <1>1, <1>2, <1>4, <1>6, <1>10
    <2> HIDE DEF p, v
    <2>5. t = m * p + v BY <1>1, <1>4, <1>7, <2>1, <2>2, <2>3
    <2>6. t \in Int BY <1>4
    <2>7. w = v BY <2>1, <2>5, <2>4, <2>6, ModIs
    <2> HIDE DEF w
    <2> QED BY <1>1, <1>2, <1>4, <1>5, <1>6, <1>7, <2>3, <2>7 DEF w, t
  <1>11. CASE r + d \in 0 .. m - 1
    <2> DEFINE v == r + d
    <2>1. v \in 0 .. m - 1 /\ v = r + d BY <1>11
    <2> HIDE DEF v
    <2>2. t = m * q + v BY <1>1, <1>4, <1>7, <2>1 DEF a
    <2>3. w = v BY <1>4, <2>1, <2>2, ModIs, ZenonT(30)
    <2> HIDE DEF w
    <2> QED BY <1>1, <1>2, <1>4, <1>5, <1>6, <1>7, <2>1, <2>3 DEF w, t
  <1> QED BY <1>1, <1>2, <1>4, <1>9, <1>10, <1>11

-----------------------------------------------------------------------------
(* The media decoder                                                         *)

Advd == wcase.profile = "advanced"

WireTyped ==
  /\ wcase \in WireCases
  /\ DOMAIN stream = {"start", "ts", "sent"}
  /\ stream.start \in Int /\ stream.ts \in Int /\ stream.sent \in Int
  /\ latest \in Int /\ \A m \in under : m.k \in Int
  /\ decoder.ref_seq \in 0 .. SeqRange - 1 /\ decoder.ref_ticks \in Int

\* The decoder's reference is the packet decoded last, as far as the wire tells.
AnchoredAt(d, k) ==
  /\ d.started
  /\ IF Advd THEN d.ref_seq = SentSeq(k) /\ d.ref_ticks = 0
     ELSE Low(d.ref_seq) = Low(SentSeq(k)) /\ d.ref_ticks % TickMod = SentTs(k)

\* A packet's numbers lie as far from the reference as its index from the
\* reference's.
AlignedTo(d, k, p) ==
  /\ p.k \in Int /\ p.seq = (d.ref_seq + (p.k - k)) % SeqRange
  /\ p.time = IF Advd THEN 0 ELSE SourceTime(d.ref_ticks + (p.k - k))

Anchored == known # {} => AnchoredAt(decoder, latest)
Aligned  == \A p \in known : AlignedTo(decoder, latest, p)

WInv == WireTyped /\ Anchored /\ Aligned

LEMMA Ranges ==
  /\ WireMod \in Nat \ {0} /\ SeqRange \in Nat \ {0} /\ TickMod \in Nat \ {0}
  /\ WireMod % 2 = 0 /\ TickMod % 2 = 0
  /\ WireMod \div 2 \in Int /\ TickMod \div 2 \in Int /\ WireMod \div 2 <= TickMod \div 2
  <1>1. /\ WireMod \in Nat \ {0} /\ Uppers \in Nat \ {0} /\ TickMod \in Nat
        /\ WireMod % 2 = 0 /\ TickMod % 2 = 0 /\ WireMod <= TickMod
    BY WireAssumption
  <1>2. SeqRange \in Nat \ {0} BY <1>1 DEF SeqRange
  <1> QED BY <1>1, <1>2

LEMMA LowOfWhole ==
  ASSUME NEW a \in Int PROVE Low(a % SeqRange) = Low(a) /\ a % SeqRange \in 0 .. SeqRange - 1
  <1>1. WireMod \in Nat \ {0} /\ Uppers \in Nat \ {0} BY WireAssumption
  <1> QED BY <1>1, Ranges, ModMod, ModRange DEF Low, SeqRange

\* What decoding a packet makes of the reference, whatever it was.
LEMMA DecodedAnchors ==
  ASSUME WireTyped, NEW k \in Int
  PROVE  /\ AnchoredAt(Decoded(k), k)
         /\ Decoded(k).ref_seq \in 0 .. SeqRange - 1 /\ Decoded(k).ref_ticks \in Int
  <1> DEFINE a == stream.start + k
             b == stream.ts + k
             w == Low(SentSeq(k))
             s == SentTs(k)
             n == Nearest(w, decoder.ref_seq, WireMod)
  <1>1. a \in Int /\ b \in Int /\ SentSeq(k) = a % SeqRange /\ s = b % TickMod
    BY DEF WireTyped, SentSeq, SentTs
  <1> HIDE DEF a, b, s
  <1>2. SentSeq(k) \in 0 .. SeqRange - 1 BY <1>1, LowOfWhole
  <1>3. SentSeq(k) \in Int BY <1>2, Ranges
  <1>4. w \in 0 .. WireMod - 1 BY <1>3, Ranges, ModRange DEF Low
  <1>5. s \in 0 .. TickMod - 1 BY <1>1, Ranges, ModRange
  <1>6. CASE Advd
    <2>1. Decoded(k) = [started |-> TRUE, ref_seq |-> SentSeq(k), ref_ticks |-> 0]
      BY <1>6 DEF Decoded, Advd
    <2> QED BY <1>2, <1>6, <2>1 DEF AnchoredAt
  <1>7. CASE ~Advd
    <2>1. Decoded(k) = Widened(w, s) BY <1>7 DEF Decoded, Advd, RtpHeader, s
    <2> HIDE DEF w
    <2>2. CASE decoder.started
      <3>1. /\ Decoded(k).started = TRUE
            /\ Decoded(k).ref_seq = n % SeqRange
            /\ Decoded(k).ref_ticks = Nearest(s, decoder.ref_ticks, TickMod)
        BY <2>1, <2>2 DEF Widened, WidenSeq, WidenTicks
      <3>2. decoder.ref_seq \in Int /\ decoder.ref_ticks \in Int BY Ranges DEF WireTyped
      <3>3. n \in Int /\ n % WireMod = w BY <1>4, <3>2, Ranges, NearestLow
      <3>4. /\ Nearest(s, decoder.ref_ticks, TickMod) \in Int
            /\ Nearest(s, decoder.ref_ticks, TickMod) % TickMod = s
        BY <1>5, <3>2, Ranges, NearestLow
      <3> HIDE DEF n
      <3>5. Low(n % SeqRange) = w /\ n % SeqRange \in 0 .. SeqRange - 1
        BY <3>3, LowOfWhole DEF Low
      <3> QED BY <1>7, <3>1, <3>4, <3>5 DEF AnchoredAt, w, s
    <2>3. CASE ~decoder.started
      <3>1. Decoded(k).started = TRUE /\ Decoded(k).ref_seq = w /\ Decoded(k).ref_ticks = s
        BY <2>1, <2>3 DEF Widened
      <3>2. w % WireMod = w /\ s % TickMod = s BY <1>4, <1>5, Ranges, ModSmall
      <3>3. w \in 0 .. SeqRange - 1
        <4>1. w = Low(a) BY <1>1, LowOfWhole DEF w
        <4>2. WireMod <= SeqRange BY WireAssumption DEF SeqRange
        <4> QED BY <1>4, <4>2, Ranges
      <3>4. s \in Int BY <1>5, Ranges
      <3> QED BY <1>7, <3>1, <3>2, <3>3, <3>4 DEF AnchoredAt, w, s, Low
    <2> QED BY <2>2, <2>3
  <1> QED BY <1>6, <1>7

\* Within reach of the reference it moves by the distance of the two packets.
LEMMA DecodedMoves ==
  ASSUME WireTyped, AnchoredAt(decoder, latest), NEW k \in Int,
         k - latest \in 1 - WireMod \div 2 .. WireMod \div 2 - 1
  PROVE  /\ Decoded(k).ref_seq = (decoder.ref_seq + (k - latest)) % SeqRange
         /\ ~Advd => Decoded(k).ref_ticks = decoder.ref_ticks + (k - latest)
  <1> DEFINE d == k - latest
             r == decoder.ref_seq
             t == decoder.ref_ticks
             a == stream.start + latest
             b == stream.ts + latest
  <1>1. /\ d \in Int /\ d \in 1 - WireMod \div 2 .. WireMod \div 2 - 1
        /\ d \in 1 - TickMod \div 2 .. TickMod \div 2 - 1
    BY Ranges DEF WireTyped
  <1>2. r \in Int /\ t \in Int /\ a \in Int /\ b \in Int BY Ranges DEF WireTyped
  <1>3. SentSeq(latest) = a % SeqRange /\ SentTs(latest) = b % TickMod BY DEF SentSeq, SentTs
  <1>4. SentSeq(k) = (a + d) % SeqRange /\ SentTs(k) = (b + d) % TickMod
    <2>1. stream.start + k = a + d /\ stream.ts + k = b + d BY DEF WireTyped
    <2> QED BY <2>1 DEF SentSeq, SentTs
  <1>5. r \in 0 .. SeqRange - 1 BY DEF WireTyped
  <1> HIDE DEF a, b, d
  <1>6. CASE Advd
    <2>1. r = a % SeqRange BY <1>3, <1>6 DEF AnchoredAt
    <2>2. Decoded(k).ref_seq = SentSeq(k) BY <1>6 DEF Decoded, Advd
    <2>3. ((a % SeqRange) + d) % SeqRange = (a + d) % SeqRange BY <1>1, <1>2, Ranges, ModAdd, Zenon
    <2> QED BY <1>4, <1>6, <2>1, <2>2, <2>3 DEF d
  <1>7. CASE ~Advd
    <2>1. decoder.started /\ Low(r) = Low(SentSeq(latest)) /\ t % TickMod = b % TickMod
      BY <1>3, <1>7 DEF AnchoredAt
    <2>2. a + d \in Int /\ r + d \in Int BY <1>1, <1>2
    <2>3. r % WireMod = a % WireMod BY <1>2, <1>3, <2>1, LowOfWhole DEF Low
    <2>4. (r + d) % WireMod = (a + d) % WireMod
      <3>1. ((a % WireMod) + d) % WireMod = (a + d) % WireMod BY <1>1, <1>2, Ranges, ModAdd, Zenon
      <3>2. ((r % WireMod) + d) % WireMod = (r + d) % WireMod BY <1>1, <1>2, Ranges, ModAdd, Zenon
      <3> QED BY <2>3, <3>1, <3>2
    <2>5. Low(SentSeq(k)) = (r + d) % WireMod BY <1>4, <2>2, <2>4, LowOfWhole DEF Low
    <2>6. SentTs(k) = (t + d) % TickMod
      <3>1. ((b % TickMod) + d) % TickMod = (b + d) % TickMod BY <1>1, <1>2, Ranges, ModAdd, Zenon
      <3>2. ((t % TickMod) + d) % TickMod = (t + d) % TickMod BY <1>1, <1>2, Ranges, ModAdd, Zenon
      <3> QED BY <1>4, <2>1, <3>1, <3>2
    <2>7. /\ Decoded(k).ref_seq = Nearest(Low(SentSeq(k)), r, WireMod) % SeqRange
          /\ Decoded(k).ref_ticks = Nearest(SentTs(k), t, TickMod)
      BY <1>7, <2>1 DEF Decoded, Advd, Widened, RtpHeader, WidenSeq, WidenTicks
    <2>8. Nearest((r + d) % WireMod, r, WireMod) = r + d
      BY <1>1, <1>2, Ranges, NearestIs
    <2>9. Nearest((t + d) % TickMod, t, TickMod) = t + d
      BY <1>1, <1>2, Ranges, NearestIs
    <2> QED BY <2>5, <2>6, <2>7, <2>8, <2>9 DEF d
  <1> QED BY <1>6, <1>7

\* A packet that is aligned to the reference stays so when the reference moves.
LEMMA StaysAligned ==
  ASSUME WireTyped, NEW p, AlignedTo(decoder, latest, p), NEW k \in Int, NEW e,
         e.ref_seq = (decoder.ref_seq + (k - latest)) % SeqRange,
         ~Advd => e.ref_ticks = decoder.ref_ticks + (k - latest)
  PROVE  AlignedTo(e, k, p)
  <1> DEFINE a == decoder.ref_seq + (k - latest)
             b == p.k - k
  <1>1. decoder.ref_seq \in Int /\ decoder.ref_ticks \in Int /\ latest \in Int /\ p.k \in Int
    BY Ranges DEF WireTyped, AlignedTo
  <1>2. a \in Int /\ b \in Int BY <1>1
  <1>3. a + b = decoder.ref_seq + (p.k - latest) BY <1>1
  <1>4. e.ref_seq = a % SeqRange OBVIOUS
  <1> HIDE DEF a
  <1>5. ((a % SeqRange) + b) % SeqRange = (a + b) % SeqRange BY <1>2, Ranges, ModAdd, Zenon
  <1>6. p.seq = (e.ref_seq + b) % SeqRange BY <1>3, <1>4, <1>5 DEF AlignedTo
  <1>7. ~Advd => e.ref_ticks + b = decoder.ref_ticks + (p.k - latest) BY <1>1
  <1>8. p.time = IF Advd THEN 0 ELSE SourceTime(e.ref_ticks + b) BY <1>7 DEF AlignedTo
  <1> HIDE DEF b
  <1> QED BY <1>1, <1>6, <1>8 DEF AlignedTo, b

\* The packet that is the reference.
LEMMA AlignedItself ==
  ASSUME NEW e, NEW k \in Int, NEW p, p = [k |-> k, seq |-> e.ref_seq, time |-> SourceTime(e.ref_ticks)],
         e.ref_seq \in 0 .. SeqRange - 1, e.ref_ticks \in Int, Advd => e.ref_ticks = 0
  PROVE  AlignedTo(e, k, p)
  <1>1. p.k = k /\ p.seq = e.ref_seq /\ p.time = SourceTime(e.ref_ticks) OBVIOUS
  <1>2. p.k - k = 0 /\ e.ref_seq + 0 = e.ref_seq /\ e.ref_ticks + 0 = e.ref_ticks BY <1>1, Ranges
  <1>3. e.ref_seq % SeqRange = e.ref_seq BY Ranges, ModSmall
  <1>4. Advd => SourceTime(e.ref_ticks) = 0 BY DEF SourceTime
  <1> QED BY <1>1, <1>2, <1>3, <1>4 DEF AlignedTo

LEMMA WInit == WireInit => WInv
  <1> SUFFICES ASSUME NEW c \in WireCases, WireStart(c) PROVE WInv BY DEF WireInit
  <1>1. c.start \in Int /\ c.ts \in Int /\ c.joined \in Int
    BY WireAssumption, Ranges DEF WireCase
  <1>2. 0 \in 0 .. SeqRange - 1 BY Ranges
  <1> QED BY <1>1, <1>2 DEF WireStart, WInv, WireTyped, Anchored, Aligned

\* decode and the flow's feed.
LEMMA WDeliver == ASSUME WInv, WireDeliver PROVE WInv'
  <1>1. PICK m \in under :
          /\ InReach(m.k) /\ under' = under \ {m} /\ decoder' = Decoded(m.k) /\ latest' = m.k
          /\ known' = IF (known = {} /\ m.retransmit) \/ (known # {} /\ m.k < First.k)
                      THEN known
                      ELSE Held(known \cup {[k |-> m.k, seq |-> decoder'.ref_seq,
                                             time |-> SourceTime(decoder'.ref_ticks)]})
          /\ UNCHANGED <<wcase, stream>>
    BY DEF WireDeliver
  <1> DEFINE k == m.k
             new == [k |-> k, seq |-> decoder'.ref_seq, time |-> SourceTime(decoder'.ref_ticks)]
  <1>2. WireTyped /\ k \in Int BY DEF WInv, WireTyped
  <1>3. /\ AnchoredAt(Decoded(k), k) /\ Decoded(k).ref_seq \in 0 .. SeqRange - 1
        /\ Decoded(k).ref_ticks \in Int
    BY <1>2, DecodedAnchors
  <1> HIDE DEF k
  <1>4. Advd' = Advd /\ \A n : SentSeq(n)' = SentSeq(n) /\ SentTs(n)' = SentTs(n)
    BY <1>1 DEF Advd, SentSeq, SentTs
  <1>5. decoder' = Decoded(k) /\ latest' = k BY <1>1 DEF k
  <1>6. WireTyped' BY <1>1, <1>2, <1>3, <1>5 DEF WireTyped
  <1>7. Anchored' BY <1>3, <1>4, <1>5 DEF Anchored, AnchoredAt
  <1>8. known' \subseteq known \cup {new} BY <1>1 DEF Held, k
  <1>9. AlignedTo(decoder', latest', new)
    <2>1. Advd => Decoded(k).ref_ticks = 0 BY <1>3 DEF AnchoredAt
    <2> QED BY <1>2, <1>3, <1>5, <2>1, AlignedItself
  <1>10. ASSUME NEW p \in known PROVE AlignedTo(decoder', latest', p)
    <2>1. AnchoredAt(decoder, latest) /\ AlignedTo(decoder, latest, p)
      BY DEF WInv, Anchored, Aligned
    <2>2. k - latest \in 1 - WireMod \div 2 .. WireMod \div 2 - 1 BY <1>1 DEF InReach, k
    <2>3. /\ Decoded(k).ref_seq = (decoder.ref_seq + (k - latest)) % SeqRange
          /\ ~Advd => Decoded(k).ref_ticks = decoder.ref_ticks + (k - latest)
      BY <1>2, <2>1, <2>2, DecodedMoves
    <2>4. AlignedTo(Decoded(k), k, p) BY <1>2, <2>1, <2>3, StaysAligned
    <2> QED BY <1>5, <2>4
  <1> HIDE DEF new
  <1>11. ASSUME NEW p \in known' PROVE AlignedTo(decoder, latest, p)'
    <2>1. AlignedTo(decoder', latest', p) BY <1>8, <1>9, <1>10
    <2> QED BY <1>4, <2>1 DEF AlignedTo
  <1> QED BY <1>6, <1>7, <1>11 DEF WInv, Aligned

\* The steps that decode nothing.
LEMMA WQuiet ==
  ASSUME WInv, UNCHANGED <<wcase, decoder, latest, known>>,
         stream' = stream \/ stream' = [stream EXCEPT !.sent = @ + 1],
         \A m \in under' : m.k \in Int
  PROVE  WInv'
  <1>1. WireTyped BY DEF WInv
  <1>2. /\ DOMAIN stream' = DOMAIN stream /\ stream'.start = stream.start
        /\ stream'.ts = stream.ts /\ stream'.sent \in Int
    BY <1>1 DEF WireTyped
  <1>3. Advd' = Advd /\ \A n : SentSeq(n)' = SentSeq(n) /\ SentTs(n)' = SentTs(n)
    BY <1>2 DEF Advd, SentSeq, SentTs
  <1>4. WireTyped' BY <1>1, <1>2 DEF WireTyped
  <1>5. Anchored' BY <1>3 DEF WInv, Anchored, AnchoredAt
  <1>6. Aligned' BY <1>3 DEF WInv, Aligned, AlignedTo
  <1> QED BY <1>4, <1>5, <1>6 DEF WInv

LEMMA WStep == WInv /\ [WireNext]_wireVars => WInv'
  <1> SUFFICES ASSUME WInv, [WireNext]_wireVars PROVE WInv' OBVIOUS
  <1>1. stream.sent \in Int /\ \A m \in under : m.k \in Int BY DEF WInv, WireTyped
  <1>2. CASE WireSend
    <2>1. \A m \in under' : m.k \in Int BY <1>1, <1>2 DEF WireSend
    <2> QED BY <1>2, <2>1, WQuiet DEF WireSend
  <1>3. CASE WireDeliver BY <1>3, WDeliver
  <1>4. CASE WireLose
    <2>1. \A m \in under' : m.k \in Int BY <1>1, <1>4 DEF WireLose
    <2> QED BY <1>4, <2>1, WQuiet DEF WireLose
  <1>5. CASE NackHoles BY <1>1, <1>5, WQuiet DEF NackHoles
  <1>6. CASE WireNack
    <2>1. PICK ks \in SUBSET (0 .. stream.sent - 1) :
            under' = under \cup {Again(k) : k \in ks}
      <3>1. PICK c \in asking :
              under' = under \cup {Again(k) :
                                     k \in {j \in 0 .. stream.sent - 1 :
                                              /\ SentSeq(j) \in Parsed(c)
                                              /\ j > stream.sent - 1 - WireMod}}
        BY <1>6 DEF WireNack
      <3> QED BY <3>1
    <2>2. \A m \in under' : m.k \in Int BY <1>1, <2>1 DEF Again
    <2> QED BY <1>6, <2>2, WQuiet DEF WireNack
  <1>7. CASE NackLost BY <1>1, <1>7, WQuiet DEF NackLost
  <1>8. CASE SenderRestarts
    <2>1. /\ stream' = [start |-> wcase.restart, ts |-> 0, sent |-> 0] /\ under' = {}
          /\ known' = {} /\ UNCHANGED <<wcase, decoder, latest>>
      BY <1>8 DEF SenderRestarts
    <2>2. wcase.restart \in Int BY WireAssumption, Ranges DEF WInv, WireTyped, WireCase
    <2> QED BY <2>1, <2>2 DEF WInv, WireTyped, Anchored, Aligned
  <1>9. CASE UNCHANGED wireVars BY <1>1, <1>9, WQuiet DEF wireVars
  <1> QED BY <1>2, <1>3, <1>4, <1>5, <1>6, <1>7, <1>8, <1>9 DEF WireNext

LEMMA WIdentity == WInv => SameIdentity
  <1> SUFFICES ASSUME WInv, NEW p \in known, NEW q \in known
               PROVE  /\ p.seq = (q.seq + p.k - q.k) % SeqRange
                      /\ p.k = q.k => p.time = q.time
                      /\ p.k < q.k => p.time <= q.time
    BY DEF SameIdentity
  <1> DEFINE a == decoder.ref_seq + (q.k - latest)
             b == p.k - q.k
             x == decoder.ref_ticks + (p.k - latest)
             y == decoder.ref_ticks + (q.k - latest)
  <1>1. /\ p.k \in Int /\ q.k \in Int /\ latest \in Int /\ decoder.ref_seq \in Int
        /\ decoder.ref_ticks \in Int
    BY Ranges DEF WInv, WireTyped, Aligned, AlignedTo
  <1>2. /\ p.seq = (decoder.ref_seq + (p.k - latest)) % SeqRange /\ q.seq = a % SeqRange
        /\ p.time = (IF Advd THEN 0 ELSE SourceTime(x))
        /\ q.time = (IF Advd THEN 0 ELSE SourceTime(y))
    BY DEF WInv, Aligned, AlignedTo
  <1>3. a \in Int /\ b \in Int /\ a + b = decoder.ref_seq + (p.k - latest) BY <1>1
  <1> HIDE DEF a
  <1>4. ((a % SeqRange) + b) % SeqRange = (a + b) % SeqRange BY <1>3, Ranges, ModAdd, Zenon
  <1>5. q.seq \in Int BY <1>2, <1>3, Ranges
  <1>6. q.seq + p.k - q.k = q.seq + b BY <1>1, <1>5
  <1>7. p.seq = (q.seq + p.k - q.k) % SeqRange BY <1>2, <1>3, <1>4, <1>6
  <1>8. x \in Int /\ y \in Int /\ (p.k = q.k => x = y) /\ (p.k < q.k => x < y) BY <1>1
  <1> HIDE DEF x, y
  <1>9. (p.k = q.k => p.time = q.time) /\ (p.k < q.k => p.time <= q.time)
    BY <1>2, <1>8 DEF SourceTime
  <1> QED BY <1>7, <1>9

\* A packet and its retransmission are decoded to the same sequence and time,
\* and packets keep their distances and their order in time: for every width of
\* the halves and of the timestamp, however many packets are sent, wherever they
\* wrap, whatever is lost and re-ordered within half the short range, and when
\* the sender starts anew (MediaDecoder::decode, widen_seq, widen_ticks).
THEOREM WireSameIdentity == WireSpec => []SameIdentity
  <1> QED BY WInit, WStep, WIdentity, PTL DEF WireSpec

-----------------------------------------------------------------------------
(* Control messages nobody knows                                             *)

OddInv ==
  /\ DOMAIN odd = {"unknown", "answers", "raised", "answered"}
  /\ odd.unknown \in Nat /\ odd.answers \in Nat /\ odd.raised \in Nat /\ odd.answered \in Nat
  /\ AnsweredOnce
  /\ odd.answers <= odd.answered

LEMMA OddHeard ==
  ASSUME OddInv, HearControl PROVE OddInv'
  <1>1. PICK kind \in {"unknown", "answers"} :
          /\ odd[kind] > 0
          /\ odd' = IF Queues(kind)
                    THEN [[odd EXCEPT ![kind] = @ - 1] EXCEPT !.answers = @ + 1, !.answered = @ + 1]
                    ELSE [odd EXCEPT ![kind] = @ - 1]
    BY DEF HearControl
  <1>2. CASE kind = "unknown"
    <2> DEFINE a == [odd EXCEPT !.unknown = odd.unknown - 1]
               b == [a EXCEPT !.answers = odd.answers + 1]
    <2>1. /\ DOMAIN a = DOMAIN odd /\ a.unknown = odd.unknown - 1 /\ a.answers = odd.answers
          /\ a.raised = odd.raised /\ a.answered = odd.answered
      BY DEF OddInv
    <2>2. odd' = [b EXCEPT !.answered = odd.answered + 1]
      BY <1>1, <1>2, <2>1 DEF Queues, OddInv
    <2> HIDE DEF a
    <2>3. /\ DOMAIN b = DOMAIN odd /\ b.unknown = odd.unknown - 1 /\ b.answers = odd.answers + 1
          /\ b.raised = odd.raised
      BY <2>1 DEF OddInv
    <2> HIDE DEF b
    <2>4. /\ DOMAIN odd' = DOMAIN odd /\ odd'.unknown = odd.unknown - 1
          /\ odd'.answers = odd.answers + 1 /\ odd'.raised = odd.raised
          /\ odd'.answered = odd.answered + 1
      BY <2>2, <2>3 DEF OddInv
    <2>5. odd.unknown > 0 BY <1>1, <1>2
    <2> QED BY <2>4, <2>5 DEF OddInv, AnsweredOnce
  <1>3. CASE kind = "answers"
    <2>1. odd' = [odd EXCEPT !.answers = odd.answers - 1] BY <1>1, <1>3 DEF Queues
    <2>2. /\ DOMAIN odd' = DOMAIN odd /\ odd'.unknown = odd.unknown
          /\ odd'.answers = odd.answers - 1 /\ odd'.raised = odd.raised
          /\ odd'.answered = odd.answered
      BY <2>1 DEF OddInv
    <2>3. odd.answers > 0 BY <1>1, <1>3
    <2> QED BY <2>2, <2>3 DEF OddInv, AnsweredOnce
  <1> QED BY <1>2, <1>3

LEMMA OddStep == OddInv /\ [AdvNext]_advVars => OddInv'
  <1> SUFFICES ASSUME OddInv, [AdvNext]_advVars PROVE OddInv' OBVIOUS
  <1>1. CASE SendUnknown
    <2>1. odd' = [odd EXCEPT !.raised = odd.raised + 1, !.unknown = odd.unknown + 1]
      BY <1>1 DEF SendUnknown
    <2>2. /\ DOMAIN odd' = DOMAIN odd /\ odd'.unknown = odd.unknown + 1
          /\ odd'.answers = odd.answers /\ odd'.raised = odd.raised + 1
          /\ odd'.answered = odd.answered
      BY <2>1 DEF OddInv
    <2> QED BY <2>2 DEF OddInv, AnsweredOnce
  <1>2. CASE UNCHANGED odd BY <1>2 DEF OddInv, AnsweredOnce
  <1>3. CASE UNCHANGED advVars BY <1>2, <1>3 DEF advVars
  <1> QED BY <1>1, <1>2, <1>3, OddHeard
          DEF AdvNext, AdvSend, AdvResend, AdvKeepalive, HearKeepalive, AdvLose, AdvDeliver

\* Two ends that do not know each other's control messages never answer more
\* than was asked, however many messages are raised and in whatever order they
\* are heard: an answer raises no answer (decode_control_msg, send_unsupported).
THEOREM AdvancedAnsweredOnce == AdvSpec => []AnsweredOnce
  <1>1. AdvInit => OddInv BY DEF AdvInit, AdvStart, OddInv, AnsweredOnce
  <1>2. OddInv /\ [AdvNext]_advVars => OddInv' BY OddStep
  <1>3. OddInv => AnsweredOnce BY DEF OddInv
  <1> QED BY <1>1, <1>2, <1>3, PTL DEF AdvSpec

-----------------------------------------------------------------------------
(* Payloads in pieces.  The pieces under way are the end of one line, in    *)
(* which each piece follows the one before it; what the merger or the       *)
(* reassembler holds is where that line was cut last.                       *)

\* split_payload of non-empty payloads only, numbered from an even start: an
\* empty one travels as a single half, and the halves behind it change places.
EvenPairs == \A c \in DelCases : c.carriage = "split" => ~c.empties /\ DelStart % 2 = 0

\* Control fragments are told apart by their sequence, which does not come round.
OneLap ==
  \A c \in DelCases : c.carriage = "control" => DelPayloads * MaxFragments <= 2 * DelHalf

Ids == [payload : Nat \ {0}, part : Nat \ {0}]
Roles == {"Standalone", "First", "Middle", "Last"}
PieceRec == [seq : DelSeq!SeqNum, src : Nat, role : Roles, id : Ids]

Before(a, b) == a.payload < b.payload \/ (a.payload = b.payload /\ a.part < b.part)
KnownId(a) == a.payload \in DOMAIN pushed /\ a.part \in 1 .. pushed[a.payload]

\* The first c pieces of payload p.
Leading(p, c) == [k \in 1 .. c |-> Piece(p, k)]

IsPiece(d) == KnownId(d.id) /\ d.role = Role(d.id.part, pushed[d.id.payload])

\* b is the piece behind a.
Follows(a, b) ==
  IF a.id.part < pushed[a.id.payload]
  THEN b.id = Piece(a.id.payload, a.id.part + 1) /\ b.src = a.src
  ELSE b.id = Piece(a.id.payload + 1, 1)

RunRec == [run : Seq(Ids), active : BOOLEAN, count : Nat,
           last : [seq : DelSeq!SeqNum] \cup {Unheld}]

DelTypes ==
  /\ delCase \in DelCases /\ delCase \in DelCase
  /\ pushed \in Seq(Nat \ {0}) /\ cursor \in DelSeq!SeqNum /\ stamp \in Nat
  /\ pieces \in Seq(PieceRec) /\ broken \in BOOLEAN
  /\ merger \in [auto : BOOLEAN, held : PieceRec \cup {Unheld}]
  /\ reasm \in RunRec
  /\ handed \subseteq Ids /\ given \in Seq(Seq(Ids))

\* What the application may get: a whole payload, or one half of a split one.
Sound(g) ==
  \/ \E p \in DOMAIN pushed : g = Leading(p, pushed[p])
  \/ delCase.carriage = "split" /\ \E a \in Ids : KnownId(a) /\ g = <<a>>

GivenSound == \A i \in DOMAIN given : Sound(given[i])

\* The line of pieces under way: in order, without a gap, up to the last one cut.
InLine ==
  /\ \A i \in DOMAIN pieces : IsPiece(pieces[i])
  /\ \A i, j \in DOMAIN pieces : i < j => Before(pieces[i].id, pieces[j].id)
  /\ \A i \in DOMAIN pieces : i + 1 \in DOMAIN pieces => Follows(pieces[i], pieces[i + 1])
  /\ pieces # <<>> =>
       pieces[Len(pieces)].id = Piece(Len(pushed), pushed[Len(pushed)])

\* What has come through lies before it, and is given in order.
InOrder ==
  /\ \A a \in handed : KnownId(a)
  /\ \A a \in handed, i \in DOMAIN pieces : Before(a, pieces[i].id)
  /\ \A j \in DOMAIN given, i \in DOMAIN pieces :
       Before(given[j][Len(given[j])], pieces[i].id)
  /\ \A i, j \in DOMAIN given : i < j => Before(given[i][Len(given[i])], given[j][1])

AllGiven ==
  \A p \in DOMAIN pushed :
    PiecesOf(p) \subseteq handed => \E i \in DOMAIN given : given[i] = WholeOf(p)

\* Halves: the first lies on an even sequence.
Halves ==
  /\ cursor % 2 = 0 /\ \A p \in DOMAIN pushed : pushed[p] = 2
  /\ \A i \in DOMAIN pieces :
       /\ pieces[i].seq % 2 = pieces[i].id.part - 1
       /\ i + 1 \in DOMAIN pieces /\ pieces[i].id.part = 1 =>
            pieces[i + 1].seq = DelSeq!Add(pieces[i].seq, 1)
  /\ merger.held # Unheld =>
       /\ MergeActive
       /\ IsPiece(merger.held) /\ merger.held.id.part = 1 /\ merger.held.seq % 2 = 0
       /\ \A i \in DOMAIN pieces : Before(merger.held.id, pieces[i].id)
       /\ \A j \in DOMAIN given : Before(given[j][Len(given[j])], merger.held.id)
       /\ ~broken => /\ pieces # <<>> /\ Follows(merger.held, pieces[1])
                     /\ pieces[1].seq = DelSeq!Add(merger.held.seq, 1)
  \* A second half still under way, whose first came through, finds it held.
  /\ pieces # <<>> /\ pieces[1].id.part = 2 /\ Piece(pieces[1].id.payload, 1) \in handed =>
       ~broken /\ merger.held # Unheld /\ merger.held.id = Piece(pieces[1].id.payload, 1)

\* The open run is the beginning of a payload.
Opened(p, c) ==
  /\ reasm.run = Leading(p, c) /\ reasm.count = c
  /\ p \in DOMAIN pushed /\ c \in 1 .. pushed[p] - 1

Fragments ==
  /\ \A p \in DOMAIN pushed : pushed[p] <= MaxFragments
  /\ reasm.active => \E p, c \in Nat :
       /\ Opened(p, c) /\ \A i \in DOMAIN pieces : Before(Piece(p, c), pieces[i].id)
       /\ ~broken => pieces # <<>> /\ pieces[1].id = Piece(p, c + 1)
  \* A later fragment still under way, behind all those before it, finds them.
  /\ pieces # <<>> /\ pieces[1].id.part > 1
       /\ (\A k \in 1 .. pieces[1].id.part - 1 : Piece(pieces[1].id.payload, k) \in handed) =>
         ~broken /\ reasm.active /\ Opened(pieces[1].id.payload, pieces[1].id.part - 1)

\* Where each payload starts, counted in pieces.
Offsets(o) ==
  /\ o \in [1 .. Len(pushed) + 1 -> Nat]
  /\ \A p \in DOMAIN pushed : o[p + 1] = o[p] + pushed[p]
  /\ \A p \in DOMAIN o : o[p] <= (p - 1) * MaxFragments
  /\ \A p, q \in DOMAIN o : p <= q => o[p] <= o[q]
Numbered(o) ==
  /\ cursor = DelSeq!Add(DelStart, o[Len(pushed) + 1])
  /\ \A i \in DOMAIN pieces :
       pieces[i].seq = DelSeq!Add(DelStart, o[pieces[i].id.payload] + (pieces[i].id.part - 1))
  /\ reasm.active => \E p, c \in Nat :
       /\ Opened(p, c)
       /\ reasm.last # Unheld /\ reasm.last.seq = DelSeq!Add(DelStart, o[p] + (c - 1))

Control ==
  /\ \A p \in DOMAIN pushed : pushed[p] <= MaxFragments
  /\ Len(pushed) <= DelPayloads
  /\ \A i \in DOMAIN pieces : IsPiece(pieces[i])
  /\ \E o \in [1 .. Len(pushed) + 1 -> Nat] : Offsets(o) /\ Numbered(o)

DelInv ==
  /\ DelTypes /\ GivenSound
  /\ delCase.carriage # "control" => InLine /\ InOrder /\ AllGiven
  /\ delCase.carriage = "split" => Halves
  /\ delCase.carriage = "fragment" => Fragments
  /\ delCase.carriage = "control" => Control

-----------------------------------------------------------------------------
(* Sequences and pieces                                                     *)

Fin(g) == g[Len(g)]

LEMMA Grown ==
  ASSUME NEW S, NEW g \in Seq(S), NEW out \in Seq(S)
  PROVE  /\ g \o out \in Seq(S) /\ Len(g \o out) = Len(g) + Len(out)
         /\ \A j \in DOMAIN (g \o out) :
              \/ j \in DOMAIN g /\ (g \o out)[j] = g[j]
              \/ j \notin DOMAIN g /\ j - Len(g) \in DOMAIN out /\ (g \o out)[j] = out[j - Len(g)]
         /\ \A j \in DOMAIN g : j \in DOMAIN (g \o out) /\ (g \o out)[j] = g[j]
         /\ \A k \in DOMAIN out : k + Len(g) \in DOMAIN (g \o out) /\ (g \o out)[k + Len(g)] = out[k]
  OBVIOUS

LEMMA Shifted ==
  ASSUME NEW S, NEW s \in Seq(S), s # <<>>
  PROVE  /\ Tail(s) \in Seq(S) /\ Len(Tail(s)) = Len(s) - 1 /\ Head(s) = s[1] /\ 1 \in DOMAIN s
         /\ \A i \in DOMAIN Tail(s) : i + 1 \in DOMAIN s /\ i + 1 > 1 /\ Tail(s)[i] = s[i + 1]
         /\ DOMAIN s = 1 .. Len(s) /\ DOMAIN Tail(s) = 1 .. Len(s) - 1
  OBVIOUS

LEMMA IsHeld == ASSUME NEW d \in PieceRec PROVE d # Unheld
  <1>1. DOMAIN d = {"seq", "src", "role", "id"} BY DEF PieceRec
  <1>2. DOMAIN Unheld = {"none"} BY DEF Unheld
  <1> QED BY <1>1, <1>2

LEMMA LeadingIs ==
  ASSUME NEW p \in Nat \ {0}, NEW c \in Nat \ {0}
  PROVE  /\ Leading(p, c) \in Seq(Ids) /\ Len(Leading(p, c)) = c
         /\ Leading(p, c)[1] = Piece(p, 1) /\ Leading(p, c)[c] = Piece(p, c)
         /\ Append(Leading(p, c), Piece(p, c + 1)) = Leading(p, c + 1)
         /\ Leading(p, 1) = <<Piece(p, 1)>>
  <1>1. \A k \in 1 .. c : Piece(p, k) \in Ids BY DEF Piece, Ids
  <1>2. Leading(p, c) \in Seq(Ids) /\ Len(Leading(p, c)) = c BY <1>1 DEF Leading
  <1>3. Append(Leading(p, c), Piece(p, c + 1)) = Leading(p, c + 1)
    <2> DEFINE s == Append(Leading(p, c), Piece(p, c + 1))
               t == Leading(p, c + 1)
    <2>1. Piece(p, c + 1) \in Ids BY DEF Piece, Ids
    <2>2. s \in Seq(Ids) /\ Len(s) = c + 1 BY <1>2, <2>1
    <2>3. \A k \in 1 .. c + 1 : Piece(p, k) \in Ids BY DEF Piece, Ids
    <2>4. t \in Seq(Ids) /\ Len(t) = c + 1 BY <2>3 DEF Leading
    <2>5. \A k \in 1 .. c + 1 : s[k] = t[k]
      <3> SUFFICES ASSUME NEW k \in 1 .. c + 1 PROVE s[k] = t[k] OBVIOUS
      <3>1. t[k] = Piece(p, k) BY DEF Leading
      <3>2. CASE k = c + 1 BY <1>2, <2>1, <3>1, <3>2
      <3>3. CASE k \in 1 .. c
        <4>1. s[k] = Leading(p, c)[k] BY <1>2, <2>1, <3>3
        <4> QED BY <3>1, <3>3, <4>1 DEF Leading
      <3> HIDE DEF s, t
      <3>4. k = c + 1 \/ k \in 1 .. c OBVIOUS
      <3> QED BY <3>2, <3>3, <3>4
    <2> HIDE DEF s, t
    <2> QED BY <2>2, <2>4, <2>5, SeqEqual DEF s, t
  <1>4. Leading(p, 1) = <<Piece(p, 1)>>
    <2>1. Leading(p, 1) \in Seq(Ids) /\ Len(Leading(p, 1)) = 1 BY <1>1 DEF Leading
    <2>2. <<Piece(p, 1)>> \in Seq(Ids) /\ Len(<<Piece(p, 1)>>) = 1 BY <1>1
    <2>3. Leading(p, 1)[1] = Piece(p, 1) BY DEF Leading
    <2> QED BY <2>1, <2>2, <2>3, SeqEqual
  <1> QED BY <1>2, <1>3, <1>4 DEF Leading

LEMMA WholeIs == ASSUME NEW p PROVE WholeOf(p) = Leading(p, pushed[p])
  BY DEF WholeOf, Leading

\* A sequence of the flow follows the one before it.
LEMMA AddIs ==
  ASSUME NEW a \in DelSeq!SeqNum, NEW x \in Nat
  PROVE  /\ DelSeq!Add(a, x) \in DelSeq!SeqNum
         /\ DelSeq!Add(a, x) = (a + x) % (2 * DelHalf)
  <1> DEFINE m == 2 * DelHalf
             y == x % m
  <1>1. m \in Nat \ {0} /\ a \in 0 .. m - 1 /\ m = DelSeq!SeqSize
    BY DeliveryAssumption DEF DelSeq!SeqNum, DelSeq!SeqSize
  <1>2. y \in 0 .. m - 1
    <2>1. x \in Int OBVIOUS
    <2> HIDE DEF m
    <2> QED BY <1>1, <2>1, ModRange
  <1>3. DelSeq!Add(a, x) = IF a + y >= m THEN a + y - m ELSE a + y
    BY <1>1 DEF DelSeq!Add, DelSeq!WrappingAdd
  <1>4. (y + a) % m = (x + a) % m BY <1>1, ModAdd
  <1> HIDE DEF m, y
  <1>5. (y + a) % m = IF a + y >= m THEN a + y - m ELSE a + y
    <2>1. CASE a + y >= m
      <3>1. y + a = m * 1 + (a + y - m) /\ a + y - m \in 0 .. m - 1 BY <1>1, <1>2, <2>1
      <3>2. y + a \in Int /\ 1 \in Int BY <1>1, <1>2
      <3> QED BY <1>1, <2>1, <3>1, <3>2, ModIs
    <2>2. CASE ~(a + y >= m)
      <3>1. y + a = m * 0 + (a + y) /\ a + y \in 0 .. m - 1 BY <1>1, <1>2, <2>2
      <3>2. y + a \in Int /\ 0 \in Int BY <1>1, <1>2
      <3> QED BY <1>1, <2>2, <3>1, <3>2, ModIs
    <2> QED BY <2>1, <2>2
  <1>6. x + a = a + x BY <1>1
  <1>7. DelSeq!Add(a, x) \in 0 .. m - 1 BY <1>1, <1>2, <1>3
  <1> QED BY <1>1, <1>3, <1>4, <1>5, <1>6, <1>7 DEF m, DelSeq!SeqNum

LEMMA AddAdd ==
  ASSUME NEW a \in DelSeq!SeqNum, NEW x \in Nat, NEW y \in Nat
  PROVE  DelSeq!Add(DelSeq!Add(a, x), y) = DelSeq!Add(a, x + y)
  <1> DEFINE m == 2 * DelHalf
             b == DelSeq!Add(a, x)
  <1>1. b \in DelSeq!SeqNum /\ b = (a + x) % m BY AddIs
  <1> HIDE DEF b
  <1>2. DelSeq!Add(b, y) = (b + y) % m BY <1>1, AddIs
  <1>3. x + y \in Nat OBVIOUS
  <1>4. DelSeq!Add(a, x + y) = (a + (x + y)) % m BY <1>3, AddIs
  <1>5. m \in Nat \ {0} /\ a \in Int
    BY DeliveryAssumption DEF DelSeq!SeqNum, DelSeq!SeqSize
  <1> HIDE DEF m
  <1>6. (b + y) % m = ((a + x) + y) % m
    <2> DEFINE z == a + x
    <2>1. z \in Int /\ y \in Int BY <1>5
    <2> HIDE DEF z
    <2>2. ((z % m) + y) % m = (z + y) % m BY <1>5, <2>1, ModAdd
    <2> QED BY <1>1, <2>2 DEF z
  <1>7. (a + x) + y = a + (x + y) BY <1>5
  <1> QED BY <1>2, <1>4, <1>6, <1>7 DEF b

\* Less than a lap apart, different pieces have different sequences.
LEMMA AddInjective ==
  ASSUME NEW a \in DelSeq!SeqNum, NEW x \in 0 .. 2 * DelHalf - 1, NEW y \in 0 .. 2 * DelHalf - 1,
         DelSeq!Add(a, x) = DelSeq!Add(a, y)
  PROVE  x = y
  <1> DEFINE m == 2 * DelHalf
  <1>1. m \in Nat \ {0} /\ a \in 0 .. m - 1 /\ m = DelSeq!SeqSize
    BY DeliveryAssumption DEF DelSeq!SeqNum, DelSeq!SeqSize
  <1>2. x \in 0 .. m - 1 /\ y \in 0 .. m - 1 OBVIOUS
  <1> HIDE DEF m
  <1>3. x % m = x /\ y % m = y BY <1>1, <1>2, ModSmall
  <1>4. (IF a + x >= m THEN a + x - m ELSE a + x) = (IF a + y >= m THEN a + y - m ELSE a + y)
    BY <1>1, <1>3 DEF DelSeq!Add, DelSeq!WrappingAdd
  <1> QED BY <1>1, <1>2, <1>4

\* Halves lie on even and odd sequences.
LEMMA EvenAdd ==
  ASSUME NEW a \in DelSeq!SeqNum, a % 2 = 0
  PROVE  /\ DelSeq!Add(a, 0) = a /\ DelSeq!Add(a, 1) % 2 = 1 /\ DelSeq!Add(a, 2) % 2 = 0
  <1> DEFINE m == 2 * DelHalf
  <1>1. m \in Nat \ {0} /\ a \in 0 .. m - 1 /\ DelHalf \in Nat \ {0}
    BY DeliveryAssumption DEF DelSeq!SeqNum, DelSeq!SeqSize
  <1>2. DelSeq!Add(a, 0) = a % m BY <1>1, AddIs
  <1>3. DelSeq!Add(a, 1) = (a + 1) % m BY AddIs
  <1>4. DelSeq!Add(a, 2) = (a + 2) % m BY AddIs
  <1>5. PICK h \in Int : a = 2 * h BY <1>1
  <1>6. a + 1 \in 0 .. m - 1 BY <1>1, <1>5
  <1>7. a % m = a /\ (a + 1) % m = a + 1
    <2> HIDE DEF m
    <2> QED BY <1>1, <1>6, ModSmall
  <1>8. (a + 2) % m = IF a + 2 = m THEN 0 ELSE a + 2
    <2>1. a + 2 <= m BY <1>1, <1>5
    <2> HIDE DEF m
    <2>2. CASE a + 2 = m
      <3>1. a + 2 = m * 1 + 0 /\ 0 \in 0 .. m - 1 /\ a + 2 \in Int BY <1>1, <2>2
      <3> QED BY <1>1, <2>2, <3>1, ModIs
    <2>3. CASE a + 2 # m
      <3>1. a + 2 \in 0 .. m - 1 BY <1>1, <2>1, <2>3
      <3> QED BY <1>1, <2>3, <3>1, ModSmall
    <2> QED BY <2>2, <2>3
  <1>9. (a + 1) % 2 = 1 /\ (a + 2) % 2 = 0 BY <1>1, <1>5
  <1> HIDE DEF m
  <1> QED BY <1>2, <1>3, <1>4, <1>7, <1>8, <1>9

LEMMA AddZero == ASSUME NEW a \in DelSeq!SeqNum PROVE DelSeq!Add(a, 0) = a
  <1> DEFINE m == 2 * DelHalf
  <1>1. m \in Nat \ {0} /\ a \in 0 .. m - 1
    BY DeliveryAssumption DEF DelSeq!SeqNum, DelSeq!SeqSize
  <1>2. DelSeq!Add(a, 0) = a % m BY <1>1, AddIs
  <1> HIDE DEF m
  <1> QED BY <1>1, <1>2, ModSmall

LEMMA BeforeTrans ==
  ASSUME NEW a \in Ids, NEW b \in Ids, NEW c \in Ids, Before(a, b), Before(b, c)
  PROVE  Before(a, c)
  BY DEF Before, Ids

LEMMA PieceIs ==
  ASSUME NEW p, NEW k
  PROVE  /\ Piece(p, k).payload = p /\ Piece(p, k).part = k
         /\ \A a \in Ids : Piece(a.payload, a.part) = a
         /\ p \in Nat \ {0} /\ k \in Nat \ {0} => Piece(p, k) \in Ids
  BY DEF Piece, Ids

\* What was given, and the pieces under way, are identifiers of pieces.
LEMMA GivenIds ==
  ASSUME DelTypes, GivenSound, NEW i \in DOMAIN given
  PROVE  /\ given[i] \in Seq(Ids) /\ Len(given[i]) \in Nat \ {0}
         /\ given[i][1] \in Ids /\ Fin(given[i]) \in Ids
         /\ KnownId(given[i][1]) /\ KnownId(Fin(given[i]))
         /\ given[i][1].payload = Fin(given[i]).payload
  <1>1. given[i] \in Seq(Ids) BY DEF DelTypes
  <1>2. CASE \E p \in DOMAIN pushed : given[i] = Leading(p, pushed[p])
    <2>1. PICK p \in DOMAIN pushed : given[i] = Leading(p, pushed[p]) BY <1>2
    <2>2. p \in Nat \ {0} /\ pushed[p] \in Nat \ {0} BY DEF DelTypes
    <2> DEFINE c == pushed[p]
    <2> HIDE DEF c
    <2>3. c \in Nat \ {0} /\ given[i] = Leading(p, c) BY <2>1, <2>2 DEF c
    <2>4. /\ Len(given[i]) = c /\ given[i][1] = Piece(p, 1) /\ Fin(given[i]) = Piece(p, c)
      <3>1. /\ Len(Leading(p, c)) = c /\ Leading(p, c)[1] = Piece(p, 1)
            /\ Leading(p, c)[c] = Piece(p, c)
        BY <2>2, <2>3, LeadingIs
      <3> QED BY <2>3, <3>1 DEF Fin
    <2>5. c = pushed[p] BY DEF c
    <2> QED BY <1>1, <2>2, <2>3, <2>4, <2>5, PieceIs DEF KnownId
  <1>3. CASE \E a \in Ids : KnownId(a) /\ given[i] = <<a>>
    BY <1>1, <1>3 DEF Fin
  <1> QED BY <1>2, <1>3 DEF GivenSound, Sound

LEMMA DelStarts == ASSUME EvenPairs, DelInit PROVE DelInv
  <1>1. PICK c \in DelCases : DelStartState(c) BY DEF DelInit
  <1>2. /\ pushed = <<>> /\ cursor = DelStart /\ stamp = 0 /\ pieces = <<>> /\ broken = FALSE
        /\ handed = {} /\ given = <<>> /\ delCase = c
        /\ merger = [auto |-> FALSE, held |-> Unheld]
        /\ reasm = [run |-> <<>>, active |-> FALSE, count |-> 0, last |-> Unheld]
    BY <1>1 DEF DelStartState
  <1>3. DelTypes
    <2>1. Unheld \in PieceRec \cup {Unheld} /\ FALSE \in BOOLEAN OBVIOUS
    <2>2. /\ <<>> \in Seq(Nat \ {0}) /\ <<>> \in Seq(PieceRec) /\ <<>> \in Seq(Ids)
          /\ <<>> \in Seq(Seq(Ids))
      OBVIOUS
    <2>3. merger \in [auto : BOOLEAN, held : PieceRec \cup {Unheld}] BY <1>2, <2>1
    <2>4. reasm \in RunRec BY <1>2, <2>1, <2>2 DEF RunRec
    <2>5. delCase \in DelCases /\ delCase \in DelCase /\ cursor \in DelSeq!SeqNum
      BY <1>2, DeliveryAssumption
    <2> QED BY <1>2, <2>2, <2>3, <2>4, <2>5 DEF DelTypes
  <1>4. GivenSound BY <1>2 DEF GivenSound
  <1>5. InLine /\ InOrder /\ AllGiven BY <1>2 DEF InLine, InOrder, AllGiven
  <1>6. delCase.carriage = "split" => Halves BY <1>2 DEF Halves, EvenPairs
  <1>7. Fragments BY <1>2 DEF Fragments
  <1>8. Control
    <2> DEFINE o == [p \in 1 .. 1 |-> 0]
    <2>1. Offsets(o) /\ o \in [1 .. Len(pushed) + 1 -> Nat]
      BY <1>2, DeliveryAssumption DEF Offsets
    <2>2. cursor = DelSeq!Add(DelStart, o[Len(pushed) + 1])
      BY <1>2, DeliveryAssumption, AddZero
    <2>3. Numbered(o) BY <1>2, <2>2 DEF Numbered
    <2> HIDE DEF o
    <2> QED BY <1>2, <2>1, <2>3, DeliveryAssumption DEF Control
  <1> QED BY <1>3, <1>4, <1>5, <1>6, <1>7, <1>8 DEF DelInv

-----------------------------------------------------------------------------
(* A payload is cut                                                         *)

\* What a push changes, for both flows and control messages.
Pushed(n) ==
  /\ n \in Nat \ {0}
  /\ pushed' \in Seq(Nat \ {0}) /\ Len(pushed') = Len(pushed) + 1
  /\ \A p \in DOMAIN pushed : p \in DOMAIN pushed' /\ pushed'[p] = pushed[p]
  /\ pushed'[Len(pushed) + 1] = n
  /\ pieces' \in Seq(PieceRec) /\ Len(pieces') = Len(pieces) + n
  /\ \A i \in DOMAIN pieces : i \in DOMAIN pieces' /\ pieces'[i] = pieces[i]
  /\ \A i \in DOMAIN pieces' : i \notin DOMAIN pieces =>
       /\ i - Len(pieces) \in 1 .. n
       /\ pieces'[i].seq = DelSeq!Add(cursor, i - Len(pieces) - 1)
       /\ pieces'[i].src = stamp
       /\ pieces'[i].role = Role(i - Len(pieces), n)
       /\ pieces'[i].id = Piece(Len(pushed) + 1, i - Len(pieces))
  /\ cursor' = DelSeq!Add(cursor, n) /\ cursor' \in DelSeq!SeqNum

LEMMA CutIs ==
  ASSUME DelTypes, NEW n \in Nat \ {0}, Cut(n)
  PROVE  Pushed(n)
  <1> DEFINE N == Len(pushed)
             L == Len(pieces)
             Q(k) == [seq |-> DelSeq!Add(cursor, k - 1), src |-> stamp,
                      role |-> Role(k, n), id |-> Piece(N + 1, k)]
             q == [k \in 1 .. n |-> Q(k)]
  <1>1. /\ pushed \in Seq(Nat \ {0}) /\ cursor \in DelSeq!SeqNum /\ stamp \in Nat
        /\ pieces \in Seq(PieceRec)
    BY DEF DelTypes
  <1>2. pushed' = Append(pushed, n) /\ cursor' = DelSeq!Add(cursor, n) /\ pieces' = pieces \o q
    BY DEF Cut
  <1>3. ASSUME NEW k \in 1 .. n PROVE Q(k) \in PieceRec
    <2>1. DelSeq!Add(cursor, k - 1) \in DelSeq!SeqNum
      <3>1. k - 1 \in Nat OBVIOUS
      <3> QED BY <1>1, <3>1, AddIs
    <2>2. Role(k, n) \in Roles BY DEF Role, Roles
    <2>3. N + 1 \in Nat \ {0} /\ k \in Nat \ {0} BY <1>1
    <2>4. Piece(N + 1, k) \in Ids BY <2>3, PieceIs
    <2> QED BY <1>1, <2>1, <2>2, <2>4 DEF PieceRec
  <1>4. q \in Seq(PieceRec) /\ Len(q) = n /\ DOMAIN q = 1 .. n BY <1>3
  <1>5. \A k \in 1 .. n : q[k] = Q(k) OBVIOUS
  <1>6. \A k : /\ Q(k).seq = DelSeq!Add(cursor, k - 1) /\ Q(k).src = stamp
               /\ Q(k).role = Role(k, n) /\ Q(k).id = Piece(N + 1, k)
    OBVIOUS
  <1> HIDE DEF q, Q
  <1>7. /\ pushed' \in Seq(Nat \ {0}) /\ Len(pushed') = N + 1 /\ pushed'[N + 1] = n
        /\ \A p \in DOMAIN pushed : p \in DOMAIN pushed' /\ pushed'[p] = pushed[p]
    BY <1>1, <1>2
  <1>8. /\ pieces' \in Seq(PieceRec) /\ Len(pieces') = L + n
        /\ \A i \in DOMAIN pieces : i \in DOMAIN pieces' /\ pieces'[i] = pieces[i]
        /\ \A i \in DOMAIN pieces' : i \notin DOMAIN pieces =>
             i - L \in DOMAIN q /\ pieces'[i] = q[i - L]
    <2> DEFINE g == pieces
               h == g \o q
    <2>1. /\ h \in Seq(PieceRec) /\ Len(h) = Len(g) + Len(q)
          /\ \A j \in DOMAIN h :
               \/ j \in DOMAIN g /\ h[j] = g[j]
               \/ j \notin DOMAIN g /\ j - Len(g) \in DOMAIN q /\ h[j] = q[j - Len(g)]
          /\ \A j \in DOMAIN g : j \in DOMAIN h /\ h[j] = g[j]
      BY <1>1, <1>4, Grown
    <2>2. pieces' = h BY <1>2
    <2> HIDE DEF h
    <2> QED BY <1>4, <2>1, <2>2
  <1>9. \A i \in DOMAIN pieces' : i \notin DOMAIN pieces =>
          /\ i - L \in 1 .. n
          /\ pieces'[i].seq = DelSeq!Add(cursor, i - L - 1) /\ pieces'[i].src = stamp
          /\ pieces'[i].role = Role(i - L, n) /\ pieces'[i].id = Piece(N + 1, i - L)
    BY <1>4, <1>5, <1>6, <1>8, Zenon
  <1>10. cursor' \in DelSeq!SeqNum BY <1>1, <1>2, AddIs
  <1> QED BY <1>2, <1>7, <1>8, <1>9, <1>10 DEF Pushed

\* The pieces of the new payload, told from those under way.
LEMMA NewPieces ==
  ASSUME DelTypes, NEW n, Pushed(n), NEW i \in DOMAIN pieces'
  PROVE  \/ i \in DOMAIN pieces /\ i <= Len(pieces) /\ pieces'[i] = pieces[i]
         \/ /\ i > Len(pieces) /\ i - Len(pieces) \in 1 .. n
            /\ pieces'[i].seq = DelSeq!Add(cursor, i - Len(pieces) - 1)
            /\ pieces'[i].src = stamp /\ pieces'[i].role = Role(i - Len(pieces), n)
            /\ pieces'[i].id = Piece(Len(pushed) + 1, i - Len(pieces))
  <1>1. DOMAIN pieces = 1 .. Len(pieces) /\ Len(pieces) \in Nat BY DEF DelTypes
  <1>2. i \in Nat \ {0} BY DEF Pushed
  <1> QED BY <1>1, <1>2 DEF Pushed

LEMMA KnownStays ==
  ASSUME DelTypes, NEW n, Pushed(n), NEW a, KnownId(a)
  PROVE  /\ KnownId(a)' /\ pushed'[a.payload] = pushed[a.payload]
         /\ a.payload < Len(pushed) + 1 /\ a.payload \in Nat
  <1>1. DOMAIN pushed = 1 .. Len(pushed) /\ Len(pushed) \in Nat BY DEF DelTypes
  <1>2. a.payload \in DOMAIN pushed /\ a.part \in 1 .. pushed[a.payload] BY DEF KnownId
  <1>3. a.payload \in DOMAIN pushed' /\ pushed'[a.payload] = pushed[a.payload]
    BY <1>2 DEF Pushed
  <1>4. KnownId(a)' BY <1>2, <1>3 DEF KnownId
  <1> QED BY <1>1, <1>2, <1>3, <1>4

LEMMA PushSound ==
  ASSUME DelTypes, GivenSound, NEW n, Pushed(n), UNCHANGED <<given, delCase>>
  PROVE  GivenSound'
  <1> SUFFICES ASSUME NEW i \in DOMAIN given PROVE Sound(given[i])' BY DEF GivenSound
  <1>1. CASE \E p \in DOMAIN pushed : given[i] = Leading(p, pushed[p])
    BY <1>1 DEF Sound, Pushed
  <1>2. CASE delCase.carriage = "split" /\ \E a \in Ids : KnownId(a) /\ given[i] = <<a>>
    BY <1>2, KnownStays DEF Sound
  <1> QED BY <1>1, <1>2 DEF GivenSound, Sound

LEMMA PushInLine ==
  ASSUME DelTypes, InLine, NEW n, Pushed(n)
  PROVE  InLine'
  <1> DEFINE N == Len(pushed)
             L == Len(pieces)
  <1>1. /\ N \in Nat /\ L \in Nat /\ n \in Nat \ {0} /\ DOMAIN pushed = 1 .. N
        /\ DOMAIN pushed' = 1 .. N + 1 /\ DOMAIN pieces = 1 .. L /\ DOMAIN pieces' = 1 .. L + n
        /\ pushed'[N + 1] = n
    BY DEF DelTypes, Pushed
  <1>2. ASSUME NEW i \in DOMAIN pieces PROVE KnownId(pieces[i].id)
    BY DEF InLine, IsPiece
  <1>3. ASSUME NEW i \in DOMAIN pieces' PROVE IsPiece(pieces[i])'
    <2>1. CASE i \in DOMAIN pieces /\ pieces'[i] = pieces[i]
      BY <1>2, <2>1, KnownStays DEF InLine, IsPiece
    <2>2. CASE i - L \in 1 .. n /\ pieces'[i].role = Role(i - L, n)
               /\ pieces'[i].id = Piece(N + 1, i - L)
      BY <1>1, <2>2, PieceIs DEF IsPiece, KnownId
    <2> QED BY <2>1, <2>2, NewPieces
  <1>4. ASSUME NEW i \in DOMAIN pieces', NEW j \in DOMAIN pieces', i < j
        PROVE  Before(pieces[i].id, pieces[j].id)'
    <2>1. CASE j \in DOMAIN pieces /\ pieces'[j] = pieces[j]
      <3>1. i \in DOMAIN pieces /\ pieces'[i] = pieces[i] BY <1>1, <1>4, <2>1, NewPieces
      <3> QED BY <1>4, <2>1, <3>1 DEF InLine, Before
    <2>2. CASE j - L \in 1 .. n /\ pieces'[j].id = Piece(N + 1, j - L)
      <3>1. CASE i \in DOMAIN pieces /\ pieces'[i] = pieces[i]
        <4>1. pieces[i].id.payload < N + 1 BY <1>2, <3>1, KnownStays
        <4> QED BY <2>2, <3>1, <4>1, PieceIs DEF Before
      <3>2. CASE i - L \in 1 .. n /\ pieces'[i].id = Piece(N + 1, i - L)
        BY <1>1, <1>4, <2>2, <3>2, PieceIs DEF Before
      <3> QED BY <3>1, <3>2, NewPieces
    <2> QED BY <2>1, <2>2, NewPieces
  <1>5. ASSUME NEW i \in DOMAIN pieces', NEW j \in DOMAIN pieces', j = i + 1
        PROVE  Follows(pieces[i], pieces[j])'
    <2>1. CASE j \in DOMAIN pieces /\ pieces'[j] = pieces[j]
      <3>1. i \in DOMAIN pieces /\ pieces'[i] = pieces[i] BY <1>1, <1>5, <2>1, NewPieces
      <3>2. Follows(pieces[i], pieces[j]) BY <1>5, <2>1, <3>1 DEF InLine
      <3> QED BY <1>2, <2>1, <3>1, <3>2, KnownStays DEF Follows
    <2>2. CASE j > L /\ j - L \in 1 .. n /\ pieces'[j].src = stamp
               /\ pieces'[j].id = Piece(N + 1, j - L)
      <3>1. CASE i \in DOMAIN pieces /\ pieces'[i] = pieces[i]
        <4>1. i = L /\ pieces # <<>> /\ j - L = 1 BY <1>1, <1>5, <2>2, <3>1
        <4>2. pieces[i].id = Piece(N, pushed[N]) /\ N \in DOMAIN pushed
          BY <1>2, <3>1, <4>1, PieceIs DEF InLine, KnownId
        <4>3. pushed'[N] = pushed[N] /\ pushed[N] \in Nat BY <4>2 DEF Pushed, DelTypes
        <4> QED BY <1>1, <2>2, <3>1, <4>1, <4>2, <4>3, PieceIs DEF Follows
      <3>2. CASE i > L /\ i - L \in 1 .. n /\ pieces'[i].id = Piece(N + 1, i - L)
                 /\ pieces'[i].src = stamp
        <4>1. i - L < n /\ j - L = i - L + 1 BY <1>1, <1>5, <2>2, <3>2
        <4> QED BY <1>1, <2>2, <3>2, <4>1, PieceIs DEF Follows
      <3> QED BY <3>1, <3>2, NewPieces
    <2> QED BY <2>1, <2>2, NewPieces
  <1>6. pieces'[Len(pieces')].id = Piece(Len(pushed'), pushed'[Len(pushed')])
    <2>1. Len(pieces') = L + n /\ L + n \in DOMAIN pieces' /\ ~(L + n <= L) /\ L + n - L = n
      BY <1>1 DEF Pushed
    <2> DEFINE j == L + n
    <2>2. pieces'[j].id = Piece(N + 1, n)
      <3>1. j \in DOMAIN pieces' /\ ~(j <= L) /\ j - L = n BY <1>1, <2>1
      <3> HIDE DEF j
      <3> QED BY <3>1, NewPieces
    <2> QED BY <1>1, <2>1, <2>2 DEF Pushed
  <1> QED BY <1>3, <1>4, <1>5, <1>6 DEF InLine

LEMMA PushInOrder ==
  ASSUME DelTypes, GivenSound, InOrder, AllGiven, NEW n, Pushed(n), UNCHANGED <<given, handed>>
  PROVE  InOrder' /\ AllGiven'
  <1> DEFINE N == Len(pushed)
             L == Len(pieces)
  <1>1. /\ N \in Nat /\ n \in Nat \ {0} /\ DOMAIN pushed = 1 .. N
        /\ DOMAIN pushed' = 1 .. N + 1 /\ pushed'[N + 1] = n
    BY DEF DelTypes, Pushed
  <1>2. ASSUME NEW a, KnownId(a), NEW i \in DOMAIN pieces',
               i \in DOMAIN pieces => Before(a, pieces[i].id)
        PROVE  Before(a, pieces'[i].id)
    <2>1. CASE i \in DOMAIN pieces /\ pieces'[i] = pieces[i] BY <1>2, <2>1
    <2>2. CASE pieces'[i].id = Piece(N + 1, i - L)
      <3>1. a.payload < N + 1 BY <1>2, KnownStays
      <3> QED BY <2>2, <3>1, PieceIs DEF Before
    <2> QED BY <2>1, <2>2, NewPieces
  <1>3. \A a \in handed : KnownId(a)' BY KnownStays DEF InOrder
  <1>4. \A a \in handed, i \in DOMAIN pieces' : Before(a, pieces'[i].id)
    BY <1>2 DEF InOrder
  <1>5. ASSUME NEW j \in DOMAIN given, NEW i \in DOMAIN pieces'
        PROVE  Before(given[j][Len(given[j])], pieces'[i].id)
    <2>1. KnownId(given[j][Len(given[j])]) BY GivenIds DEF Fin
    <2> QED BY <1>2, <2>1 DEF InOrder
  <1>6. InOrder' BY <1>3, <1>4, <1>5 DEF InOrder, Before
  <1>7. ASSUME NEW p \in DOMAIN pushed', PiecesOf(p)' \subseteq handed
        PROVE  \E i \in DOMAIN given : given[i] = WholeOf(p)'
    <2>1. CASE p = N + 1
      <3>1. Piece(N + 1, 1) \in PiecesOf(p)' BY <1>1, <2>1 DEF PiecesOf
      <3>2. KnownId(Piece(N + 1, 1)) BY <1>7, <3>1 DEF InOrder
      <3> QED BY <1>1, <3>2, PieceIs DEF KnownId
    <2>2. CASE p \in DOMAIN pushed
      <3>1. pushed'[p] = pushed[p] BY <2>2 DEF Pushed
      <3> QED BY <1>7, <2>2, <3>1 DEF AllGiven, PiecesOf, WholeOf
    <2> QED BY <1>1, <2>1, <2>2
  <1> QED BY <1>6, <1>7 DEF AllGiven

LEMMA PushBefore ==
  ASSUME DelTypes, NEW n, Pushed(n), NEW a, KnownId(a),
         \A i \in DOMAIN pieces : Before(a, pieces[i].id)
  PROVE  \A i \in DOMAIN pieces' : Before(a, pieces'[i].id)
  <1> SUFFICES ASSUME NEW i \in DOMAIN pieces' PROVE Before(a, pieces'[i].id) OBVIOUS
  <1>1. CASE i \in DOMAIN pieces /\ pieces'[i] = pieces[i] BY <1>1
  <1>2. CASE pieces'[i].id = Piece(Len(pushed) + 1, i - Len(pieces))
    <2>1. a.payload < Len(pushed) + 1 BY KnownStays
    <2> QED BY <1>2, <2>1, PieceIs DEF Before
  <1> QED BY <1>1, <1>2, NewPieces

LEMMA PushFirst ==
  ASSUME DelTypes, NEW n, Pushed(n)
  PROVE  /\ pieces # <<>> => 1 \in DOMAIN pieces /\ pieces'[1] = pieces[1]
         /\ pieces = <<>> => pieces'[1].id.part = 1
         /\ pieces' # <<>>
  <1>1. Len(pieces') = Len(pieces) + n /\ n \in Nat \ {0} /\ Len(pieces) \in Nat
        /\ DOMAIN pieces' = 1 .. Len(pieces')
    BY DEF DelTypes, Pushed
  <1>2. 1 \in DOMAIN pieces' /\ pieces' # <<>> BY <1>1
  <1>3. pieces # <<>> => 1 \in DOMAIN pieces BY DEF DelTypes
  <1>4. pieces = <<>> => pieces'[1].id = Piece(Len(pushed) + 1, 1)
    <2>1. pieces = <<>> => 1 \notin DOMAIN pieces /\ 1 - Len(pieces) = 1 OBVIOUS
    <2> QED BY <1>2, <2>1 DEF Pushed
  <1> QED BY <1>2, <1>3, <1>4, PieceIs DEF Pushed

LEMMA PushHalves ==
  ASSUME DelTypes, GivenSound, InLine, Halves, Pushed(2),
         UNCHANGED <<delCase, broken, merger, handed, given>>
  PROVE  Halves'
  <1> DEFINE N == Len(pushed)
             L == Len(pieces)
  <1>1. /\ N \in Nat /\ L \in Nat /\ DOMAIN pushed = 1 .. N
        /\ DOMAIN pushed' = 1 .. N + 1 /\ DOMAIN pieces = 1 .. L /\ DOMAIN pieces' = 1 .. L + 2
        /\ pushed'[N + 1] = 2 /\ cursor \in DelSeq!SeqNum
    BY DEF DelTypes, Pushed
  <1>2. /\ DelSeq!Add(cursor, 0) = cursor /\ cursor % 2 = 0 /\ cursor' % 2 = 0
        /\ DelSeq!Add(cursor, 1) % 2 = 1
    BY <1>1, EvenAdd DEF Halves, Pushed
  <1>3. \A p \in DOMAIN pushed' : pushed'[p] = 2
    <2>1. \A p \in DOMAIN pushed : pushed'[p] = 2 BY DEF Halves, Pushed
    <2> QED BY <1>1, <2>1
  <1>4. ASSUME NEW i \in DOMAIN pieces'
        PROVE  pieces'[i].seq % 2 = pieces'[i].id.part - 1
    <2>1. CASE i \in DOMAIN pieces /\ pieces'[i] = pieces[i] BY <2>1 DEF Halves
    <2>2. CASE i - L \in 1 .. 2 /\ pieces'[i].seq = DelSeq!Add(cursor, i - L - 1)
               /\ pieces'[i].id = Piece(N + 1, i - L)
      <3>1. pieces'[i].id.part = i - L BY <2>2, PieceIs
      <3>2. CASE i - L = 1 BY <1>2, <2>2, <3>1, <3>2
      <3>3. CASE i - L = 2 BY <1>2, <2>2, <3>1, <3>3
      <3> QED BY <2>2, <3>2, <3>3
    <2> QED BY <2>1, <2>2, NewPieces
  <1>5. ASSUME NEW i \in DOMAIN pieces', NEW j \in DOMAIN pieces', j = i + 1,
               pieces'[i].id.part = 1
        PROVE  pieces'[j].seq = DelSeq!Add(pieces'[i].seq, 1)
    <2>1. CASE j \in DOMAIN pieces /\ pieces'[j] = pieces[j]
      <3>1. i \in DOMAIN pieces /\ pieces'[i] = pieces[i] BY <1>1, <1>5, <2>1, NewPieces
      <3> QED BY <1>5, <2>1, <3>1 DEF Halves
    <2>2. CASE j > L /\ j - L \in 1 .. 2 /\ pieces'[j].seq = DelSeq!Add(cursor, j - L - 1)
      <3>1. CASE i \in DOMAIN pieces /\ pieces'[i] = pieces[i]
        <4>1. i = L /\ pieces # <<>> BY <1>1, <1>5, <2>2, <3>1
        <4>2. pieces[i].id = Piece(N, pushed[N]) /\ N \in DOMAIN pushed
          BY <3>1, <4>1, PieceIs DEF InLine, KnownId, IsPiece
        <4> QED BY <1>5, <3>1, <4>2, PieceIs DEF Halves
      <3>2. CASE i > L /\ i - L \in 1 .. 2 /\ pieces'[i].seq = DelSeq!Add(cursor, i - L - 1)
        <4>1. i - L = 1 /\ j - L = 2 BY <1>1, <1>5, <2>2, <3>2
        <4> QED BY <1>2, <2>2, <3>2, <4>1
      <3> QED BY <3>1, <3>2, NewPieces
    <2> QED BY <2>1, <2>2, NewPieces
  <1>6. ASSUME merger.held # Unheld
        PROVE  /\ MergeActive' /\ IsPiece(merger.held)'
               /\ merger.held.id.part = 1 /\ merger.held.seq % 2 = 0
               /\ \A i \in DOMAIN pieces' : Before(merger.held.id, pieces'[i].id)
               /\ \A j \in DOMAIN given : Before(given[j][Len(given[j])], merger.held.id)
               /\ ~broken => /\ pieces' # <<>> /\ Follows(merger.held, pieces[1])'
                             /\ pieces'[1].seq = DelSeq!Add(merger.held.seq, 1)
    <2>1. IsPiece(merger.held) /\ KnownId(merger.held.id) BY <1>6 DEF Halves, IsPiece
    <2>2. IsPiece(merger.held)' BY <2>1, KnownStays DEF IsPiece
    <2>3. \A i \in DOMAIN pieces' : Before(merger.held.id, pieces'[i].id)
      BY <1>6, <2>1, PushBefore DEF Halves
    <2>4. ASSUME ~broken
          PROVE  /\ pieces' # <<>> /\ Follows(merger.held, pieces[1])'
                 /\ pieces'[1].seq = DelSeq!Add(merger.held.seq, 1)
      <3>1. /\ pieces # <<>> /\ Follows(merger.held, pieces[1])
            /\ pieces[1].seq = DelSeq!Add(merger.held.seq, 1)
        BY <1>6, <2>4 DEF Halves
      <3>2. pieces' # <<>> /\ pieces'[1] = pieces[1] BY <3>1, PushFirst
      <3> QED BY <2>1, <3>1, <3>2, KnownStays DEF Follows
    <2> QED BY <1>6, <2>2, <2>3, <2>4 DEF Halves, MergeActive
  <1>7. ASSUME pieces' # <<>>, pieces'[1].id.part = 2,
               Piece(pieces'[1].id.payload, 1) \in handed
        PROVE  ~broken /\ merger.held # Unheld
               /\ merger.held.id = Piece(pieces'[1].id.payload, 1)
    BY <1>7, PushFirst DEF Halves
  <1> QED BY <1>2, <1>3, <1>4, <1>5, <1>6, <1>7 DEF Halves

LEMMA PushFragments ==
  ASSUME DelTypes, Fragments, NEW n, Pushed(n), n <= MaxFragments,
         UNCHANGED <<broken, reasm, handed>>
  PROVE  Fragments'
  <1>1. DOMAIN pushed' = 1 .. Len(pushed) + 1 /\ DOMAIN pushed = 1 .. Len(pushed)
        /\ pushed'[Len(pushed) + 1] = n /\ Len(pushed) \in Nat
    BY DEF DelTypes, Pushed
  <1>2. \A p \in DOMAIN pushed' : pushed'[p] <= MaxFragments
    <2>1. \A p \in DOMAIN pushed : pushed'[p] <= MaxFragments BY DEF Fragments, Pushed
    <2> QED BY <1>1, <2>1
  <1>3. ASSUME NEW p, NEW c, Opened(p, c) PROVE Opened(p, c)'
    BY <1>3 DEF Opened, Pushed
  <1>4. ASSUME reasm.active
        PROVE  \E p, c \in Nat :
                 /\ Opened(p, c)' /\ \A i \in DOMAIN pieces' : Before(Piece(p, c), pieces'[i].id)
                 /\ ~broken => pieces' # <<>> /\ pieces'[1].id = Piece(p, c + 1)
    <2>1. PICK p \in Nat, c \in Nat :
            /\ Opened(p, c) /\ \A i \in DOMAIN pieces : Before(Piece(p, c), pieces[i].id)
            /\ ~broken => pieces # <<>> /\ pieces[1].id = Piece(p, c + 1)
      BY <1>4 DEF Fragments
    <2>2. KnownId(Piece(p, c))
      BY <2>1, PieceIs DEF Opened, KnownId, DelTypes
    <2>3. \A i \in DOMAIN pieces' : Before(Piece(p, c), pieces'[i].id)
      BY <2>1, <2>2, PushBefore
    <2> QED BY <1>3, <2>1, <2>3, PushFirst
  <1>5. ASSUME pieces' # <<>>, pieces'[1].id.part > 1,
               \A k \in 1 .. pieces'[1].id.part - 1 : Piece(pieces'[1].id.payload, k) \in handed
        PROVE  ~broken /\ reasm.active
               /\ Opened(pieces[1].id.payload, pieces[1].id.part - 1)'
    <2>1. pieces # <<>> /\ pieces'[1] = pieces[1] BY <1>5, PushFirst
    <2>2. ~broken /\ reasm.active /\ Opened(pieces[1].id.payload, pieces[1].id.part - 1)
      BY <1>5, <2>1 DEF Fragments
    <2> DEFINE p == pieces[1].id.payload
               c == pieces[1].id.part - 1
    <2>3. Opened(p, c)' BY <2>1, <2>2 DEF Opened, Pushed
    <2> QED BY <2>1, <2>2, <2>3
  <1> QED BY <1>2, <1>4, <1>5 DEF Fragments

LEMMA OneMore ==
  ASSUME NEW a \in Nat, NEW b \in Nat, NEW n \in Nat, NEW m \in Nat, a <= b * m, n <= m
  PROVE  a + n <= (b + 1) * m
  <1>1. (b + 1) * m = b * m + m OBVIOUS
  <1>2. b * m \in Nat OBVIOUS
  <1> QED BY <1>1, <1>2

LEMMA PushControl ==
  ASSUME DelTypes, Control, NEW n, Pushed(n), n <= MaxFragments, Len(pushed) < DelPayloads,
         UNCHANGED reasm
  PROVE  Control'
  <1> DEFINE N == Len(pushed)
             L == Len(pieces)
  <1>1. /\ N \in Nat /\ n \in Nat \ {0} /\ DOMAIN pushed = 1 .. N
        /\ DOMAIN pushed' = 1 .. N + 1 /\ pushed'[N + 1] = n /\ Len(pushed') = N + 1
        /\ cursor \in DelSeq!SeqNum /\ \A p \in DOMAIN pushed : pushed[p] \in Nat
        /\ MaxFragments \in Nat /\ DelPayloads \in Nat /\ DelStart \in DelSeq!SeqNum
    BY DeliveryAssumption DEF DelTypes, Pushed
  <1>2. PICK o \in [1 .. N + 1 -> Nat] : Offsets(o) /\ Numbered(o) BY DEF Control
  <1>3. PICK w \in [1 .. N + 2 -> Nat] :
          w[N + 2] = o[N + 1] + n /\ \A p \in 1 .. N + 1 : w[p] = o[p]
    <2> DEFINE z == [p \in 1 .. N + 2 |-> IF p = N + 2 THEN o[N + 1] + n ELSE o[p]]
    <2>1. /\ z \in [1 .. N + 2 -> Nat] /\ z[N + 2] = o[N + 1] + n
          /\ \A p \in 1 .. N + 1 : z[p] = o[p]
      BY <1>1
    <2> HIDE DEF z
    <2> QED BY <2>1
  <1>4. \A p \in DOMAIN pushed' : pushed'[p] <= MaxFragments
    <2>1. \A p \in DOMAIN pushed : pushed'[p] <= MaxFragments BY DEF Control, Pushed
    <2> QED BY <1>1, <2>1
  <1>5. ASSUME NEW i \in DOMAIN pieces' PROVE IsPiece(pieces[i])'
    <2>1. CASE i \in DOMAIN pieces /\ pieces'[i] = pieces[i]
      <3>1. IsPiece(pieces[i]) /\ KnownId(pieces[i].id) BY <2>1 DEF Control, IsPiece
      <3> QED BY <2>1, <3>1, KnownStays DEF IsPiece
    <2>2. CASE i - L \in 1 .. n /\ pieces'[i].role = Role(i - L, n)
               /\ pieces'[i].id = Piece(N + 1, i - L)
      BY <1>1, <2>2, PieceIs DEF IsPiece, KnownId
    <2> QED BY <2>1, <2>2, NewPieces
  <1>6. Offsets(w)'
    <2>1. w \in [1 .. Len(pushed') + 1 -> Nat] BY <1>1, <1>3
    <2>2. ASSUME NEW p \in DOMAIN pushed' PROVE w[p + 1] = w[p] + pushed'[p]
      <3>1. CASE p = N + 1 BY <1>1, <1>3, <3>1
      <3>2. CASE p \in 1 .. N
        <4>1. o[p + 1] = o[p] + pushed[p] BY <1>1, <1>2, <3>2 DEF Offsets
        <4>2. p + 1 \in 1 .. N + 1 /\ p \in 1 .. N + 1 BY <1>1, <3>2
        <4>3. pushed'[p] = pushed[p] BY <1>1, <3>2 DEF Pushed
        <4> QED BY <1>3, <4>1, <4>2, <4>3
      <3> QED BY <1>1, <3>1, <3>2
    <2>3. ASSUME NEW p \in 1 .. N + 2 PROVE w[p] <= (p - 1) * MaxFragments
      <3>1. CASE p = N + 2
        <4>1. o[N + 1] <= (N + 1 - 1) * MaxFragments /\ N + 1 \in 1 .. N + 1
          BY <1>1, <1>2 DEF Offsets
        <4>2. N + 1 - 1 = N /\ p - 1 = N + 1 BY <1>1, <3>1
        <4>3. o[N + 1] \in Nat BY <4>1
        <4>4. o[N + 1] + n <= (N + 1) * MaxFragments BY <1>1, <4>1, <4>2, <4>3, OneMore
        <4> QED BY <1>3, <3>1, <4>2, <4>4
      <3>2. CASE p \in 1 .. N + 1 BY <1>2, <1>3, <3>2 DEF Offsets
      <3> QED BY <1>1, <3>1, <3>2
    <2>4. ASSUME NEW p \in 1 .. N + 2, NEW q \in 1 .. N + 2, p <= q PROVE w[p] <= w[q]
      <3>1. CASE q \in 1 .. N + 1
        <4>1. p \in 1 .. N + 1 BY <1>1, <2>4, <3>1
        <4> QED BY <1>2, <1>3, <2>4, <3>1, <4>1 DEF Offsets
      <3>2. CASE q = N + 2 /\ p \in 1 .. N + 1
        <4>1. o[p] <= o[N + 1] /\ N + 1 \in 1 .. N + 1 /\ p <= N + 1
          BY <1>1, <1>2, <3>2 DEF Offsets
        <4> QED BY <1>1, <1>3, <3>2, <4>1
      <3>3. CASE q = N + 2 /\ p = N + 2 BY <1>1, <1>3, <3>3
      <3> QED BY <1>1, <3>1, <3>2, <3>3
    <2>5. DOMAIN w = 1 .. N + 2 BY <1>3
    <2> QED BY <2>1, <2>2, <2>3, <2>4, <2>5 DEF Offsets
  <1>7. Numbered(w)'
    <2>1. cursor = DelSeq!Add(DelStart, o[N + 1]) /\ o[N + 1] \in Nat
      BY <1>1, <1>2 DEF Numbered
    <2>2. cursor' = DelSeq!Add(DelStart, w[N + 2])
      <3> DEFINE x == o[N + 1]
      <3>1. x \in Nat /\ cursor = DelSeq!Add(DelStart, x) /\ w[N + 2] = x + n
        BY <1>3, <2>1
      <3> HIDE DEF x
      <3>2. DelSeq!Add(DelSeq!Add(DelStart, x), n) = DelSeq!Add(DelStart, x + n)
        BY <1>1, <3>1, AddAdd
      <3> QED BY <3>1, <3>2 DEF Pushed
    <2>3. ASSUME NEW i \in DOMAIN pieces'
          PROVE  pieces'[i].seq
                   = DelSeq!Add(DelStart, w[pieces'[i].id.payload] + (pieces'[i].id.part - 1))
      <3>1. CASE i \in DOMAIN pieces /\ pieces'[i] = pieces[i]
        <4>1. pieces[i].id.payload \in 1 .. N BY <1>1, <3>1 DEF Control, IsPiece, KnownId
        <4>2. w[pieces[i].id.payload] = o[pieces[i].id.payload] BY <1>1, <1>3, <4>1
        <4> QED BY <1>2, <3>1, <4>2 DEF Numbered
      <3>2. CASE i - L \in 1 .. n /\ pieces'[i].seq = DelSeq!Add(cursor, i - L - 1)
                 /\ pieces'[i].id = Piece(N + 1, i - L)
        <4> DEFINE k == i - L
        <4>1. k \in 1 .. n /\ pieces'[i].seq = DelSeq!Add(cursor, k - 1)
              /\ pieces'[i].id.payload = N + 1 /\ pieces'[i].id.part = k
          BY <3>2, PieceIs
        <4> HIDE DEF k
        <4>2. k - 1 \in Nat BY <4>1
        <4>3. pieces'[i].seq = DelSeq!Add(DelStart, o[N + 1] + (k - 1))
          BY <1>1, <2>1, <4>1, <4>2, AddAdd
        <4> QED BY <1>1, <1>3, <4>1, <4>3
      <3> QED BY <3>1, <3>2, NewPieces
    <2>4. ASSUME reasm.active
          PROVE  \E p, c \in Nat :
                   /\ Opened(p, c)' /\ reasm.last # Unheld
                   /\ reasm.last.seq = DelSeq!Add(DelStart, w[p] + (c - 1))
      <3>1. PICK p \in Nat, c \in Nat :
              /\ Opened(p, c) /\ reasm.last # Unheld
              /\ reasm.last.seq = DelSeq!Add(DelStart, o[p] + (c - 1))
        BY <1>2, <2>4 DEF Numbered
      <3>2. p \in 1 .. N /\ w[p] = o[p] BY <1>1, <1>3, <3>1 DEF Opened
      <3>3. Opened(p, c)' BY <3>1 DEF Opened, Pushed
      <3> QED BY <3>1, <3>2, <3>3
    <2>5. w[Len(pushed') + 1] = w[N + 2] BY <1>1
    <2> QED BY <2>2, <2>3, <2>4, <2>5 DEF Numbered
  <1>8. w \in [1 .. Len(pushed') + 1 -> Nat] BY <1>1, <1>3
  <1> QED BY <1>1, <1>4, <1>5, <1>6, <1>7, <1>8 DEF Control

LEMMA PushKeeps ==
  ASSUME EvenPairs, DelInv, PushPayload
  PROVE  DelInv'
  <1>1. /\ DelTypes /\ GivenSound /\ delCase \in DelCases /\ delCase \in DelCase
        /\ MaxFragments \in Nat \ {0, 1}
        /\ UNCHANGED <<delCase, stamp, broken, merger, reasm, handed, given>>
        /\ Len(pushed) < DelPayloads
    BY DeliveryAssumption DEF DelInv, DelTypes, PushPayload
  <1>2. PICK n \in Nat \ {0} :
          /\ Cut(n)
          /\ delCase.carriage = "split" => n = 2
          /\ delCase.carriage # "split" => n <= MaxFragments
    <2>1. CASE delCase.carriage = "split"
      <3>1. PICK size \in 1 .. 2 : Cut(Parts(size))
        BY <1>1, <2>1 DEF PushPayload, EvenPairs
      <3>2. Parts(size) = 2 BY <3>1 DEF Parts
      <3> QED BY <2>1, <3>1, <3>2
    <2>2. CASE delCase.carriage # "split"
      <3>1. delCase.carriage \in {"fragment", "control"} BY <1>1, <2>2 DEF DelCase
      <3>2. \E n \in 1 .. MaxFragments : Cut(n)
        <4>1. CASE delCase.carriage = "fragment" BY <4>1 DEF PushPayload
        <4>2. CASE delCase.carriage = "control"
          <5>1. \E n \in 2 .. MaxFragments : Cut(n) BY <4>2 DEF PushPayload
          <5> QED BY <1>1, <5>1
        <4> QED BY <3>1, <4>1, <4>2
      <3> QED BY <1>1, <2>2, <3>2
    <2> QED BY <2>1, <2>2
  <1>3. Pushed(n) BY <1>1, <1>2, CutIs
  <1>4. DelTypes' BY <1>1, <1>3 DEF DelTypes, Pushed
  <1>5. GivenSound' BY <1>1, <1>3, PushSound
  <1>6. delCase.carriage # "control" => InLine' /\ InOrder' /\ AllGiven'
    BY <1>1, <1>3, PushInLine, PushInOrder DEF DelInv
  <1>7. delCase.carriage = "split" => Halves'
    BY <1>1, <1>2, <1>3, PushHalves DEF DelInv
  <1>8. delCase.carriage = "fragment" => Fragments'
    BY <1>1, <1>2, <1>3, PushFragments DEF DelInv
  <1>9. delCase.carriage = "control" => Control'
    BY <1>1, <1>2, <1>3, PushControl DEF DelInv
  <1> QED BY <1>1, <1>4, <1>5, <1>6, <1>7, <1>8, <1>9 DEF DelInv

-----------------------------------------------------------------------------
(* The flow hands the first piece over, or gives it up                      *)

LEMMA TailIs ==
  ASSUME DelTypes, pieces # <<>>, pieces' = Tail(pieces)
  PROVE  /\ pieces' \in Seq(PieceRec) /\ 1 \in DOMAIN pieces /\ Head(pieces) = pieces[1]
         /\ pieces[1] \in PieceRec /\ pieces[1].id \in Ids
         /\ \A i \in DOMAIN pieces' :
              /\ i + 1 \in DOMAIN pieces /\ 1 < i + 1 /\ pieces'[i] = pieces[i + 1]
              /\ pieces'[i].id \in Ids
         /\ pieces' # <<>> => 1 \in DOMAIN pieces' /\ 2 \in DOMAIN pieces /\ pieces'[1] = pieces[2]
  <1>1. pieces \in Seq(PieceRec) BY DEF DelTypes
  <1>2. /\ pieces' \in Seq(PieceRec) /\ Head(pieces) = pieces[1] /\ 1 \in DOMAIN pieces
        /\ \A i \in DOMAIN pieces' : i + 1 \in DOMAIN pieces /\ i + 1 > 1 /\ pieces'[i] = pieces[i + 1]
    BY <1>1, Shifted
  <1>3. \A i \in DOMAIN pieces' : i \in Nat BY <1>2
  <1>4. \A d \in PieceRec : d.id \in Ids BY DEF PieceRec
  <1>5. \A i \in DOMAIN pieces : pieces[i] \in PieceRec BY <1>1
  <1>6. pieces' # <<>> => 1 \in DOMAIN pieces' BY <1>2
  <1>7. 1 + 1 = 2 OBVIOUS
  <1> QED BY <1>2, <1>3, <1>4, <1>5, <1>6, <1>7

LEMMA TailInLine ==
  ASSUME DelTypes, InLine, pieces # <<>>, pieces' = Tail(pieces), UNCHANGED pushed
  PROVE  InLine'
  <1>1. /\ \A i \in DOMAIN pieces' : i + 1 \in DOMAIN pieces /\ pieces'[i] = pieces[i + 1]
        /\ \A i \in DOMAIN pieces' : i \in Nat
        /\ Len(pieces') = Len(pieces) - 1 /\ Len(pieces) \in Nat
        /\ DOMAIN pieces' = 1 .. Len(pieces) - 1 /\ DOMAIN pieces = 1 .. Len(pieces)
    BY Shifted DEF DelTypes
  <1>2. \A i \in DOMAIN pieces' : IsPiece(pieces[i])'
    BY <1>1 DEF InLine, IsPiece, KnownId
  <1>3. ASSUME NEW i \in DOMAIN pieces', NEW j \in DOMAIN pieces', i < j
        PROVE  Before(pieces[i].id, pieces[j].id)'
    BY <1>1, <1>3 DEF InLine, Before
  <1>4. ASSUME NEW i \in DOMAIN pieces', i + 1 \in DOMAIN pieces'
        PROVE  Follows(pieces[i], pieces[i + 1])'
    <2>1. /\ i + 1 \in DOMAIN pieces /\ pieces'[i] = pieces[i + 1] /\ (i + 1) + 1 \in DOMAIN pieces
          /\ pieces'[i + 1] = pieces[(i + 1) + 1]
      BY <1>1, <1>4
    <2>2. Follows(pieces[i + 1], pieces[(i + 1) + 1]) BY <2>1 DEF InLine
    <2> QED BY <2>1, <2>2 DEF Follows
  <1>5. ASSUME pieces' # <<>>
        PROVE  pieces'[Len(pieces')].id = Piece(Len(pushed), pushed[Len(pushed)])
    <2>1. Len(pieces') \in DOMAIN pieces' /\ Len(pieces') + 1 = Len(pieces)
      BY <1>1, <1>5
    <2>2. pieces'[Len(pieces')] = pieces[Len(pieces)] BY <1>1, <2>1
    <2> QED BY <2>2 DEF InLine
  <1> QED BY <1>2, <1>3, <1>4, <1>5 DEF InLine

\* The piece behind the first, and those behind it.
LEMMA Behind ==
  ASSUME DelTypes, InLine, pieces # <<>>, pieces' = Tail(pieces)
  PROVE  /\ KnownId(pieces[1].id) /\ IsPiece(pieces[1])
         /\ \A i \in DOMAIN pieces' : Before(pieces[1].id, pieces'[i].id)
         /\ pieces' # <<>> => Follows(pieces[1], pieces'[1])
         /\ pieces[1].id.part < pushed[pieces[1].id.payload] => pieces' # <<>>
  <1>1. /\ 1 \in DOMAIN pieces /\ pieces[1].id \in Ids
        /\ \A i \in DOMAIN pieces' : i + 1 \in DOMAIN pieces /\ 1 < i + 1 /\ pieces'[i] = pieces[i + 1]
        /\ pieces' # <<>> => 1 \in DOMAIN pieces' /\ 2 \in DOMAIN pieces /\ pieces'[1] = pieces[2]
    BY TailIs
  <1>2. 1 + 1 = 2 OBVIOUS
  <1>3. pieces' # <<>> => Follows(pieces[1], pieces'[1]) BY <1>1, <1>2 DEF InLine
  <1>4. ASSUME pieces' = <<>>
        PROVE  ~(pieces[1].id.part < pushed[pieces[1].id.payload])
    <2>1. Len(pieces) = 1
      <3> DEFINE l == Len(pieces)
                 t == Len(Tail(pieces))
      <3>1. t = l - 1 /\ l \in Nat BY Shifted DEF DelTypes
      <3>2. t = 0
        <4>1. Tail(pieces) = <<>> BY <1>4
        <4>2. Len(<<>>) = 0 OBVIOUS
        <4> QED BY <4>1, <4>2
      <3> HIDE DEF l, t
      <3>3. l = 1 BY <3>1, <3>2
      <3> QED BY <3>3 DEF l
    <2>2. pieces[1].id = Piece(Len(pushed), pushed[Len(pushed)]) BY <2>1 DEF InLine
    <2>3. Len(pushed) \in DOMAIN pushed
      BY <1>1, <2>2, PieceIs DEF InLine, IsPiece, KnownId
    <2>4. pushed[Len(pushed)] \in Nat BY <2>3 DEF DelTypes
    <2> QED BY <2>2, <2>4, PieceIs
  <1>5. \A i \in DOMAIN pieces' : Before(pieces[1].id, pieces'[i].id) BY <1>1 DEF InLine
  <1> QED BY <1>1, <1>3, <1>4, <1>5 DEF InLine, IsPiece

\* What the application gets after d was handed over.
LEMMA GivenGrows ==
  ASSUME DelTypes, GivenSound, UNCHANGED <<pushed, delCase>>,
         NEW out \in Seq(Seq(Ids)), given' = given \o out,
         \A k \in DOMAIN out : Sound(out[k])
  PROVE  /\ given' \in Seq(Seq(Ids)) /\ GivenSound'
         /\ \A j \in DOMAIN given : j \in DOMAIN given' /\ given'[j] = given[j]
         /\ \A k \in DOMAIN out : k + Len(given) \in DOMAIN given' /\ given'[k + Len(given)] = out[k]
         /\ \A j \in DOMAIN given' :
              \/ j \in DOMAIN given /\ given'[j] = given[j]
              \/ j > Len(given) /\ j - Len(given) \in DOMAIN out /\ given'[j] = out[j - Len(given)]
  <1>1. /\ given \in Seq(Seq(Ids)) /\ given' \in Seq(Seq(Ids))
        /\ \A j \in DOMAIN given : j \in DOMAIN given' /\ given'[j] = given[j]
        /\ \A k \in DOMAIN out : k + Len(given) \in DOMAIN given' /\ given'[k + Len(given)] = out[k]
        /\ \A j \in DOMAIN given' :
             \/ j \in DOMAIN given /\ given'[j] = given[j]
             \/ j \notin DOMAIN given /\ j - Len(given) \in DOMAIN out /\ given'[j] = out[j - Len(given)]
    <2> DEFINE g == given
               h == g \o out
    <2>1. g \in Seq(Seq(Ids)) BY DEF DelTypes
    <2>2. /\ h \in Seq(Seq(Ids))
          /\ \A j \in DOMAIN h :
               \/ j \in DOMAIN g /\ h[j] = g[j]
               \/ j \notin DOMAIN g /\ j - Len(g) \in DOMAIN out /\ h[j] = out[j - Len(g)]
          /\ \A j \in DOMAIN g : j \in DOMAIN h /\ h[j] = g[j]
          /\ \A k \in DOMAIN out : k + Len(g) \in DOMAIN h /\ h[k + Len(g)] = out[k]
      BY <2>1, Grown
    <2>3. given' = h OBVIOUS
    <2> HIDE DEF h
    <2> QED BY <2>1, <2>2, <2>3
  <1>2. \A j \in DOMAIN given' : j \notin DOMAIN given => j > Len(given) BY <1>1
  <1>3. ASSUME NEW g, Sound(g) PROVE Sound(g)' BY <1>3 DEF Sound, KnownId
  <1>4. \A j \in DOMAIN given' : Sound(given'[j]) BY <1>1 DEF GivenSound
  <1>5. ASSUME NEW j \in DOMAIN given' PROVE Sound(given[j])'
    BY <1>4 DEF Sound, KnownId
  <1> QED BY <1>1, <1>2, <1>5 DEF GivenSound

\* The pieces that came through, and what was given, stay before what is to come.
LEMMA OrderGrows ==
  ASSUME DelTypes, GivenSound, InLine, InOrder, pieces # <<>>, pieces' = Tail(pieces),
         UNCHANGED <<pushed, delCase>>,
         NEW out \in Seq(Seq(Ids)), given' = given \o out,
         \A k \in DOMAIN out : /\ Sound(out[k])
                               /\ Fin(out[k]) \in {pieces[1].id, merger.held.id}
                               /\ \A j \in DOMAIN given : Before(Fin(given[j]), out[k][1]),
         \A k, l \in DOMAIN out : k < l => Before(Fin(out[k]), out[l][1]),
         (\E k \in DOMAIN out : Fin(out[k]) # pieces[1].id) =>
            \A i \in DOMAIN pieces : Before(merger.held.id, pieces[i].id),
         handed' \in {handed, handed \cup {pieces[1].id}}
  PROVE  InOrder'
  <1>1. /\ KnownId(pieces[1].id) /\ \A i \in DOMAIN pieces' : Before(pieces[1].id, pieces'[i].id)
        /\ \A i \in DOMAIN pieces' : i + 1 \in DOMAIN pieces /\ pieces'[i] = pieces[i + 1]
    BY Behind, TailIs
  <1>2. /\ \A j \in DOMAIN given : j \in DOMAIN given' /\ given'[j] = given[j]
        /\ \A j \in DOMAIN given' :
             \/ j \in DOMAIN given /\ given'[j] = given[j]
             \/ j > Len(given) /\ j - Len(given) \in DOMAIN out /\ given'[j] = out[j - Len(given)]
        /\ DOMAIN given = 1 .. Len(given) /\ Len(given) \in Nat
        /\ \A j \in DOMAIN given' : j \in Nat
    <2>1. /\ given' \in Seq(Seq(Ids))
          /\ \A j \in DOMAIN given : j \in DOMAIN given' /\ given'[j] = given[j]
          /\ \A j \in DOMAIN given' :
               \/ j \in DOMAIN given /\ given'[j] = given[j]
               \/ j > Len(given) /\ j - Len(given) \in DOMAIN out /\ given'[j] = out[j - Len(given)]
      BY GivenGrows
    <2>2. given \in Seq(Seq(Ids)) BY DEF DelTypes
    <2>3. /\ DOMAIN given = 1 .. Len(given) /\ Len(given) \in Nat
          /\ \A j \in DOMAIN given' : j \in Nat
      BY <2>1, <2>2
    <2> QED BY <2>1, <2>3
  <1>3. \A a \in handed' : KnownId(a)' BY <1>1 DEF InOrder, KnownId
  <1>4. \A a \in handed', i \in DOMAIN pieces' : Before(a, pieces'[i].id) BY <1>1 DEF InOrder
  <1>5. ASSUME NEW j \in DOMAIN given', NEW i \in DOMAIN pieces'
        PROVE  Before(Fin(given'[j]), pieces'[i].id)
    <2>1. CASE j \in DOMAIN given /\ given'[j] = given[j] BY <1>1, <2>1 DEF InOrder, Fin
    <2>2. CASE j - Len(given) \in DOMAIN out /\ given'[j] = out[j - Len(given)]
      BY <1>1, <2>2
    <2> QED BY <1>2, <2>1, <2>2
  <1>6. ASSUME NEW i \in DOMAIN given', NEW j \in DOMAIN given', i < j
        PROVE  Before(Fin(given'[i]), given'[j][1])
    <2>1. CASE j \in DOMAIN given /\ given'[j] = given[j]
      <3>1. i \in DOMAIN given /\ given'[i] = given[i] BY <1>2, <1>6, <2>1
      <3> QED BY <1>6, <2>1, <3>1 DEF InOrder, Fin
    <2>2. CASE j - Len(given) \in DOMAIN out /\ given'[j] = out[j - Len(given)]
      <3>1. CASE i \in DOMAIN given /\ given'[i] = given[i] BY <2>2, <3>1
      <3>2. CASE i - Len(given) \in DOMAIN out /\ given'[i] = out[i - Len(given)]
        <4>1. i - Len(given) < j - Len(given) BY <1>2, <1>6
        <4> QED BY <2>2, <3>2, <4>1
      <3> QED BY <1>2, <3>1, <3>2
    <2> QED BY <1>2, <2>1, <2>2
  <1> QED BY <1>3, <1>4, <1>5, <1>6 DEF InOrder, Before, Fin

LEMMA SkipKeeps ==
  ASSUME DelInv, FlowSkips
  PROVE  DelInv'
  <1>1. /\ DelTypes /\ GivenSound /\ InLine /\ InOrder /\ AllGiven
        /\ pieces # <<>> /\ pieces' = Tail(pieces) /\ broken' = TRUE
        /\ UNCHANGED <<delCase, pushed, cursor, stamp, merger, reasm, handed, given>>
    BY DEF DelInv, FlowSkips
  <1>2. /\ pieces' \in Seq(PieceRec) /\ 1 \in DOMAIN pieces
        /\ \A i \in DOMAIN pieces' : i + 1 \in DOMAIN pieces /\ pieces'[i] = pieces[i + 1]
        /\ \A i \in DOMAIN pieces' : i \in Nat /\ pieces'[i].id \in Ids
        /\ pieces[1].id \in Ids
        /\ pieces' # <<>> => 1 \in DOMAIN pieces'
    BY <1>1, TailIs
  <1>3. DelTypes' BY <1>1, <1>2 DEF DelTypes
  <1>4. GivenSound' BY <1>1 DEF GivenSound, Sound, KnownId
  <1>5. InLine' /\ AllGiven' BY <1>1, TailInLine DEF AllGiven, PiecesOf, WholeOf
  <1>6. InOrder' BY <1>1, <1>2 DEF InOrder, KnownId, Before
  <1>7. pieces[1].id \notin handed BY <1>1, <1>2 DEF InOrder, Before, Ids
  <1>8. ASSUME pieces' # <<>>, pieces'[1].id.part > 1
        PROVE  \E k \in 1 .. pieces'[1].id.part - 1 : Piece(pieces'[1].id.payload, k) \notin handed
    <2>1. Follows(pieces[1], pieces'[1]) BY <1>1, <1>8, Behind
    <2>2. pieces'[1].id = Piece(pieces[1].id.payload, pieces[1].id.part + 1)
      BY <1>8, <2>1, PieceIs DEF Follows
    <2>3. /\ pieces'[1].id.payload = pieces[1].id.payload
          /\ pieces'[1].id.part - 1 = pieces[1].id.part /\ pieces[1].id.part \in Nat \ {0}
      <3>1. pieces[1].id.part \in Nat \ {0} BY <1>2 DEF Ids
      <3>2. /\ pieces'[1].id.payload = pieces[1].id.payload
            /\ pieces'[1].id.part = pieces[1].id.part + 1
        BY <2>2, PieceIs
      <3> QED BY <3>1, <3>2
    <2>4. Piece(pieces[1].id.payload, pieces[1].id.part) = pieces[1].id BY <1>2, PieceIs
    <2> QED BY <1>7, <2>3, <2>4
  <1>9. ASSUME delCase.carriage = "split" PROVE Halves'
    <2>1. Halves BY <1>9 DEF DelInv
    <2>2. \A i \in DOMAIN pieces' :
            /\ pieces'[i].seq % 2 = pieces'[i].id.part - 1
            /\ i + 1 \in DOMAIN pieces' /\ pieces'[i].id.part = 1 =>
                 pieces'[i + 1].seq = DelSeq!Add(pieces'[i].seq, 1)
      BY <1>2, <2>1 DEF Halves
    <2>3. merger.held # Unheld =>
            /\ MergeActive'
            /\ IsPiece(merger.held)' /\ merger.held.id.part = 1 /\ merger.held.seq % 2 = 0
            /\ \A i \in DOMAIN pieces' : Before(merger.held.id, pieces'[i].id)
            /\ \A j \in DOMAIN given : Before(given[j][Len(given[j])], merger.held.id)
      BY <1>1, <1>2, <2>1 DEF Halves, MergeActive, IsPiece, KnownId
    <2>4. ASSUME pieces' # <<>>, pieces'[1].id.part = 2,
                 Piece(pieces'[1].id.payload, 1) \in handed
          PROVE  FALSE
      BY <1>8, <2>4
    <2> QED BY <1>1, <2>1, <2>2, <2>3, <2>4 DEF Halves
  <1>10. ASSUME delCase.carriage = "fragment" PROVE Fragments'
    <2>1. Fragments BY <1>10 DEF DelInv
    <2>2. ASSUME reasm.active
          PROVE  \E p, c \in Nat :
                   Opened(p, c)' /\ \A i \in DOMAIN pieces' : Before(Piece(p, c), pieces'[i].id)
      <3>1. PICK p \in Nat, c \in Nat :
              Opened(p, c) /\ \A i \in DOMAIN pieces : Before(Piece(p, c), pieces[i].id)
        BY <2>1, <2>2 DEF Fragments
      <3> QED BY <1>1, <1>2, <3>1 DEF Opened
    <2> QED BY <1>1, <1>8, <2>1, <2>2 DEF Fragments
  <1> QED BY <1>1, <1>3, <1>4, <1>5, <1>6, <1>9, <1>10 DEF DelInv, FlowSkips

LEMMA StillKeeps ==
  ASSUME DelInv, KeepaliveL \/ Ticks \/ UNCHANGED delVars
  PROVE  DelInv'
  <1>1. /\ UNCHANGED <<delCase, pushed, cursor, pieces, broken, reasm, handed, given>>
        /\ merger'.held = merger.held
        /\ MergeActive => MergeActive'
        /\ merger' \in [auto : BOOLEAN, held : PieceRec \cup {Unheld}] /\ stamp' \in Nat
    <2>1. merger \in [auto : BOOLEAN, held : PieceRec \cup {Unheld}] /\ stamp \in Nat
      BY DEF DelInv, DelTypes
    <2>2. CASE KeepaliveL
      <3>1. merger' = [merger EXCEPT !.auto = TRUE] BY <2>2 DEF KeepaliveL
      <3>2. /\ merger'.held = merger.held /\ merger'.auto = TRUE
            /\ merger' \in [auto : BOOLEAN, held : PieceRec \cup {Unheld}]
        BY <2>1, <3>1
      <3> QED BY <2>1, <2>2, <3>2 DEF KeepaliveL, MergeActive
    <2>3. CASE Ticks BY <2>1, <2>3 DEF Ticks, MergeActive
    <2>4. CASE UNCHANGED delVars BY <2>1, <2>4 DEF delVars, MergeActive
    <2> QED BY <2>2, <2>3, <2>4
  <1>2. DelTypes' BY <1>1 DEF DelInv, DelTypes
  <1>3. GivenSound' BY <1>1 DEF DelInv, GivenSound, Sound, KnownId
  <1>4. delCase.carriage # "control" => InLine'
    BY <1>1 DEF DelInv, InLine, IsPiece, KnownId, Before, Follows
  <1>5. delCase.carriage # "control" => InOrder' /\ AllGiven'
    BY <1>1 DEF DelInv, InOrder, AllGiven, KnownId, Before, PiecesOf, WholeOf
  <1>6. ASSUME delCase.carriage = "split" PROVE Halves'
    <2>1. Halves BY <1>6 DEF DelInv
    <2>2. IsPiece(merger.held) => IsPiece(merger.held)' BY <1>1 DEF IsPiece, KnownId
    <2>3. pieces # <<>> /\ Follows(merger.held, pieces[1]) => Follows(merger.held, pieces[1])'
      BY <1>1 DEF Follows
    <2> QED BY <1>1, <2>1, <2>2, <2>3 DEF Halves
  <1>7. ASSUME delCase.carriage = "fragment" PROVE Fragments'
    <2>1. Fragments BY <1>7 DEF DelInv
    <2>2. \A p, c : Opened(p, c)' = Opened(p, c) BY <1>1 DEF Opened
    <2>3. reasm.active =>
            \E p, c \in Nat :
              /\ Opened(p, c)' /\ \A i \in DOMAIN pieces' : Before(Piece(p, c), pieces[i].id)'
              /\ ~broken => pieces # <<>> /\ pieces[1].id = Piece(p, c + 1)
      <3>1. \A p, c, i : Before(Piece(p, c), pieces[i].id)' = Before(Piece(p, c), pieces[i].id)
        BY <1>1 DEF Before
      <3> QED BY <1>1, <2>1, <2>2, <3>1 DEF Fragments
    <2>4. pieces # <<>> /\ pieces[1].id.part > 1
            /\ (\A k \in 1 .. pieces[1].id.part - 1 : Piece(pieces[1].id.payload, k) \in handed) =>
              ~broken /\ reasm.active /\ Opened(pieces[1].id.payload, pieces[1].id.part - 1)'
      BY <1>1, <2>1 DEF Fragments, Opened
    <2> QED BY <1>1, <2>1, <2>3, <2>4 DEF Fragments
  <1>8. ASSUME delCase.carriage = "control" PROVE Control'
    <2>1. Control BY <1>8 DEF DelInv
    <2>2. ASSUME NEW o \in [1 .. Len(pushed) + 1 -> Nat], Offsets(o), Numbered(o)
          PROVE  Offsets(o)' /\ Numbered(o)'
      BY <1>1, <2>2 DEF Offsets, Numbered, Opened
    <2>3. \A i \in DOMAIN pieces : IsPiece(pieces[i])'
      BY <1>1, <2>1 DEF Control, IsPiece, KnownId
    <2>4. PICK o \in [1 .. Len(pushed) + 1 -> Nat] : Offsets(o) /\ Numbered(o)
      BY <2>1 DEF Control
    <2> QED BY <1>1, <2>1, <2>2, <2>3, <2>4 DEF Control
  <1> QED BY <1>1, <1>2, <1>3, <1>4, <1>5, <1>6, <1>7, <1>8 DEF DelInv

\* What the merger yields for a half, and what it then holds.
LEMMA Merges ==
  ASSUME DelTypes, Halves, InLine, pieces # <<>>, NEW x, x = Deliver(merger, pieces[1], broken)
  PROVE  /\ x.merger.auto = merger.auto /\ x.merger.held \in {Unheld, merger.held, pieces[1]}
         /\ x.merger.held # Unheld => x.merger.held = pieces[1] /\ MergeActive /\ pieces[1].id.part = 1
         /\ MergeActive /\ pieces[1].id.part = 1 => x.merger.held = pieces[1]
         /\ \/ x.out = <<>>
            \/ x.out = <<<<pieces[1].id>>>>
               /\ (merger.held = Unheld \/ ~MergeActive) /\ x.merger.held = Unheld
            \/ merger.held # Unheld /\ x.out = <<<<merger.held.id>>>> /\ x.merger.held = pieces[1]
            \/ merger.held # Unheld /\ x.merger.held = Unheld
               /\ x.out = <<<<merger.held.id>>, <<pieces[1].id>>>>
            \/ /\ merger.held # Unheld /\ x.merger.held = Unheld
               /\ x.out = <<Leading(pieces[1].id.payload, 2)>>
               /\ merger.held.id = Piece(pieces[1].id.payload, 1)
               /\ pieces[1].id = Piece(pieces[1].id.payload, 2)
         /\ ~broken /\ merger.held # Unheld => x.out = <<Leading(pieces[1].id.payload, 2)>>
  <1> DEFINE d == pieces[1]
  <1>1. /\ 1 \in DOMAIN pieces /\ d \in PieceRec /\ d.id \in Ids
        /\ merger \in [auto : BOOLEAN, held : PieceRec \cup {Unheld}]
    <2>1. pieces \in Seq(PieceRec) /\ merger \in [auto : BOOLEAN, held : PieceRec \cup {Unheld}]
      BY DEF DelTypes
    <2>2. 1 \in DOMAIN pieces /\ d \in PieceRec BY <2>1
    <2> QED BY <2>1, <2>2 DEF PieceRec
  <1>2. d # Unheld BY <1>1, IsHeld
  <1>3. KnownId(d.id) /\ d.id.part \in 1 .. 2 /\ d.seq % 2 = d.id.part - 1
    BY <1>1 DEF InLine, Halves, IsPiece, KnownId
  <1>4. d.seq % 2 = 0 <=> d.id.part = 1 BY <1>3
  <1>5. CASE ~MergeActive
    <2>1. merger.held = Unheld BY <1>5 DEF Halves
    <2>2. x = [merger |-> merger, out |-> <<<<d.id>>>>] BY <1>5 DEF Deliver
    <2>3. x.merger = merger /\ x.out = <<<<d.id>>>> BY <2>2
    <2> QED BY <1>5, <2>1, <2>3
  <1>6. CASE MergeActive /\ merger.held # Unheld /\ ~broken
    <2>1. /\ Follows(merger.held, d) /\ d.seq = DelSeq!Add(merger.held.seq, 1)
          /\ merger.held.id.part = 1 /\ merger.held.seq % 2 = 0
          /\ KnownId(merger.held.id) /\ merger.held \in PieceRec /\ merger.held.id \in Ids
      BY <1>1, <1>6 DEF Halves, IsPiece, PieceRec
    <2>2. pushed[merger.held.id.payload] = 2 BY <2>1 DEF Halves, KnownId
    <2>3. d.id = Piece(merger.held.id.payload, 2) /\ d.src = merger.held.src
      BY <2>1, <2>2 DEF Follows
    <2>4. x = [merger |-> [merger EXCEPT !.held = Unheld], out |-> <<<<merger.held.id, d.id>>>>]
      BY <1>6, <2>1, <2>3 DEF Deliver, SplitPair
    <2>5. x.merger.auto = merger.auto /\ x.merger.held = Unheld
          /\ x.out = <<<<merger.held.id, d.id>>>>
      BY <1>1, <2>4
    <2> DEFINE p == merger.held.id.payload
    <2>6. p \in Nat \ {0} /\ d.id.payload = p /\ d.id = Piece(p, 2) /\ d.id.part = 2
      BY <2>1, <2>3, PieceIs DEF Ids
    <2>7. merger.held.id = Piece(p, 1) BY <2>1, PieceIs
    <2> HIDE DEF p
    <2>8. <<merger.held.id, d.id>> = Leading(p, 2)
      <3>1. Append(Leading(p, 1), Piece(p, 1 + 1)) = Leading(p, 1 + 1) /\ Leading(p, 1) = <<Piece(p, 1)>>
        <4>1. 1 \in Nat \ {0} OBVIOUS
        <4> QED BY <2>6, <4>1, LeadingIs
      <3>2. 1 + 1 = 2 OBVIOUS
      <3>3. Append(<<Piece(p, 1)>>, Piece(p, 2)) = <<Piece(p, 1), Piece(p, 2)>>
        <4> DEFINE s == Append(<<Piece(p, 1)>>, Piece(p, 2))
                   t == <<Piece(p, 1), Piece(p, 2)>>
        <4>1. Piece(p, 1) \in Ids /\ Piece(p, 2) \in Ids BY <2>6, PieceIs
        <4>2. <<Piece(p, 1)>> \in Seq(Ids) /\ Len(<<Piece(p, 1)>>) = 1 BY <4>1
        <4>3. s \in Seq(Ids) /\ Len(s) = 2 /\ s[1] = Piece(p, 1) /\ s[2] = Piece(p, 2)
          BY <4>1, <4>2
        <4>4. t \in Seq(Ids) /\ Len(t) = 2 /\ t[1] = Piece(p, 1) /\ t[2] = Piece(p, 2) BY <4>1
        <4> HIDE DEF s, t
        <4>5. \A k \in 1 .. 2 : s[k] = t[k] BY <4>3, <4>4
        <4>6. s = t BY <4>3, <4>4, <4>5, SeqEqual
        <4> QED BY <4>6 DEF s, t
      <3> QED BY <2>6, <2>7, <3>1, <3>2, <3>3
    <2> QED BY <1>6, <2>5, <2>6, <2>7, <2>8
  <1>7. CASE MergeActive /\ merger.held # Unheld /\ broken
    <2>1. x = AfterOrphan(merger, d) BY <1>7 DEF Deliver
    <2>2. CASE d.seq % 2 = 0
      <3>1. x = [merger |-> [merger EXCEPT !.held = d], out |-> <<<<merger.held.id>>>>]
        BY <2>1, <2>2 DEF AfterOrphan
      <3>2. x.merger.auto = merger.auto /\ x.merger.held = d /\ x.out = <<<<merger.held.id>>>>
        BY <1>1, <3>1
      <3> QED BY <1>4, <1>7, <2>2, <3>2
    <2>3. CASE d.seq % 2 # 0
      <3>1. x = [merger |-> [merger EXCEPT !.held = Unheld],
                 out |-> <<<<merger.held.id>>, <<d.id>>>>]
        BY <2>1, <2>3 DEF AfterOrphan
      <3>2. x.merger.auto = merger.auto /\ x.merger.held = Unheld
            /\ x.out = <<<<merger.held.id>>, <<d.id>>>>
        BY <1>1, <3>1
      <3> QED BY <1>4, <1>7, <2>3, <3>2
    <2> QED BY <2>2, <2>3
  <1>8. CASE MergeActive /\ merger.held = Unheld
    <2>1. CASE d.seq % 2 = 0
      <3>1. x = [merger |-> [merger EXCEPT !.held = d], out |-> <<>>]
        BY <1>8, <2>1 DEF Deliver
      <3>2. x.merger.auto = merger.auto /\ x.merger.held = d /\ x.out = <<>> BY <1>1, <3>1
      <3> QED BY <1>4, <1>8, <2>1, <3>2
    <2>2. CASE d.seq % 2 # 0
      <3>1. x = [merger |-> merger, out |-> <<<<d.id>>>>] BY <1>8, <2>2 DEF Deliver
      <3>2. x.merger = merger /\ x.out = <<<<d.id>>>> BY <3>1
      <3> QED BY <1>4, <1>8, <2>2, <3>2
    <2> QED BY <2>1, <2>2
  <1> QED BY <1>1, <1>5, <1>6, <1>7, <1>8 DEF DelTypes

LEMMA SplitKeeps ==
  ASSUME DelInv, FlowDelivers, delCase.carriage = "split"
  PROVE  DelInv'
  <1> DEFINE d == pieces[1]
             p == pieces[1].id.payload
  <1>1. PICK x : /\ x = Deliver(merger, Head(pieces), broken)
                 /\ merger' = x.merger /\ given' = given \o x.out
    BY DEF FlowDelivers
  <1>2. /\ DelTypes /\ GivenSound /\ InLine /\ InOrder /\ AllGiven /\ Halves
        /\ pieces # <<>> /\ pieces' = Tail(pieces) /\ broken' = FALSE
        /\ UNCHANGED <<delCase, pushed, cursor, stamp, reasm>>
        /\ handed' = IF MergeActive THEN handed \cup {Head(pieces).id} ELSE handed
    BY DEF DelInv, FlowDelivers
  <1>3. /\ pieces' \in Seq(PieceRec) /\ 1 \in DOMAIN pieces /\ Head(pieces) = d
        /\ d \in PieceRec /\ d.id \in Ids
        /\ \A i \in DOMAIN pieces' : i + 1 \in DOMAIN pieces /\ pieces'[i] = pieces[i + 1]
        /\ \A i \in DOMAIN pieces' : i \in Nat /\ pieces'[i].id \in Ids
        /\ pieces' # <<>> => 1 \in DOMAIN pieces' /\ 2 \in DOMAIN pieces /\ pieces'[1] = pieces[2]
    BY <1>2, TailIs
  <1>4. /\ KnownId(d.id) /\ IsPiece(d) /\ \A i \in DOMAIN pieces' : Before(d.id, pieces'[i].id)
        /\ pieces' # <<>> => Follows(d, pieces'[1])
        /\ d.id.part < pushed[p] => pieces' # <<>>
    BY <1>2, Behind
  <1>5. /\ pushed[p] = 2 /\ d.id.part \in 1 .. 2 /\ d.seq % 2 = d.id.part - 1
        /\ p \in DOMAIN pushed /\ p \in Nat \ {0} /\ d.id = Piece(p, d.id.part)
    BY <1>2, <1>3, <1>4, PieceIs DEF Halves, KnownId, Ids
  <1>6. /\ x.merger.auto = merger.auto /\ x.merger.held \in {Unheld, merger.held, d}
        /\ x.merger.held # Unheld => x.merger.held = d /\ MergeActive /\ d.id.part = 1
        /\ MergeActive /\ d.id.part = 1 => x.merger.held = d
        /\ \/ x.out = <<>>
           \/ x.out = <<<<d.id>>>>
              /\ (merger.held = Unheld \/ ~MergeActive) /\ x.merger.held = Unheld
           \/ merger.held # Unheld /\ x.out = <<<<merger.held.id>>>> /\ x.merger.held = d
           \/ merger.held # Unheld /\ x.merger.held = Unheld
              /\ x.out = <<<<merger.held.id>>, <<d.id>>>>
           \/ /\ merger.held # Unheld /\ x.merger.held = Unheld
              /\ x.out = <<Leading(p, 2)>>
              /\ merger.held.id = Piece(p, 1) /\ d.id = Piece(p, 2)
        /\ ~broken /\ merger.held # Unheld => x.out = <<Leading(p, 2)>>
    BY <1>1, <1>2, <1>3, Merges
  <1>7. merger.held # Unheld =>
          /\ merger.held.id \in Ids /\ KnownId(merger.held.id)
          /\ \A i \in DOMAIN pieces : Before(merger.held.id, pieces[i].id)
          /\ \A j \in DOMAIN given : Before(Fin(given[j]), merger.held.id)
    <2>1. merger.held \in PieceRec \cup {Unheld} BY <1>2 DEF DelTypes
    <2> QED BY <1>2, <2>1 DEF Halves, IsPiece, PieceRec, Fin
  <1>8. \A j \in DOMAIN given : Before(Fin(given[j]), d.id)
    BY <1>2, <1>3 DEF InOrder, Fin
  \* One identifier alone, and a whole payload.
  <1>9. ASSUME NEW a \in Ids, KnownId(a)
        PROVE  <<a>> \in Seq(Ids) /\ Sound(<<a>>) /\ Fin(<<a>>) = a /\ <<a>>[1] = a
    BY <1>9 DEF Sound, Fin
  <1>10. /\ Leading(p, 2) \in Seq(Ids) /\ Sound(Leading(p, 2))
         /\ Leading(p, 2)[1] = Piece(p, 1) /\ Fin(Leading(p, 2)) = Piece(p, 2)
    <2>1. 2 \in Nat \ {0} OBVIOUS
    <2>2. /\ Leading(p, 2) \in Seq(Ids) /\ Len(Leading(p, 2)) = 2
          /\ Leading(p, 2)[1] = Piece(p, 1) /\ Leading(p, 2)[2] = Piece(p, 2)
      BY <1>5, <2>1, LeadingIs
    <2> QED BY <1>5, <2>2 DEF Sound, Fin
  <1> DEFINE out == x.out
             Good(o) == /\ o \in Seq(Seq(Ids))
                        /\ \A k \in DOMAIN o :
                             /\ Sound(o[k]) /\ Fin(o[k]) \in {d.id, merger.held.id}
                             /\ \A j \in DOMAIN given : Before(Fin(given[j]), o[k][1])
                        /\ \A k, l \in DOMAIN o : k < l => Before(Fin(o[k]), o[l][1])
                        /\ (\E k \in DOMAIN o : Fin(o[k]) # d.id) =>
                             \A i \in DOMAIN pieces : Before(merger.held.id, pieces[i].id)
  <1>11. Good(out)
    <2>1. CASE x.out = <<>>
      <3>1. Good(<<>>) OBVIOUS
      <3> QED BY <2>1, <3>1
    <2>2. ASSUME NEW g \in Seq(Ids), Sound(g), Fin(g) \in {d.id, merger.held.id},
                 \A j \in DOMAIN given : Before(Fin(given[j]), g[1]),
                 Fin(g) # d.id => merger.held # Unheld
          PROVE  Good(<<g>>)
      <3>1. <<g>> \in Seq(Seq(Ids)) /\ DOMAIN <<g>> = {1} /\ <<g>>[1] = g OBVIOUS
      <3> QED BY <1>7, <2>2, <3>1
    <2>3. CASE x.out = <<<<d.id>>>>
      <3>1. Good(<<<<d.id>>>>) BY <1>3, <1>4, <1>8, <1>9, <2>2
      <3> QED BY <2>3, <3>1
    <2>4. CASE merger.held # Unheld /\ x.out = <<<<merger.held.id>>>>
      <3>1. Good(<<<<merger.held.id>>>>) BY <1>7, <1>9, <2>2, <2>4
      <3> QED BY <2>4, <3>1
    <2>5. CASE merger.held # Unheld /\ x.out = <<<<merger.held.id>>, <<d.id>>>>
      <3> DEFINE f == <<merger.held.id>>
                 g == <<d.id>>
      <3>1. /\ f \in Seq(Ids) /\ Sound(f) /\ Fin(f) = merger.held.id /\ f[1] = merger.held.id
            /\ g \in Seq(Ids) /\ Sound(g) /\ Fin(g) = d.id /\ g[1] = d.id
        BY <1>3, <1>4, <1>7, <1>9, <2>5
      <3> HIDE DEF f, g
      <3>2. /\ <<f, g>> \in Seq(Seq(Ids)) /\ DOMAIN <<f, g>> = {1, 2}
            /\ <<f, g>>[1] = f /\ <<f, g>>[2] = g
        BY <3>1
      <3>3. Before(merger.held.id, d.id) BY <1>3, <1>7, <2>5
      <3>4. \A k, l \in {1, 2} : k < l => k = 1 /\ l = 2 OBVIOUS
      <3>5. Good(<<f, g>>) BY <1>7, <1>8, <2>5, <3>1, <3>2, <3>3, <3>4
      <3> QED BY <2>5, <3>5 DEF f, g
    <2>6. CASE merger.held # Unheld /\ x.out = <<Leading(p, 2)>> /\ merger.held.id = Piece(p, 1)
               /\ d.id = Piece(p, 2)
      <3>1. Good(<<Leading(p, 2)>>) BY <1>7, <1>10, <2>2, <2>6
      <3> QED BY <2>6, <3>1
    <2> QED BY <1>6, <2>1, <2>3, <2>4, <2>5, <2>6
  <1> HIDE DEF out
  <1>12. /\ out \in Seq(Seq(Ids)) /\ given' = given \o out
         /\ \A k \in DOMAIN out : Sound(out[k])
    BY <1>1, <1>11 DEF out
  <1>13. /\ given' \in Seq(Seq(Ids)) /\ GivenSound'
         /\ \A j \in DOMAIN given : j \in DOMAIN given' /\ given'[j] = given[j]
         /\ \A k \in DOMAIN out :
              k + Len(given) \in DOMAIN given' /\ given'[k + Len(given)] = out[k]
         /\ \A j \in DOMAIN given' :
              \/ j \in DOMAIN given /\ given'[j] = given[j]
              \/ j - Len(given) \in DOMAIN out /\ given'[j] = out[j - Len(given)]
    BY <1>2, <1>12, GivenGrows
  <1>14. handed' \in {handed, handed \cup {d.id}} /\ handed' \subseteq Ids
    BY <1>2, <1>3 DEF DelTypes
  <1>15. InOrder' BY <1>2, <1>11, <1>12, <1>14, OrderGrows
  <1>16. InLine' BY <1>2, TailInLine
  <1>17. merger' \in [auto : BOOLEAN, held : PieceRec \cup {Unheld}]
    <2>1. merger \in [auto : BOOLEAN, held : PieceRec \cup {Unheld}] BY <1>2 DEF DelTypes
    <2>2. x.merger = [auto |-> x.merger.auto, held |-> x.merger.held]
      BY <1>1, <1>3, <2>1 DEF Deliver, AfterOrphan
    <2> QED BY <1>1, <1>3, <1>6, <2>1, <2>2
  <1>18. DelTypes' BY <1>2, <1>3, <1>13, <1>14, <1>17 DEF DelTypes
  <1>19. AllGiven'
    <2> SUFFICES ASSUME NEW q \in DOMAIN pushed, PiecesOf(q) \subseteq handed'
                 PROVE  \E i \in DOMAIN given' : given'[i] = WholeOf(q)
      BY <1>2 DEF AllGiven, PiecesOf, WholeOf
    <2>1. CASE PiecesOf(q) \subseteq handed
      <3>1. PICK i \in DOMAIN given : given[i] = WholeOf(q) BY <1>2, <2>1 DEF AllGiven
      <3> QED BY <1>13, <3>1
    <2>2. CASE ~(PiecesOf(q) \subseteq handed)
      <3>1. d.id \in PiecesOf(q) /\ d.id \notin handed /\ MergeActive BY <1>2, <1>3, <2>2
      <3>2. q = p
        <4>1. PICK k \in 1 .. pushed[q] : d.id = Piece(q, k) BY <3>1 DEF PiecesOf
        <4> QED BY <4>1, PieceIs
      <3>3. \A k \in 1 .. 2 : Piece(p, k) \in handed \/ Piece(p, k) = d.id
        BY <1>2, <1>3, <1>5, <3>2 DEF PiecesOf
      <3>4. d.id.part = 2
        <4>1. SUFFICES ASSUME d.id.part = 1 PROVE FALSE BY <1>5
        <4>2. Piece(p, 2) # d.id BY <4>1, PieceIs
        <4>3. Piece(p, 2) \in handed BY <3>3, <4>2
        <4>4. Before(Piece(p, 2), d.id) BY <1>2, <1>3, <4>3 DEF InOrder
        <4> QED BY <1>5, <4>1, <4>4, PieceIs DEF Before
      <3>5. Piece(p, 1) # d.id BY <3>4, PieceIs
      <3>6. Piece(p, 1) \in handed BY <3>3, <3>5
      <3>7. ~broken /\ merger.held # Unheld BY <1>2, <3>4, <3>6 DEF Halves
      <3>8. out = <<Leading(p, 2)>> BY <1>6, <3>7 DEF out
      <3>9. 1 \in DOMAIN out /\ out[1] = Leading(p, 2) BY <3>8
      <3>10. WholeOf(q) = Leading(p, 2) BY <1>5, <3>2, WholeIs
      <3> QED BY <1>13, <3>9, <3>10
    <2> QED BY <2>1, <2>2
  <1>20. Halves'
    <2>1. /\ cursor' % 2 = 0 /\ \A q \in DOMAIN pushed' : pushed'[q] = 2
          /\ \A i \in DOMAIN pieces' :
               /\ pieces'[i].seq % 2 = pieces'[i].id.part - 1
               /\ i + 1 \in DOMAIN pieces' /\ pieces'[i].id.part = 1 =>
                    pieces'[i + 1].seq = DelSeq!Add(pieces'[i].seq, 1)
      BY <1>2, <1>3 DEF Halves
    <2>2. merger'.held = x.merger.held /\ (MergeActive <=> MergeActive')
      BY <1>1, <1>2, <1>6 DEF MergeActive
    <2>3. ASSUME merger'.held # Unheld
          PROVE  /\ MergeActive' /\ merger'.held = d /\ d.id.part = 1
                 /\ d.seq % 2 = 0
                 /\ \A i \in DOMAIN pieces' : Before(d.id, pieces'[i].id)
                 /\ \A j \in DOMAIN given' : Before(Fin(given'[j]), d.id)
                 /\ pieces' # <<>> /\ Follows(d, pieces'[1])
                 /\ pieces'[1].seq = DelSeq!Add(d.seq, 1)
      <3>1. merger'.held = d /\ MergeActive' /\ d.id.part = 1 /\ d.seq % 2 = 0
        BY <1>5, <1>6, <2>2, <2>3
      <3>3. pieces' # <<>> /\ Follows(d, pieces'[1]) BY <1>4, <1>5, <3>1
      <3>4. pieces'[1].seq = DelSeq!Add(d.seq, 1)
        <4>1. 1 + 1 = 2 OBVIOUS
        <4> QED BY <1>2, <1>3, <3>1, <3>3, <4>1 DEF Halves
      <3>5. \A k \in DOMAIN out : Fin(out[k]) = merger.held.id /\ merger.held # Unheld
        <4>1. x.merger.held # Unheld BY <2>2, <2>3
        <4>2. out = <<>> \/ (merger.held # Unheld /\ out = <<<<merger.held.id>>>>)
          BY <1>6, <4>1 DEF out
        <4>3. CASE out = <<>> BY <4>3
        <4>4. CASE merger.held # Unheld /\ out = <<<<merger.held.id>>>>
          <5>1. DOMAIN out = {1} /\ out[1] = <<merger.held.id>> BY <4>4
          <5> QED BY <1>7, <1>9, <4>4, <5>1
        <4> QED BY <4>2, <4>3, <4>4
      <3>6. ASSUME NEW j \in DOMAIN given' PROVE Before(Fin(given'[j]), d.id)
        <4>1. CASE j \in DOMAIN given /\ given'[j] = given[j] BY <1>8, <4>1
        <4>2. CASE j - Len(given) \in DOMAIN out /\ given'[j] = out[j - Len(given)]
          BY <1>3, <1>7, <3>5, <4>2
        <4> QED BY <1>13, <4>1, <4>2
      <3> QED BY <1>4, <3>1, <3>3, <3>4, <3>6
    <2>4. ASSUME pieces' # <<>>, pieces'[1].id.part = 2,
                 Piece(pieces'[1].id.payload, 1) \in handed'
          PROVE  merger'.held # Unheld /\ merger'.held.id = Piece(pieces'[1].id.payload, 1)
      <3>1. d.id.part = 1 /\ pieces'[1].id.payload = p
        <4>1. Follows(d, pieces'[1]) BY <1>4, <2>4
        <4>2. pieces'[1].id = Piece(p, d.id.part + 1) BY <2>4, <4>1, PieceIs DEF Follows
        <4> QED BY <1>5, <2>4, <4>2, PieceIs
      <3>2. Piece(p, 1) = d.id /\ d.id \notin handed
        BY <1>2, <1>3, <1>5, <3>1 DEF InOrder, Before, Ids
      <3>3. MergeActive BY <1>2, <2>4, <3>1, <3>2
      <3>4. merger'.held = d BY <1>6, <2>2, <3>1, <3>3
      <3>5. d # Unheld BY <1>3, IsHeld
      <3> QED BY <3>1, <3>2, <3>4, <3>5
    <2>5. merger'.held # Unheld =>
            /\ MergeActive'
            /\ IsPiece(merger.held)' /\ merger'.held.id.part = 1 /\ merger'.held.seq % 2 = 0
            /\ \A i \in DOMAIN pieces' : Before(merger'.held.id, pieces'[i].id)
            /\ \A j \in DOMAIN given' : Before(given'[j][Len(given'[j])], merger'.held.id)
            /\ pieces' # <<>> /\ Follows(merger.held, pieces[1])'
            /\ pieces'[1].seq = DelSeq!Add(merger'.held.seq, 1)
      <3> SUFFICES ASSUME merger'.held # Unheld
                   PROVE  IsPiece(merger.held)' /\ Follows(merger.held, pieces[1])'
        BY <2>3 DEF Fin
      <3>1. IsPiece(merger.held)' BY <1>2, <1>4, <2>3 DEF IsPiece, KnownId
      <3>2. Follows(merger.held, pieces[1])' BY <1>2, <2>3 DEF Follows
      <3> QED BY <3>1, <3>2
    <2> QED BY <1>2, <2>1, <2>4, <2>5 DEF Halves, Before
  <1> QED BY <1>2, <1>13, <1>15, <1>16, <1>18, <1>19, <1>20 DEF DelInv

\* What the reassembler yields for the piece k of the n of payload p, when a run
\* without a gap before it is that payload's beginning.
LEMMA Reassembles ==
  ASSUME DelTypes, NEW d \in PieceRec, IsPiece(d), NEW gap \in BOOLEAN,
         NEW p, p = d.id.payload, NEW k, k = d.id.part, NEW n, n = pushed[p],
         reasm.active /\ ~gap => \E q, c \in Nat : Opened(q, c) /\ d.id = Piece(q, c + 1),
         NEW x, x = FragPush(reasm, d, gap)
  PROVE  /\ x.reasm \in RunRec
         /\ p \in DOMAIN pushed /\ p \in Nat \ {0} /\ n \in Nat \ {0} /\ k \in 1 .. n
         /\ x.out = <<>> \/ (x.out = <<Leading(p, n)>> /\ k = n)
         /\ x.reasm.active => x.reasm.run = Leading(p, k) /\ x.reasm.count = k /\ k < n
         /\ k = 1 /\ k < n => x.reasm.active
         /\ n = 1 => x.out = <<Leading(p, n)>>
         /\ k > 1 /\ reasm.active /\ ~gap /\ reasm.count < MaxFragments =>
              IF k < n THEN x.reasm.active ELSE x.out = <<Leading(p, n)>>
  <1>1. /\ p \in DOMAIN pushed /\ p \in Nat \ {0} /\ n \in Nat \ {0} /\ k \in 1 .. n
        /\ d.role = Role(k, n) /\ d.id = Piece(p, k) /\ d.id \in Ids
        /\ reasm \in RunRec
    <2>1. d.id \in Ids BY DEF PieceRec
    <2>2. p \in DOMAIN pushed /\ k \in 1 .. n /\ d.role = Role(k, n)
      BY DEF IsPiece, KnownId
    <2> QED BY <2>1, <2>2, PieceIs DEF DelTypes
  <1>2. Leading(p, 1) = <<Piece(p, 1)>> /\ Leading(p, 1) \in Seq(Ids)
    <2>1. 1 \in Nat \ {0} OBVIOUS
    <2> QED BY <1>1, <2>1, LeadingIs
  <1>3. /\ NoRun(reasm) \in RunRec
        /\ NoRun(reasm).active = FALSE
    <2>1. <<>> \in Seq(Ids) OBVIOUS
    <2> QED BY <1>1, <2>1 DEF NoRun, RunRec
  <1>4. CASE k = 1 /\ n # 1
    <2>1. d.role = "First" BY <1>1, <1>4 DEF Role
    <2> DEFINE y == [reasm EXCEPT !.run = <<d.id>>, !.active = TRUE, !.count = 1]
    <2>2. x = [reasm |-> y, out |-> <<>>] BY <2>1 DEF FragPush
    <2>3. <<d.id>> \in Seq(Ids) BY <1>1
    <2>4. y.run = <<d.id>> /\ y.active = TRUE /\ y.count = 1 /\ y \in RunRec
      BY <1>1, <2>3 DEF RunRec
    <2> HIDE DEF y
    <2>5. <<d.id>> = Leading(p, k) BY <1>1, <1>2, <1>4
    <2>6. x.reasm = y /\ x.out = <<>> BY <2>2
    <2> QED BY <1>1, <1>4, <2>4, <2>5, <2>6
  <1>5. CASE n = 1
    <2>1. d.role = "Standalone" /\ k = 1 BY <1>1, <1>5 DEF Role
    <2>2. x = [reasm |-> NoRun(reasm), out |-> <<<<d.id>>>>] BY <2>1 DEF FragPush
    <2>3. x.reasm.active = FALSE /\ x.out = <<Leading(p, n)>> BY <1>1, <1>2, <1>3, <1>5, <2>1, <2>2
    <2> QED BY <1>1, <1>3, <1>5, <2>1, <2>2, <2>3
  <1>6. CASE k # 1 /\ Breaks(reasm, gap)
    <2>1. d.role \in {"Middle", "Last"} /\ n # 1 BY <1>1, <1>6 DEF Role
    <2>2. x = [reasm |-> NoRun(reasm), out |-> <<>>] BY <1>6, <2>1 DEF FragPush
    <2>3. x.reasm.active = FALSE /\ x.out = <<>> BY <1>3, <2>2
    <2>4. ~(reasm.active /\ ~gap /\ reasm.count < MaxFragments)
      <3>1. reasm.count \in Nat /\ MaxFragments \in Nat BY <1>1, DeliveryAssumption DEF RunRec
      <3> QED BY <1>6, <3>1 DEF Breaks
    <2> QED BY <1>1, <1>3, <1>6, <2>1, <2>2, <2>3, <2>4
  <1>7. CASE k # 1 /\ ~Breaks(reasm, gap)
    <2>1. d.role = (IF k = n THEN "Last" ELSE "Middle") /\ n # 1 BY <1>1, <1>7 DEF Role
    <2>2. PICK q \in Nat, c \in Nat : Opened(q, c) /\ d.id = Piece(q, c + 1)
      BY <1>7 DEF Breaks
    <2>3. q = p /\ c + 1 = k /\ c \in Nat \ {0} /\ reasm.run = Leading(p, c) /\ reasm.count = c
      BY <1>1, <2>2, PieceIs DEF Opened
    <2>4. Append(reasm.run, d.id) = Leading(p, k)
      <3>1. Append(Leading(p, c), Piece(p, c + 1)) = Leading(p, c + 1) BY <1>1, <2>3, LeadingIs
      <3> QED BY <1>1, <2>3, <3>1
    <2>5. CASE k = n
      <3>1. x = [reasm |-> NoRun(reasm), out |-> <<Append(reasm.run, d.id)>>]
        BY <1>7, <2>1, <2>5 DEF FragPush
      <3>2. x.reasm.active = FALSE /\ x.out = <<Leading(p, n)>> BY <1>3, <2>4, <2>5, <3>1
      <3> QED BY <1>1, <1>3, <2>1, <2>5, <3>1, <3>2
    <2>6. CASE k # n
      <3> DEFINE y == [reasm EXCEPT !.run = Leading(p, k), !.count = k]
      <3>1. k \in Nat \ {0} /\ reasm.count + 1 = k BY <1>1, <2>3
      <3>2. x = [reasm |-> y, out |-> <<>>] BY <1>7, <2>1, <2>4, <2>6, <3>1 DEF FragPush
      <3>3. Leading(p, k) \in Seq(Ids) BY <1>1, <3>1, LeadingIs
      <3>4. y.run = Leading(p, k) /\ y.count = k /\ y.active = reasm.active /\ y \in RunRec
        BY <1>1, <3>1, <3>3 DEF RunRec
      <3> HIDE DEF y
      <3>5. x.reasm = y /\ x.out = <<>> BY <3>2
      <3>6. reasm.active BY <1>7 DEF Breaks
      <3>7. k < n /\ k # n /\ k # 1 /\ n # 1 BY <1>1, <1>7, <2>6
      <3> QED BY <1>1, <3>4, <3>5, <3>6, <3>7
    <2> QED BY <2>5, <2>6
  <1> QED BY <1>1, <1>4, <1>5, <1>6, <1>7

LEMMA FragmentKeeps ==
  ASSUME DelInv, FlowDelivers, delCase.carriage = "fragment"
  PROVE  DelInv'
  <1>1. PICK x : /\ x = FragPush(reasm, Head(pieces), broken)
                 /\ reasm' = x.reasm /\ given' = given \o x.out
    BY DEF FlowDelivers
  <1>2. /\ DelTypes /\ GivenSound /\ InLine /\ InOrder /\ AllGiven /\ Fragments
        /\ pieces # <<>> /\ pieces' = Tail(pieces) /\ broken' = FALSE
        /\ UNCHANGED <<delCase, pushed, cursor, stamp, merger>>
        /\ handed' = handed \cup {Head(pieces).id}
    BY DEF DelInv, FlowDelivers
  <1>3. PICK d, p, k, n : d = pieces[1] /\ p = d.id.payload /\ k = d.id.part /\ n = pushed[p]
    OBVIOUS
  <1>4. /\ pieces' \in Seq(PieceRec) /\ 1 \in DOMAIN pieces /\ Head(pieces) = d
        /\ d \in PieceRec /\ d.id \in Ids
        /\ \A i \in DOMAIN pieces' : i + 1 \in DOMAIN pieces /\ pieces'[i] = pieces[i + 1]
        /\ \A i \in DOMAIN pieces' : i \in Nat /\ pieces'[i].id \in Ids
        /\ pieces' # <<>> => 1 \in DOMAIN pieces'
    BY <1>2, <1>3, TailIs
  <1>5. /\ KnownId(d.id) /\ IsPiece(d) /\ \A i \in DOMAIN pieces' : Before(d.id, pieces'[i].id)
        /\ pieces' # <<>> => Follows(d, pieces'[1])
        /\ k < n => pieces' # <<>>
    BY <1>2, <1>3, Behind
  <1>6. reasm.active /\ ~broken => \E q, c \in Nat : Opened(q, c) /\ d.id = Piece(q, c + 1)
    BY <1>2, <1>3 DEF Fragments
  <1>7. broken \in BOOLEAN BY <1>2 DEF DelTypes
  <1>8. /\ x.reasm \in RunRec
        /\ p \in DOMAIN pushed /\ p \in Nat \ {0} /\ n \in Nat \ {0} /\ k \in 1 .. n
        /\ x.out = <<>> \/ (x.out = <<Leading(p, n)>> /\ k = n)
        /\ x.reasm.active => x.reasm.run = Leading(p, k) /\ x.reasm.count = k /\ k < n
        /\ k = 1 /\ k < n => x.reasm.active
        /\ n = 1 => x.out = <<Leading(p, n)>>
        /\ k > 1 /\ reasm.active /\ ~broken /\ reasm.count < MaxFragments =>
             IF k < n THEN x.reasm.active ELSE x.out = <<Leading(p, n)>>
    <2>1. x = FragPush(reasm, d, broken) BY <1>1, <1>4
    <2> QED BY <1>2, <1>3, <1>4, <1>5, <1>6, <1>7, <2>1, Reassembles
  <1>9. d.id = Piece(p, k) BY <1>3, <1>4, PieceIs
  <1>10. \A i \in Nat : Piece(p, i) = d.id => i = k BY <1>9, PieceIs
  \* The earlier fragments of the payload came through, so the run is there.
  <1>11. ASSUME \A i \in 1 .. k : Piece(p, i) \in handed'
         PROVE  IF k < n THEN x.reasm.active ELSE x.out = <<Leading(p, n)>>
    <2>1. CASE k = 1 BY <1>8, <2>1
    <2>2. CASE k # 1
      <3>1. k > 1 BY <1>8, <2>2
      <3>2. \A i \in 1 .. k - 1 : Piece(p, i) \in handed
        <4>1. \A i \in 1 .. k - 1 : i \in 1 .. k /\ i # k /\ i \in Nat BY <1>8
        <4> QED BY <1>2, <1>4, <1>10, <1>11, <4>1
      <3>3. ~broken /\ reasm.active /\ Opened(p, k - 1)
        BY <1>2, <1>3, <3>1, <3>2 DEF Fragments
      <3>4. reasm.count < MaxFragments
        <4>1. n <= MaxFragments BY <1>2, <1>3, <1>8 DEF Fragments
        <4>2. reasm.count = k - 1 BY <3>3 DEF Opened
        <4> QED BY <1>8, <4>1, <4>2, DeliveryAssumption
      <3> QED BY <1>8, <3>1, <3>3, <3>4
    <2> QED BY <2>1, <2>2
  <1>12. /\ x.out \in Seq(Seq(Ids))
         /\ \A i \in DOMAIN x.out : x.out[i] = Leading(p, n) /\ k = n /\ i = 1
    <2>1. CASE x.out = <<>> BY <2>1
    <2>2. CASE x.out = <<Leading(p, n)>> /\ k = n
      <3>1. Leading(p, n) \in Seq(Ids) BY <1>8, LeadingIs
      <3>2. <<Leading(p, n)>> \in Seq(Seq(Ids)) /\ DOMAIN <<Leading(p, n)>> = {1}
            /\ <<Leading(p, n)>>[1] = Leading(p, n)
        BY <3>1
      <3> QED BY <2>2, <3>2
    <2> QED BY <1>8, <2>1, <2>2
  <1>13. /\ Sound(Leading(p, n)) /\ Leading(p, n)[1] = Piece(p, 1)
         /\ Fin(Leading(p, n)) = Piece(p, n) /\ WholeOf(p) = Leading(p, n)
    <2>1. Sound(Leading(p, n)) /\ WholeOf(p) = Leading(p, n) BY <1>3, <1>8, WholeIs DEF Sound
    <2>2. /\ Len(Leading(p, n)) = n /\ Leading(p, n)[1] = Piece(p, 1)
          /\ Leading(p, n)[n] = Piece(p, n)
      BY <1>8, LeadingIs
    <2> QED BY <2>1, <2>2 DEF Fin
  <1>14. ASSUME NEW j \in DOMAIN given, k = n PROVE Before(Fin(given[j]), Piece(p, 1))
    <2>1. Before(Fin(given[j]), d.id) BY <1>2, <1>3, <1>4 DEF InOrder, Fin
    <2>2. PICK q \in DOMAIN pushed : given[j] = Leading(q, pushed[q])
      BY <1>2, <1>14 DEF GivenSound, Sound
    <2>3. q \in Nat \ {0} /\ pushed[q] \in Nat \ {0} BY <1>2 DEF DelTypes
    <2>4. Fin(given[j]) = Piece(q, pushed[q])
      <3> DEFINE c == pushed[q]
      <3> HIDE DEF c
      <3>1. c \in Nat \ {0} /\ given[j] = Leading(q, c) BY <2>2, <2>3 DEF c
      <3>2. Len(Leading(q, c)) = c /\ Leading(q, c)[c] = Piece(q, c) BY <2>3, <3>1, LeadingIs
      <3> QED BY <3>1, <3>2 DEF Fin, c
    <2>5. q < p \/ (q = p /\ pushed[q] < k) BY <1>9, <2>1, <2>4, PieceIs DEF Before
    <2>6. q < p BY <1>3, <1>8, <1>14, <2>3, <2>5
    <2> QED BY <2>4, <2>6, PieceIs DEF Before
  <1>15. /\ \A i \in DOMAIN x.out :
              /\ Sound(x.out[i]) /\ Fin(x.out[i]) = d.id
              /\ \A j \in DOMAIN given : Before(Fin(given[j]), x.out[i][1])
         /\ \A i, j \in DOMAIN x.out : ~(i < j)
    BY <1>9, <1>12, <1>13, <1>14
  <1>16. /\ given' \in Seq(Seq(Ids)) /\ GivenSound'
         /\ \A j \in DOMAIN given : j \in DOMAIN given' /\ given'[j] = given[j]
         /\ \A i \in DOMAIN x.out :
              i + Len(given) \in DOMAIN given' /\ given'[i + Len(given)] = x.out[i]
    BY <1>1, <1>2, <1>12, <1>15, GivenGrows
  <1>17. InOrder'
    <2>1. \A i \in DOMAIN x.out :
            /\ Sound(x.out[i]) /\ Fin(x.out[i]) \in {pieces[1].id, merger.held.id}
            /\ \A j \in DOMAIN given : Before(Fin(given[j]), x.out[i][1])
      BY <1>3, <1>15
    <2>2. \A i, j \in DOMAIN x.out : i < j => Before(Fin(x.out[i]), x.out[j][1]) BY <1>15
    <2>3. (\E i \in DOMAIN x.out : Fin(x.out[i]) # pieces[1].id) =>
            \A i \in DOMAIN pieces : Before(merger.held.id, pieces[i].id)
      BY <1>3, <1>15
    <2>4. handed' \in {handed, handed \cup {pieces[1].id}} BY <1>2, <1>3, <1>4
    <2> QED BY <1>1, <1>2, <1>12, <2>1, <2>2, <2>3, <2>4, OrderGrows
  <1>18. InLine' BY <1>2, TailInLine
  <1>19. handed' \subseteq Ids BY <1>2, <1>4 DEF DelTypes
  <1>20. DelTypes' BY <1>1, <1>2, <1>4, <1>8, <1>16, <1>19 DEF DelTypes
  <1>21. AllGiven'
    <2> SUFFICES ASSUME NEW q \in DOMAIN pushed, PiecesOf(q) \subseteq handed'
                 PROVE  \E i \in DOMAIN given' : given'[i] = WholeOf(q)
      BY <1>2 DEF AllGiven, PiecesOf, WholeOf
    <2>1. CASE PiecesOf(q) \subseteq handed
      <3>1. PICK i \in DOMAIN given : given[i] = WholeOf(q) BY <1>2, <2>1 DEF AllGiven
      <3> QED BY <1>16, <3>1
    <2>2. CASE ~(PiecesOf(q) \subseteq handed)
      <3>1. d.id \in PiecesOf(q) BY <1>2, <1>4, <2>2
      <3>2. q = p
        <4>1. PICK i \in 1 .. pushed[q] : d.id = Piece(q, i) BY <3>1 DEF PiecesOf
        <4> QED BY <1>3, <4>1, PieceIs
      <3>3. \A i \in 1 .. n : Piece(p, i) \in handed' BY <1>3, <3>2 DEF PiecesOf
      <3>4. k = n
        <4>1. SUFFICES ASSUME k < n PROVE FALSE BY <1>8
        <4>2. n \in 1 .. n /\ n # k /\ n \in Nat BY <1>8, <4>1
        <4>3. Piece(p, n) \in handed BY <1>2, <1>4, <1>10, <3>3, <4>2
        <4>4. Before(Piece(p, n), d.id) BY <1>2, <1>3, <1>4, <4>3 DEF InOrder
        <4> QED BY <1>8, <1>9, <4>1, <4>4, PieceIs DEF Before
      <3>5. x.out = <<Leading(p, n)>> BY <1>8, <1>11, <3>3, <3>4
      <3>6. 1 \in DOMAIN x.out /\ x.out[1] = Leading(p, n) BY <3>5
      <3> QED BY <1>13, <1>16, <3>2, <3>6
    <2> QED BY <2>1, <2>2
  <1>22. x.reasm.active =>
           Opened(p, k)' /\ k \in Nat
    <2> SUFFICES ASSUME x.reasm.active PROVE Opened(p, k)' BY <1>8
    <2>1. reasm'.run = Leading(p, k) /\ reasm'.count = k /\ k \in 1 .. n - 1 BY <1>1, <1>8
    <2> QED BY <1>2, <1>3, <1>8, <2>1 DEF Opened
  <1>23. Fragments'
    <2>1. \A q \in DOMAIN pushed' : pushed'[q] <= MaxFragments BY <1>2 DEF Fragments
    <2>2. ASSUME reasm'.active
          PROVE  \E q, c \in Nat :
                   /\ Opened(q, c)' /\ \A i \in DOMAIN pieces' : Before(Piece(q, c), pieces'[i].id)
                   /\ pieces' # <<>> /\ pieces'[1].id = Piece(q, c + 1)
      <3>1. Opened(p, k)' /\ k < n /\ k \in Nat /\ p \in Nat BY <1>1, <1>8, <1>22, <2>2
      <3>2. pieces' # <<>> /\ Follows(d, pieces'[1]) BY <1>5, <3>1
      <3>3. pieces'[1].id = Piece(p, k + 1) BY <1>3, <3>1, <3>2 DEF Follows
      <3> QED BY <1>5, <1>9, <3>1, <3>2, <3>3
    <2>3. ASSUME pieces' # <<>>, pieces'[1].id.part > 1,
                 \A i \in 1 .. pieces'[1].id.part - 1 : Piece(pieces'[1].id.payload, i) \in handed'
          PROVE  reasm'.active /\ Opened(pieces[1].id.payload, pieces[1].id.part - 1)'
      <3>1. Follows(d, pieces'[1]) BY <1>5, <2>3
      <3>2. k < n /\ pieces'[1].id = Piece(p, k + 1)
        BY <1>3, <2>3, <3>1, PieceIs DEF Follows
      <3>3. pieces'[1].id.payload = p /\ pieces'[1].id.part - 1 = k
        <4>1. pieces'[1].id.part = k + 1 /\ pieces'[1].id.payload = p BY <3>2, PieceIs
        <4> QED BY <1>8, <4>1
      <3>4. \A i \in 1 .. k : Piece(p, i) \in handed' BY <2>3, <3>3
      <3>5. x.reasm.active BY <1>11, <3>2, <3>4
      <3>6. reasm'.active /\ Opened(p, k)' BY <1>1, <1>22, <3>5
      <3> QED BY <3>3, <3>6 DEF Opened
    <2> QED BY <1>2, <2>1, <2>2, <2>3 DEF Fragments, Before
  <1> QED BY <1>2, <1>16, <1>17, <1>18, <1>20, <1>21, <1>23 DEF DelInv

-----------------------------------------------------------------------------
(* Control fragments off the wire                                           *)

\* The wire still holds nothing but what it held.
LEMMA WireShrinks ==
  ASSUME NEW s \in Seq(PieceRec), NEW i \in DOMAIN s
  PROVE  /\ RemoveAt(s, i) \in Seq(PieceRec)
         /\ \A j \in DOMAIN RemoveAt(s, i) : \E l \in DOMAIN s : RemoveAt(s, i)[j] = s[l]
  <1> DEFINE a == SubSeq(s, 1, i - 1)
             b == SubSeq(s, i + 1, Len(s))
             h == a \o b
  <1>1. /\ a \in Seq(PieceRec) /\ b \in Seq(PieceRec)
        /\ \A j \in DOMAIN a : j \in DOMAIN s /\ a[j] = s[j]
        /\ \A j \in DOMAIN b : i + j \in DOMAIN s /\ b[j] = s[i + j]
    OBVIOUS
  <1> HIDE DEF a, b
  <1>2. /\ h \in Seq(PieceRec)
        /\ \A j \in DOMAIN h :
             \/ j \in DOMAIN a /\ h[j] = a[j]
             \/ j \notin DOMAIN a /\ j - Len(a) \in DOMAIN b /\ h[j] = b[j - Len(a)]
    BY <1>1, Grown
  <1>3. RemoveAt(s, i) = h BY DEF RemoveAt, a, b
  <1> HIDE DEF h
  <1> QED BY <1>1, <1>2, <1>3

LEMMA ControlShrinks ==
  ASSUME DelTypes, Control, UNCHANGED <<pushed, cursor, reasm>>,
         pieces' = pieces \/ \E i \in DOMAIN pieces : pieces' = RemoveAt(pieces, i)
  PROVE  /\ pieces' \in Seq(PieceRec) /\ Control'
         /\ \A j \in DOMAIN pieces' : \E l \in DOMAIN pieces : pieces'[j] = pieces[l]
  <1>1. pieces \in Seq(PieceRec) BY DEF DelTypes
  <1>2. /\ pieces' \in Seq(PieceRec)
        /\ \A j \in DOMAIN pieces' : \E l \in DOMAIN pieces : pieces'[j] = pieces[l]
    BY <1>1, WireShrinks
  <1>3. \A p, c : Opened(p, c)' <=> Opened(p, c) BY DEF Opened
  <1>4. \A i \in DOMAIN pieces' : IsPiece(pieces[i])'
    BY <1>2 DEF Control, IsPiece, KnownId
  <1>5. PICK o \in [1 .. Len(pushed) + 1 -> Nat] : Offsets(o) /\ Numbered(o) BY DEF Control
  <1>6. Offsets(o)' BY <1>5 DEF Offsets
  <1>7. Numbered(o)' BY <1>2, <1>3, <1>5 DEF Numbered
  <1> QED BY <1>2, <1>4, <1>5, <1>6, <1>7 DEF Control

\* The fragment whose sequence follows the one taken last is the piece behind it.
LEMMA NextPiece ==
  ASSUME DelTypes, OneLap, delCase.carriage = "control", Control,
         NEW o, Offsets(o), NEW p \in Nat, NEW c \in Nat, Opened(p, c),
         NEW q \in DOMAIN pushed, NEW k \in 1 .. pushed[q],
         DelSeq!Add(DelStart, o[q] + (k - 1)) = DelSeq!Add(DelSeq!Add(DelStart, o[p] + (c - 1)), 1)
  PROVE  q = p /\ k = c + 1
  <1> DEFINE N == Len(pushed)
  <1>1. /\ N \in Nat /\ DOMAIN pushed = 1 .. N /\ N <= DelPayloads /\ DelPayloads \in Nat
        /\ MaxFragments \in Nat /\ DelHalf \in Nat /\ DelStart \in DelSeq!SeqNum
        /\ p \in 1 .. N /\ q \in 1 .. N /\ c \in 1 .. pushed[p] - 1
        /\ pushed[p] \in Nat /\ pushed[q] \in Nat
        /\ o \in [1 .. N + 1 -> Nat] /\ k \in 1 .. pushed[q]
    <2>1. pushed \in Seq(Nat \ {0}) /\ N \in Nat /\ DOMAIN pushed = 1 .. N BY DEF DelTypes
    <2>2. /\ N <= DelPayloads /\ DelPayloads \in Nat
          /\ MaxFragments \in Nat /\ DelHalf \in Nat /\ DelStart \in DelSeq!SeqNum
      BY DeliveryAssumption DEF Control
    <2>3. p \in 1 .. N /\ c \in 1 .. pushed[p] - 1 BY <2>1 DEF Opened
    <2>4. pushed[p] \in Nat /\ pushed[q] \in Nat BY <2>1, <2>3
    <2> QED BY <2>1, <2>2, <2>3, <2>4 DEF Offsets
  <1>2. ASSUME NEW r \in 1 .. N
        PROVE  /\ o[r + 1] = o[r] + pushed[r] /\ o[r + 1] <= o[N + 1]
               /\ o[r] \in Nat /\ o[r + 1] \in Nat
    <2>1. r + 1 \in 1 .. N + 1 /\ N + 1 \in 1 .. N + 1 /\ r + 1 <= N + 1 /\ r \in 1 .. N + 1
      BY <1>1
    <2>2. r \in DOMAIN pushed /\ DOMAIN o = 1 .. N + 1 BY <1>1
    <2> QED BY <1>1, <2>1, <2>2 DEF Offsets
  <1>3. o[N + 1] <= 2 * DelHalf /\ o[N + 1] \in Nat
    <2>1. N + 1 \in 1 .. N + 1 /\ (N + 1) - 1 = N BY <1>1
    <2>2. o[N + 1] <= N * MaxFragments BY <1>1, <2>1 DEF Offsets
    <2>3. N * MaxFragments <= DelPayloads * MaxFragments
      <3>1. ASSUME NEW a \in Nat, NEW b \in Nat, NEW m \in Nat, a <= b PROVE a * m <= b * m
        <4>1. PICK e \in Nat : b = a + e
          <5>1. b - a \in Nat /\ b = a + (b - a) BY <3>1
          <5> QED BY <5>1
        <4>2. (a + e) * m = a * m + e * m OBVIOUS
        <4>3. e * m \in Nat /\ a * m \in Nat OBVIOUS
        <4> QED BY <4>1, <4>2, <4>3
      <3> QED BY <1>1, <3>1
    <2>4. DelPayloads * MaxFragments <= 2 * DelHalf BY DEF OneLap, DelTypes
    <2>5. o[N + 1] \in Nat /\ N * MaxFragments \in Nat /\ DelPayloads * MaxFragments \in Nat
      BY <1>1, <2>1
    <2> DEFINE a == o[N + 1]
               b == N * MaxFragments
               e == DelPayloads * MaxFragments
               f == 2 * DelHalf
    <2>6. a <= b /\ b <= e /\ e <= f /\ a \in Nat /\ b \in Nat /\ e \in Nat /\ f \in Nat
      BY <1>1, <2>2, <2>3, <2>4, <2>5
    <2> HIDE DEF a, b, e, f
    <2>7. a <= f /\ a \in Nat BY <2>6
    <2> QED BY <2>7 DEF a, f
  <1>4. ASSUME NEW r \in 1 .. N, NEW t \in 1 .. N, r < t PROVE o[r] + pushed[r] <= o[t]
    <2>1. r + 1 \in 1 .. N + 1 /\ t \in 1 .. N + 1 /\ r + 1 <= t BY <1>1, <1>4
    <2>2. o[r + 1] <= o[t] BY <1>1, <2>1 DEF Offsets
    <2> QED BY <1>2, <2>2
  <1>5. PICK a \in Nat, b \in Nat, m \in Nat, n \in Nat, h \in Nat :
          a = o[q] /\ b = o[p] /\ m = pushed[q] /\ n = pushed[p] /\ h = 2 * DelHalf
    <2>1. o[q] \in Nat /\ o[p] \in Nat BY <1>1, <1>2
    <2>2. pushed[q] \in Nat /\ pushed[p] \in Nat /\ 2 * DelHalf \in Nat BY <1>1
    <2> QED BY <2>1, <2>2, Zenon
  <1>6. o[q + 1] = a + m /\ o[p + 1] = b + n BY <1>1, <1>2, <1>5
  <1>7. a + m <= h /\ b + n <= h
    <2>1. o[q + 1] <= o[N + 1] /\ o[p + 1] <= o[N + 1] BY <1>1, <1>2
    <2>2. PICK e \in Nat : e = o[N + 1] BY <1>3
    <2>3. a + m <= e /\ b + n <= e /\ e <= h BY <1>3, <1>5, <1>6, <2>1, <2>2
    <2> QED BY <2>3
  <1>8. /\ q < p => a + m <= b
        /\ p < q => b + n <= a
    BY <1>1, <1>4, <1>5
  <1>9. k \in 1 .. m /\ c \in 1 .. n - 1 /\ p \in Nat /\ q \in Nat BY <1>1, <1>5
  <1> DEFINE x == a + (k - 1)
             y == b + (c - 1)
             z == b + c
  <1>10. x \in 0 .. h - 1 /\ z \in 0 .. h - 1 /\ y \in Nat /\ y + 1 = z BY <1>7, <1>9
  <1>11. DelSeq!Add(DelSeq!Add(DelStart, y), 1) = DelSeq!Add(DelStart, y + 1)
    <2>1. 1 \in Nat OBVIOUS
    <2> HIDE DEF y
    <2> QED BY <1>1, <1>10, <2>1, AddAdd
  <1>12. x = z
    <2>1. DelSeq!Add(DelStart, x) = DelSeq!Add(DelStart, z) BY <1>5, <1>10, <1>11
    <2> HIDE DEF x, y, z
    <2> QED BY <1>1, <1>5, <1>10, <2>1, AddInjective
  <1>13. q = p BY <1>8, <1>9, <1>12
  <1> QED BY <1>5, <1>9, <1>12, <1>13

LEMMA ControlKeeps ==
  ASSUME OneLap, DelInv, ControlArrives
  PROVE  DelInv'
  <1>0. PICK i \in DOMAIN pieces :
          /\ pieces' \in {pieces, RemoveAt(pieces, i)}
          /\ \E x \in {FragPush(reasm, pieces[i], CtrlGap(reasm, pieces[i]))} :
               /\ reasm' = [x.reasm EXCEPT !.last = [seq |-> pieces[i].seq]]
               /\ given' = given \o x.out
    BY DEF ControlArrives
  <1>1. PICK x : /\ x = FragPush(reasm, pieces[i], CtrlGap(reasm, pieces[i]))
                 /\ reasm' = [x.reasm EXCEPT !.last = [seq |-> pieces[i].seq]]
                 /\ given' = given \o x.out
    BY <1>0
  <1>2. /\ DelTypes /\ GivenSound /\ Control /\ delCase.carriage = "control"
        /\ UNCHANGED <<delCase, pushed, cursor, stamp, broken, merger, handed>>
    BY DEF DelInv, ControlArrives
  <1>3. PICK d, p, k, n, gap :
          /\ d = pieces[i] /\ p = d.id.payload /\ k = d.id.part /\ n = pushed[p]
          /\ gap = CtrlGap(reasm, d)
    OBVIOUS
  <1>4. d \in PieceRec /\ IsPiece(d) /\ d.seq \in DelSeq!SeqNum
    <2>1. pieces \in Seq(PieceRec) BY <1>2 DEF DelTypes
    <2>2. d \in PieceRec BY <1>3, <2>1
    <2>3. IsPiece(pieces[i]) BY <1>2 DEF Control
    <2> QED BY <1>3, <2>2, <2>3 DEF PieceRec
  <1>5. PICK o \in [1 .. Len(pushed) + 1 -> Nat] : Offsets(o) /\ Numbered(o)
    BY <1>2 DEF Control
  <1>6. d.seq = DelSeq!Add(DelStart, o[p] + (k - 1)) BY <1>3, <1>5 DEF Numbered
  <1>7. p \in DOMAIN pushed /\ k \in 1 .. n /\ d.id = Piece(p, k)
    <2>1. d.id \in Ids BY <1>4 DEF PieceRec
    <2> QED BY <1>3, <1>4, <2>1, PieceIs DEF IsPiece, KnownId
  <1>8. ASSUME reasm.active, ~gap
        PROVE  \E q, c \in Nat : Opened(q, c) /\ d.id = Piece(q, c + 1)
    <2>1. PICK q \in Nat, c \in Nat :
            /\ Opened(q, c) /\ reasm.last # Unheld
            /\ reasm.last.seq = DelSeq!Add(DelStart, o[q] + (c - 1))
      BY <1>5, <1>8 DEF Numbered
    <2>2. d.seq = DelSeq!Add(reasm.last.seq, 1) BY <1>3, <1>8, <2>1 DEF CtrlGap
    <2>3. p = q /\ k = c + 1
      <3>1. DelSeq!Add(DelStart, o[p] + (k - 1))
              = DelSeq!Add(DelSeq!Add(DelStart, o[q] + (c - 1)), 1)
        BY <1>6, <2>1, <2>2
      <3>2. k \in 1 .. pushed[p] BY <1>3, <1>7
      <3> QED BY <1>2, <1>5, <1>7, <2>1, <3>1, <3>2, NextPiece
    <2> QED BY <1>7, <2>1, <2>3
  <1>9. gap \in BOOLEAN /\ x = FragPush(reasm, d, gap) BY <1>1, <1>3 DEF CtrlGap
  <1>10. /\ x.reasm \in RunRec
         /\ p \in DOMAIN pushed /\ p \in Nat \ {0} /\ n \in Nat \ {0} /\ k \in 1 .. n
         /\ x.out = <<>> \/ (x.out = <<Leading(p, n)>> /\ k = n)
         /\ x.reasm.active => x.reasm.run = Leading(p, k) /\ x.reasm.count = k /\ k < n
    BY <1>2, <1>3, <1>4, <1>8, <1>9, Reassembles
  <1>11. x.out \in Seq(Seq(Ids)) /\ \A j \in DOMAIN x.out : Sound(x.out[j])
    <2>1. CASE x.out = <<>> BY <2>1
    <2>2. CASE x.out = <<Leading(p, n)>>
      <3>1. Leading(p, n) \in Seq(Ids) BY <1>10, LeadingIs
      <3>2. Sound(Leading(p, n)) BY <1>3, <1>10 DEF Sound
      <3>3. <<Leading(p, n)>> \in Seq(Seq(Ids)) /\ DOMAIN <<Leading(p, n)>> = {1}
            /\ <<Leading(p, n)>>[1] = Leading(p, n)
        BY <3>1
      <3> QED BY <2>2, <3>2, <3>3
    <2> QED BY <1>10, <2>1, <2>2
  <1>12. given' \in Seq(Seq(Ids)) /\ GivenSound' BY <1>1, <1>2, <1>11, GivenGrows
  <1>13. /\ reasm' \in RunRec /\ reasm'.run = x.reasm.run /\ reasm'.active = x.reasm.active
         /\ reasm'.count = x.reasm.count /\ reasm'.last = [seq |-> d.seq]
    <2>1. reasm' = [x.reasm EXCEPT !.last = [seq |-> d.seq]] BY <1>1, <1>3
    <2> QED BY <1>4, <1>10, <2>1 DEF RunRec
  <1>14. /\ pieces' \in Seq(PieceRec)
         /\ \A j \in DOMAIN pieces' : \E l \in DOMAIN pieces : pieces'[j] = pieces[l]
    <2>1. pieces \in Seq(PieceRec) BY <1>2 DEF DelTypes
    <2> QED BY <1>0, <2>1, WireShrinks
  <1>15. \A j \in DOMAIN pieces' : IsPiece(pieces[j])'
    BY <1>2, <1>14 DEF Control, IsPiece, KnownId
  <1>16. Numbered(o)'
    <2>1. ASSUME reasm'.active
          PROVE  \E q, c \in Nat :
                   /\ Opened(q, c)' /\ reasm'.last # Unheld
                   /\ reasm'.last.seq = DelSeq!Add(DelStart, o[q] + (c - 1))
      <3>1. k \in Nat /\ p \in Nat /\ k \in 1 .. n - 1 BY <1>10, <1>13, <2>1
      <3>2. Opened(p, k)' BY <1>2, <1>3, <1>10, <1>13, <2>1, <3>1 DEF Opened
      <3>3. reasm'.last # Unheld /\ reasm'.last.seq = d.seq
        <4>1. DOMAIN [seq |-> d.seq] = {"seq"} /\ DOMAIN Unheld = {"none"} BY DEF Unheld
        <4>2. "seq" # "none" OBVIOUS
        <4>3. {"seq"} # {"none"} BY <4>2
        <4>4. [seq |-> d.seq] # Unheld BY <4>1, <4>3
        <4> QED BY <1>13, <4>4
      <3> QED BY <1>6, <3>1, <3>2, <3>3
    <2>2. \A j \in DOMAIN pieces' :
            pieces'[j].seq
              = DelSeq!Add(DelStart, o[pieces'[j].id.payload] + (pieces'[j].id.part - 1))
      BY <1>5, <1>14 DEF Numbered
    <2> QED BY <1>2, <1>5, <2>1, <2>2 DEF Numbered
  <1>17. Control' BY <1>2, <1>5, <1>15, <1>16 DEF Control, Offsets
  <1>18. DelTypes' BY <1>2, <1>12, <1>13, <1>14 DEF DelTypes
  <1> QED BY <1>2, <1>12, <1>17, <1>18 DEF DelInv

LEMMA LostKeeps ==
  ASSUME DelInv, ControlLost
  PROVE  DelInv'
  <1>1. /\ DelTypes /\ GivenSound /\ Control /\ delCase.carriage = "control"
        /\ UNCHANGED <<delCase, pushed, cursor, stamp, broken, merger, reasm, handed, given>>
        /\ \E i \in DOMAIN pieces : pieces' = RemoveAt(pieces, i)
    BY DEF DelInv, ControlLost
  <1>2. pieces' \in Seq(PieceRec) /\ Control' BY <1>1, ControlShrinks
  <1>3. DelTypes' BY <1>1, <1>2 DEF DelTypes
  <1>4. GivenSound' BY <1>1 DEF GivenSound, Sound, KnownId
  <1> QED BY <1>1, <1>2, <1>3, <1>4 DEF DelInv

-----------------------------------------------------------------------------
(* What the application gets                                                *)

LEMMA DelStep ==
  ASSUME EvenPairs, OneLap, DelInv, [DelNext]_delVars
  PROVE  DelInv'
  <1>1. CASE PushPayload BY <1>1, PushKeeps
  <1>2. CASE Ticks \/ KeepaliveL \/ UNCHANGED delVars BY <1>2, StillKeeps
  <1>3. CASE FlowDelivers
    <2>1. delCase.carriage \in {"split", "fragment"}
      BY <1>3 DEF DelInv, DelTypes, DelCase, FlowDelivers
    <2> QED BY <1>3, <2>1, SplitKeeps, FragmentKeeps
  <1>4. CASE FlowSkips BY <1>4, SkipKeeps
  <1>5. CASE ControlArrives BY <1>5, ControlKeeps
  <1>6. CASE ControlLost BY <1>6, LostKeeps
  <1> QED BY <1>1, <1>2, <1>3, <1>4, <1>5, <1>6 DEF DelNext

LEMMA DelWhole ==
  ASSUME DelInv
  PROVE  PayloadsWhole
  <1>1. DelTypes /\ GivenSound BY DEF DelInv
  <1>2. ASSUME NEW i \in DOMAIN given, NEW p, p = given[i][1].payload
        PROVE  /\ \A k \in DOMAIN given[i] : given[i][k].payload = p
               /\ Len(given[i]) > 1 => given[i] = WholeOf(p)
               /\ delCase.carriage # "split" => given[i] = WholeOf(p)
    <2>1. CASE \E q \in DOMAIN pushed : given[i] = Leading(q, pushed[q])
      <3>1. PICK q \in DOMAIN pushed : given[i] = Leading(q, pushed[q]) BY <2>1
      <3>2. \A k \in DOMAIN given[i] : given[i][k] = Piece(q, k) BY <3>1 DEF Leading
      <3>3. 1 \in DOMAIN given[i] BY <1>1, GivenIds
      <3>4. p = q BY <1>2, <3>2, <3>3, PieceIs
      <3> QED BY <3>1, <3>2, <3>4, PieceIs, WholeIs
    <2>2. CASE delCase.carriage = "split" /\ \E a \in Ids : given[i] = <<a>>
      <3>1. PICK a \in Ids : given[i] = <<a>> BY <2>2
      <3>2. DOMAIN given[i] = {1} /\ Len(given[i]) = 1 BY <3>1
      <3> QED BY <1>2, <2>2, <3>2
    <2> QED BY <1>1, <2>1, <2>2 DEF GivenSound, Sound
  <1>3. NeverSpliced BY <1>2 DEF NeverSpliced
  <1>4. WholeAndInOrder
    <2> SUFFICES ASSUME delCase.carriage # "control"
                 PROVE  /\ AllGiven
                        /\ \A i, j \in DOMAIN given : i < j =>
                             Before(given[i][Len(given[i])], given[j][1])
      BY DEF WholeAndInOrder, AllGiven, Before, Last
    <2> QED BY DEF DelInv, InOrder
  <1> QED BY <1>3, <1>4 DEF PayloadsWhole

\* The application gets its payloads whole, each once and in the order they were
\* sent, and nothing put together from two (Merger of split.rs, FragReassembler of
\* the advanced driver, FecCtrlReassembler of fec.rs), whatever the flow gives up
\* and the wire loses, repeats or reorders: non-empty payloads from an even start
\* when they travel as pairs, control fragments within one lap of the sequences.
THEOREM DeliveryPayloadsWhole ==
  ASSUME EvenPairs, OneLap
  PROVE  DelSpec => []PayloadsWhole
  <1>1. DelInit => DelInv BY DelStarts
  <1>2. DelInv /\ [DelNext]_delVars => DelInv' BY DelStep
  <1>3. DelInv => PayloadsWhole BY DelWhole
  <1> QED BY <1>1, <1>2, <1>3, PTL DEF DelSpec

-----------------------------------------------------------------------------
(* Times extrapolated from the sequence.  The codec's zero is a whole number *)
(* of wraps; every time it finds is the true one less that zero, as long as  *)
(* the rate it goes by is steady enough.                                     *)

\* No retransmission meets a change of framing: UpgradeLoss refutes SameEpoch.
NoUpgradeLoss == \A c \in AdvCases : ~(c.start_main /\ c.resends)

\* The average rate since the anchor leads from the newest packet to every one
\* under way with an error below half a wrap: PausingStream refutes SameEpoch.
Extrapolates ==
  \A m \in inair : m.adv /\ clock.started /\ clock.ref_seq > clock.base_seq =>
    pushes[m.k] - pushes[clock.ref_seq]
      - (m.k - clock.ref_seq) * ((pushes[clock.ref_seq] - pushes[clock.base_seq])
                                   \div (clock.ref_seq - clock.base_seq))
      \in 1 - TsMod \div 2 .. TsMod \div 2 - 1

\* The codec's zero on the stream's clock, for the times P of the packets.
ZeroOf(c, P) == P[c.base_seq] - c.base
NotBelow0(x) == IF x < 0 THEN 0 ELSE x

Timed(P) == /\ P \in Seq(Nat)
            /\ \A i \in DOMAIN P, j \in DOMAIN P : i <= j => P[i] <= P[j]
ClockTrue(c, P) ==
  /\ c.started \in BOOLEAN
  /\ c.started => /\ c.base_seq \in 1 .. Len(P) /\ c.ref_seq \in c.base_seq .. Len(P)
                  /\ c.base = P[c.base_seq] % TsMod
                  /\ c.ref = P[c.ref_seq] - ZeroOf(c, P)
PacketTrue(m, a, f, P) ==
  /\ m.k \in 1 .. Len(P) /\ m.ts = P[m.k] % TsMod
  /\ m.adv \in BOOLEAN /\ m.retransmit \in BOOLEAN
  /\ ~a.start_main => m.adv
  /\ m.retransmit => a.resends /\ f.started
FollowTrue(a, f, c, P) ==
  /\ f.started \in BOOLEAN /\ f.short_seq \in BOOLEAN
  /\ ~a.start_main => c.started = f.started
  /\ f.started =>
       /\ f.k \in 1 .. Len(P) /\ f.now \in Int /\ f.first \in Nat \ {0}
       /\ ~a.start_main => ~f.short_seq /\ f.first = c.base_seq
       /\ f.offset = f.now - (IF f.short_seq THEN P[f.k] ELSE NotBelow0(P[f.k] - ZeroOf(c, P)))
       /\ ~f.short_seq => c.started /\ ZeroOf(c, P) - P[f.k] < TsMod \div 2
EpochInv ==
  /\ acase \in AdvCases /\ supports \in BOOLEAN
  /\ Timed(pushes)
  /\ ClockTrue(clock, pushes)
  /\ \A m \in inair : PacketTrue(m, acase, follow, pushes)
  /\ FollowTrue(acase, follow, clock, pushes)

LEMMA HalfWrap == TsMod \in Nat \ {0} /\ TsMod % 2 = 0 /\ TsMod \div 2 \in Nat
  BY AdvancedAssumption

\* One more packet leaves the times of the others.
LEMMA PushedTimes ==
  ASSUME NEW P, Timed(P), NEW t \in Nat, \A i \in DOMAIN P : P[i] <= t
  PROVE  /\ Timed(Append(P, t)) /\ Len(Append(P, t)) = Len(P) + 1
         /\ Append(P, t)[Len(P) + 1] = t
         /\ \A i \in 1 .. Len(P) : i \in 1 .. Len(Append(P, t)) /\ Append(P, t)[i] = P[i]
  <1>1. P \in Seq(Nat) /\ Len(P) \in Nat /\ DOMAIN P = 1 .. Len(P) BY DEF Timed
  <1> DEFINE Q == Append(P, t)
  <1>2. /\ Q \in Seq(Nat) /\ Len(Q) = Len(P) + 1 /\ DOMAIN Q = 1 .. Len(P) + 1
        /\ Q[Len(P) + 1] = t /\ \A i \in 1 .. Len(P) : Q[i] = P[i]
    BY <1>1
  <1> HIDE DEF Q
  <1>3. ASSUME NEW i \in DOMAIN Q, NEW j \in DOMAIN Q, i <= j PROVE Q[i] <= Q[j]
    <2>1. CASE j \in 1 .. Len(P)
      <3>1. i \in 1 .. Len(P) BY <1>1, <1>2, <1>3, <2>1
      <3> QED BY <1>1, <1>2, <1>3, <2>1, <3>1 DEF Timed
    <2>2. CASE j = Len(P) + 1 /\ i = Len(P) + 1 BY <1>2, <2>2
    <2>3. CASE j = Len(P) + 1 /\ i \in 1 .. Len(P) BY <1>1, <1>2, <2>3
    <2> QED BY <1>1, <1>2, <2>1, <2>2, <2>3
  <1> QED BY <1>1, <1>2, <1>3 DEF Timed, Q

\* Times are whole numbers, the present one the greatest.
LEMMA TimeType == ASSUME NEW P, Timed(P), NEW i \in 1 .. Len(P) PROVE P[i] \in Nat
  BY DEF Timed

LEMMA NowType == ASSUME Timed(pushes)
                 PROVE  Now \in Nat /\ \A i \in DOMAIN pushes : pushes[i] <= Now
  <1>1. CASE pushes = <<>> BY <1>1 DEF Now
  <1>2. CASE pushes # <<>>
    <2>1. Len(pushes) \in DOMAIN pushes /\ pushes[Len(pushes)] \in Nat
          /\ \A i \in DOMAIN pushes : i <= Len(pushes)
      BY <1>2 DEF Timed
    <2> QED BY <1>2, <2>1 DEF Now, Timed
  <1> QED BY <1>1, <1>2

\* What the clock, the packets and the flow say of the times so far stays true.
LEMMA TimesExtended ==
  ASSUME NEW P, NEW Q, Timed(P), Len(Q) \in Nat, Len(P) \in Nat,
         \A i \in 1 .. Len(P) : i \in 1 .. Len(Q) /\ Q[i] = P[i]
  PROVE  /\ \A c : ClockTrue(c, P) => ClockTrue(c, Q)
         /\ \A m, a, f : PacketTrue(m, a, f, P) => PacketTrue(m, a, f, Q)
         /\ \A a, f, c : ClockTrue(c, P) /\ FollowTrue(a, f, c, P) => FollowTrue(a, f, c, Q)
  <1>1. ASSUME NEW c, ClockTrue(c, P) PROVE ClockTrue(c, Q) /\ (c.started => ZeroOf(c, Q) = ZeroOf(c, P))
    <2>1. CASE ~c.started BY <1>1, <2>1 DEF ClockTrue
    <2>2. CASE c.started
      <3>1. /\ c.base_seq \in 1 .. Len(P) /\ c.ref_seq \in c.base_seq .. Len(P)
            /\ c.ref_seq \in 1 .. Len(P)
        BY <1>1, <2>2 DEF ClockTrue
      <3>2. c.ref_seq \in c.base_seq .. Len(Q) BY <3>1
      <3> QED BY <1>1, <2>2, <3>1, <3>2 DEF ClockTrue, ZeroOf
    <2> QED BY <1>1, <2>1, <2>2 DEF ClockTrue
  <1>2. ASSUME NEW m, NEW a, NEW f, PacketTrue(m, a, f, P) PROVE PacketTrue(m, a, f, Q)
    BY <1>2 DEF PacketTrue
  <1>3. ASSUME NEW a, NEW f, NEW c, ClockTrue(c, P), FollowTrue(a, f, c, P)
        PROVE  FollowTrue(a, f, c, Q)
    <2>1. c.started => ZeroOf(c, Q) = ZeroOf(c, P) BY <1>1, <1>3
    <2> QED BY <1>3, <2>1 DEF FollowTrue
  <1> QED BY <1>1, <1>2, <1>3

\* Whole wraps taken off a time leave its timestamp.
LEMMA WholeWraps ==
  ASSUME NEW t \in Nat, NEW b \in Nat
  PROVE  b % TsMod \in 0 .. TsMod - 1 /\ b % TsMod \in Int
         /\ t % TsMod = (t - (b - (b % TsMod))) % TsMod
  <1>1. b % TsMod \in 0 .. TsMod - 1 /\ t % TsMod \in 0 .. TsMod - 1 BY HalfWrap, ModRange
  <1>0. TsMod \in Nat \ {0} /\ b \in Int /\ t \in Int BY HalfWrap
  <1>2. PICK q \in Int : b = TsMod * q + (b % TsMod) BY ONLY <1>0, ModSplit, ZenonT(30)
  <1>3. PICK p \in Int : t = TsMod * p + (t % TsMod) BY ONLY <1>0, ModSplit, ZenonT(30)
  <1> DEFINE w == t % TsMod
             u == b % TsMod
             n == p - q
  <1>4. w \in Int /\ u \in Int /\ n \in Int /\ w \in 0 .. TsMod - 1 BY <1>1, HalfWrap
  <1>5. /\ TsMod * p \in Int /\ TsMod * q \in Int /\ TsMod * n = TsMod * p - TsMod * q
    BY HalfWrap
  <1>6. t = TsMod * p + w /\ b = TsMod * q + u BY <1>2, <1>3
  <1> HIDE DEF w, u, n
  <1>7. t - (b - u) = TsMod * n + w /\ t - (b - u) \in Int BY <1>4, <1>5, <1>6
  <1>8. (t - (b - u)) % TsMod = w BY <1>4, <1>7, HalfWrap, ModIs
  <1> QED BY <1>1, <1>4, <1>8 DEF w, u

\* The wrapping timestamp, widened at the extrapolated reference, is the time
\* of the packet from the codec's zero.
LEMMA TicksTrue ==
  ASSUME EpochInv, Extrapolates, NEW m \in inair, m.adv, InTime(m), clock.started
  PROVE  ZeroOf(clock, pushes) \in Int /\ AdvTicks(m) = pushes[m.k] - ZeroOf(clock, pushes)
  <1> DEFINE P == pushes
             z == ZeroOf(clock, pushes)
             b == P[clock.base_seq]
             r == P[clock.ref_seq]
             t == P[m.k]
             e == Reference(m.k)
             d == (t - z) - e
  <1>1. /\ Timed(P) /\ m.k \in 1 .. Len(P) /\ m.ts = t % TsMod
        /\ clock.base_seq \in 1 .. Len(P) /\ clock.ref_seq \in clock.base_seq .. Len(P)
        /\ clock.base = b % TsMod /\ clock.ref = r - z
    BY DEF EpochInv, ClockTrue, PacketTrue
  <1>2. Len(P) \in Nat /\ clock.ref_seq \in 1 .. Len(P) BY <1>1 DEF Timed
  <1>3. b \in Nat /\ r \in Nat /\ t \in Nat BY <1>1, <1>2, TimeType
  <1>4. z \in Int /\ clock.base = b - z /\ clock.base \in Int /\ t % TsMod = (t - z) % TsMod
    <2>1. z = b - clock.base BY DEF ZeroOf
    <2> HIDE DEF z, b, t
    <2>2. clock.base \in Int /\ t % TsMod = (t - (b - clock.base)) % TsMod BY <1>1, <1>3, WholeWraps
    <2> QED BY <1>3, <2>1, <2>2
  <1>5. e \in Int /\ d \in 1 - TsMod \div 2 .. TsMod \div 2 - 1
    <2>1. CASE clock.ref_seq > clock.base_seq
      <3> DEFINE rate == (clock.ref - clock.base) \div (clock.ref_seq - clock.base_seq)
                 lead == (m.k - clock.ref_seq) * rate
      <3>1. clock.ref - clock.base = r - b BY <1>1, <1>3, <1>4
      <3>2. t - r - (m.k - clock.ref_seq) * ((r - b) \div (clock.ref_seq - clock.base_seq))
              \in 1 - TsMod \div 2 .. TsMod \div 2 - 1
        BY <2>1 DEF Extrapolates
      <3>3. t - r - lead \in 1 - TsMod \div 2 .. TsMod \div 2 - 1 BY <3>1, <3>2
      <3>4. e = clock.ref + lead BY <2>1 DEF Reference
      <3>5. lead \in Int
        <4>1. clock.ref_seq - clock.base_seq \in Nat \ {0} BY <1>1, <1>2, <2>1
        <4>2. r - b \in Int BY <1>3
        <4>3. rate \in Int BY <3>1, <4>1, <4>2
        <4>4. m.k - clock.ref_seq \in Int BY <1>1, <1>2
        <4> HIDE DEF rate
        <4> QED BY <4>3, <4>4
      <3> HIDE DEF lead, e, z, b, r, t
      <3> QED BY <1>1, <1>3, <1>4, <3>3, <3>4, <3>5, HalfWrap
    <2>2. CASE clock.ref_seq = clock.base_seq
      <3>1. e = clock.ref BY <1>1, <1>2, <2>2 DEF Reference
      <3>2. t - b \in 1 - TsMod \div 2 .. TsMod \div 2 - 1 BY <2>2 DEF InTime
      <3>3. r = b BY <2>2
      <3> HIDE DEF e, z, b, r, t
      <3> QED BY <1>1, <1>3, <1>4, <3>1, <3>2, <3>3
    <2> QED BY <1>1, <1>2, <2>1, <2>2
  <1>6. m.ts = (e + d) % TsMod
    <2>1. e + d = t - z
      <3> HIDE DEF e, z, t
      <3> QED BY <1>3, <1>4, <1>5
    <2> HIDE DEF e, d, z, t
    <2> QED BY <1>1, <1>4, <2>1
  <1>7. WidenUs(m.ts, e) = Nearest(m.ts, e, TsMod) BY DEF WidenUs, Nearest
  <1>8. Nearest((e + d) % TsMod, e, TsMod) = e + d
    <2> HIDE DEF e, d
    <2> QED BY <1>5, HalfWrap, NearestIs
  <1>9. e + d = t - z
    <2> HIDE DEF e, z, t
    <2> QED BY <1>3, <1>4, <1>5
  <1>10. AdvTicks(m) = WidenUs(m.ts, e) BY DEF AdvTicks
  <1> HIDE DEF e, d
  <1> QED BY <1>4, <1>6, <1>7, <1>8, <1>9, <1>10

\* AdvSend: a packet pushed later than all others.
LEMMA NowExtended ==
  ASSUME EpochInv, NEW gap \in Nat
  PROVE  /\ Timed(Append(pushes, Now + gap))
         /\ Len(Append(pushes, Now + gap)) = Len(pushes) + 1
         /\ Append(pushes, Now + gap)[Len(pushes) + 1] = Now + gap
         /\ ClockTrue(clock, Append(pushes, Now + gap))
         /\ \A m \in inair : PacketTrue(m, acase, follow, Append(pushes, Now + gap))
         /\ FollowTrue(acase, follow, clock, Append(pushes, Now + gap))
         /\ Len(pushes) \in Nat
  <1> DEFINE t == Now + gap
             Q == Append(pushes, t)
  <1>1. Timed(pushes) /\ Len(pushes) \in Nat BY DEF EpochInv, Timed
  <1>2. Now \in Nat /\ t \in Nat /\ \A i \in DOMAIN pushes : pushes[i] <= t
    <2>1. Now \in Nat /\ \A i \in DOMAIN pushes : pushes[i] <= Now BY <1>1, NowType
    <2>2. \A i \in DOMAIN pushes : pushes[i] \in Nat BY <1>1 DEF Timed
    <2> QED BY <2>1, <2>2
  <1> HIDE DEF t
  <1>3. /\ Timed(Q) /\ Len(Q) = Len(pushes) + 1 /\ Q[Len(pushes) + 1] = t
        /\ \A i \in 1 .. Len(pushes) : i \in 1 .. Len(Q) /\ Q[i] = pushes[i]
    BY <1>1, <1>2, PushedTimes
  <1> HIDE DEF Q
  <1>4. Len(Q) \in Nat BY <1>1, <1>3
  <1>5. /\ \A c : ClockTrue(c, pushes) => ClockTrue(c, Q)
        /\ \A m, a, f : PacketTrue(m, a, f, pushes) => PacketTrue(m, a, f, Q)
        /\ \A a, f, c : ClockTrue(c, pushes) /\ FollowTrue(a, f, c, pushes) => FollowTrue(a, f, c, Q)
    BY <1>1, <1>3, <1>4, TimesExtended
  <1>6. ClockTrue(clock, Q) /\ (\A m \in inair : PacketTrue(m, acase, follow, Q))
        /\ FollowTrue(acase, follow, clock, Q)
    BY <1>5 DEF EpochInv
  <1> QED BY <1>1, <1>3, <1>6 DEF Q, t

\* A packet framed at its time carries that time's timestamp.
LEMMA FramedTrue ==
  ASSUME EpochInv, NEW P, Len(P) \in Nat, NEW k \in 1 .. Len(P), NEW again \in BOOLEAN,
         again => acase.resends /\ follow.started
  PROVE  PacketTrue(AdvPacket(k, P[k], again), acase, follow, P)
  <1>1. AdvFramed \in BOOLEAN /\ (~acase.start_main => AdvFramed)
    BY AdvancedAssumption DEF EpochInv, AdvFramed, AdvCase
  <1> QED BY <1>1 DEF PacketTrue, AdvPacket

\* The steps that may change what a packet, the clock or the flow say.
LEMMA SendEpoch == ASSUME EpochInv, AdvSend PROVE EpochInv' /\ SameEpoch'
  <1>1. PICK gap \in acase.gaps : pushes' = Append(pushes, Now + gap) BY DEF AdvSend
  <1>2. gap \in Nat BY AdvancedAssumption DEF EpochInv, AdvCase
  <1> DEFINE Q == Append(pushes, Now + gap)
             k == Len(pushes) + 1
  <1>3. /\ Timed(Q) /\ Len(Q) = k /\ Len(pushes) \in Nat
        /\ ClockTrue(clock, Q) /\ (\A m \in inair : PacketTrue(m, acase, follow, Q))
        /\ FollowTrue(acase, follow, clock, Q)
    BY <1>2, NowExtended
  <1>4. pushes' = Q BY <1>1
  <1> HIDE DEF Q
  <1>5. /\ inair' = inair \cup {AdvPacket(k, Q[k], FALSE)} /\ placed' = NotPlaced
        /\ UNCHANGED <<acase, supports, clock, follow>>
    BY <1>3, <1>4 DEF AdvSend
  <1>6. PacketTrue(AdvPacket(k, Q[k], FALSE), acase, follow, Q)
    <2>1. k \in 1 .. Len(Q) /\ Len(Q) \in Nat BY <1>3
    <2> HIDE DEF k
    <2> QED BY <2>1, FramedTrue
  <1> HIDE DEF k
  <1>7. \A m \in inair' : PacketTrue(m, acase, follow, Q) BY <1>3, <1>5, <1>6
  <1>8. EpochInv' BY <1>3, <1>4, <1>5, <1>7 DEF EpochInv
  <1>9. SameEpoch' BY <1>5 DEF SameEpoch
  <1> QED BY <1>8, <1>9

LEMMA ResendEpoch == ASSUME EpochInv, AdvResend PROVE EpochInv' /\ SameEpoch'
  <1>1. PICK k \in follow.first .. Len(pushes) :
          inair' = inair \cup {AdvPacket(k, pushes[k], TRUE)}
    BY DEF AdvResend
  <1>2. /\ acase.resends /\ follow.started /\ placed' = NotPlaced
        /\ UNCHANGED <<acase, pushes, supports, clock, follow>>
    BY DEF AdvResend
  <1>3. Len(pushes) \in Nat /\ follow.first \in Nat \ {0} BY <1>2 DEF EpochInv, Timed, FollowTrue
  <1>4. k \in 1 .. Len(pushes) BY <1>1, <1>3
  <1>5. PacketTrue(AdvPacket(k, pushes[k], TRUE), acase, follow, pushes)
    BY <1>2, <1>3, <1>4, FramedTrue
  <1>6. \A m \in inair' : PacketTrue(m, acase, follow, pushes) BY <1>1, <1>5 DEF EpochInv
  <1>7. EpochInv' BY <1>2, <1>6 DEF EpochInv
  <1>8. SameEpoch' BY <1>2 DEF SameEpoch
  <1> QED BY <1>7, <1>8

\* The packet delivered: the codec's reference after it, and its time from the
\* codec's zero.
LEMMA TrackedTrue ==
  ASSUME EpochInv, Extrapolates, NEW m \in inair, m.adv, InTime(m)
  PROVE  /\ ClockTrue(Tracked(m), pushes) /\ Tracked(m).started
         /\ ZeroOf(Tracked(m), pushes) \in Int
         /\ AdvTicks(m) = pushes[m.k] - ZeroOf(Tracked(m), pushes)
         /\ clock.started => /\ Tracked(m).base_seq = clock.base_seq
                             /\ ZeroOf(Tracked(m), pushes) = ZeroOf(clock, pushes)
         /\ ~clock.started => Tracked(m).base_seq = m.k
  <1>1. /\ Timed(pushes) /\ m.k \in 1 .. Len(pushes) /\ m.ts = pushes[m.k] % TsMod
        /\ Len(pushes) \in Nat /\ pushes[m.k] \in Nat
    BY TimeType DEF EpochInv, PacketTrue, Timed
  <1>2. CASE ~clock.started
    <2> DEFINE t == AdvTicks(m)
               c == [started |-> TRUE, base_seq |-> m.k, base |-> t, ref_seq |-> m.k, ref |-> t]
    <2>1. t = pushes[m.k] % TsMod BY <1>1, <1>2 DEF AdvTicks
    <2>2. t \in Int BY <1>1, <2>1, WholeWraps
    <2>3. Tracked(m) = c BY <1>2 DEF Tracked
    <2> HIDE DEF t
    <2>4. ZeroOf(c, pushes) = pushes[m.k] - t BY DEF ZeroOf
    <2>5. ZeroOf(c, pushes) \in Int /\ t = pushes[m.k] - ZeroOf(c, pushes) BY <1>1, <2>2, <2>4
    <2>6. m.k \in m.k .. Len(pushes) BY <1>1
    <2>7. ClockTrue(c, pushes) /\ c.started /\ c.base_seq = m.k BY <1>1, <2>1, <2>5, <2>6 DEF ClockTrue
    <2> QED BY <1>2, <2>3, <2>5, <2>7 DEF t
  <1>3. CASE clock.started /\ m.k > clock.ref_seq
    <2> DEFINE t == AdvTicks(m)
               c == [clock EXCEPT !.ref_seq = m.k, !.ref = t]
    <2>1. ZeroOf(clock, pushes) \in Int /\ t = pushes[m.k] - ZeroOf(clock, pushes)
      BY <1>3, TicksTrue
    <2>2. Tracked(m) = c BY <1>3 DEF Tracked
    <2> HIDE DEF t
    <2>3. ClockTrue(clock, pushes) BY DEF EpochInv
    <2>4. /\ c.started = clock.started /\ c.base_seq = clock.base_seq /\ c.base = clock.base
          /\ c.ref_seq = m.k /\ c.ref = t
      BY DEF c
    <2>5. ZeroOf(c, pushes) = ZeroOf(clock, pushes) BY <2>4 DEF ZeroOf
    <2>6. m.k \in clock.base_seq .. Len(pushes) BY <1>1, <1>3, <2>3 DEF ClockTrue
    <2> HIDE DEF c
    <2>7. ClockTrue(c, pushes) BY <1>3, <2>1, <2>3, <2>4, <2>5, <2>6 DEF ClockTrue
    <2> QED BY <1>3, <2>1, <2>2, <2>4, <2>5, <2>7 DEF t
  <1>4. CASE clock.started /\ ~(m.k > clock.ref_seq)
    <2>1. Tracked(m) = clock BY <1>4 DEF Tracked
    <2> QED BY <1>4, <2>1, TicksTrue DEF EpochInv
  <1> QED BY <1>2, <1>3, <1>4

\* What a delivery knows: the clock c and the flow f after it.
DeliverTrue(m, c, f) ==
  /\ m \in inair /\ InTime(m)
  /\ m.k \in 1 .. Len(pushes) /\ pushes[m.k] \in Nat
  /\ ClockTrue(c, pushes)
  /\ clock.started => c.started /\ c.base_seq = clock.base_seq
                      /\ ZeroOf(c, pushes) = ZeroOf(clock, pushes)
  /\ c.started => ZeroOf(c, pushes) \in Int
  /\ ~clock.started /\ c.started => c.base_seq = m.k
  /\ m.adv => c.started /\ TimeOf(m) = NotBelow0(pushes[m.k] - ZeroOf(c, pushes))
  /\ ~m.adv => c = clock /\ TimeOf(m) = pushes[m.k]
  /\ f = Followed(m)

LEMMA DeliverKnows ==
  ASSUME EpochInv, Extrapolates, NEW m \in inair, InTime(m)
  PROVE  DeliverTrue(m, IF m.adv THEN Tracked(m) ELSE clock, Followed(m))
  <1>1. m.k \in 1 .. Len(pushes) /\ pushes[m.k] \in Nat
    BY TimeType DEF EpochInv, PacketTrue
  <1>2. CASE m.adv
    <2>1. TimeOf(m) = NotBelow0(AdvTicks(m)) BY <1>2 DEF TimeOf, SourceMicros, NotBelow0
    <2> QED BY <1>1, <1>2, <2>1, TrackedTrue DEF DeliverTrue
  <1>3. CASE ~m.adv
    <2>1. TimeOf(m) = pushes[m.k] BY <1>3 DEF TimeOf
    <2>2. ClockTrue(clock, pushes) BY DEF EpochInv
    <2>3. clock.started => ZeroOf(clock, pushes) \in Int
      <3> SUFFICES ASSUME clock.started PROVE ZeroOf(clock, pushes) \in Int OBVIOUS
      <3>1. clock.base_seq \in 1 .. Len(pushes) /\ clock.base = pushes[clock.base_seq] % TsMod
        BY <2>2 DEF ClockTrue
      <3>2. pushes[clock.base_seq] \in Nat BY <3>1, TimeType DEF EpochInv
      <3>3. clock.base \in Int BY <3>1, <3>2, WholeWraps
      <3> QED BY <3>2, <3>3 DEF ZeroOf
    <2> QED BY <1>1, <1>3, <2>1, <2>2, <2>3 DEF DeliverTrue
  <1> QED BY <1>2, <1>3

\* A packet that came in time lies less than half a wrap before the zero.
LEMMA ZeroNear ==
  ASSUME EpochInv, NEW m, NEW c, NEW f, DeliverTrue(m, c, f), c.started, ~m.retransmit
  PROVE  ZeroOf(c, pushes) - pushes[m.k] < TsMod \div 2
  <1> DEFINE b == pushes[c.base_seq]
             t == pushes[m.k]
  <1>1. c.base_seq \in 1 .. Len(pushes) /\ c.base = b % TsMod /\ t \in Nat
    BY DEF DeliverTrue, ClockTrue
  <1>2. b \in Nat /\ b <= Now /\ Now \in Nat BY <1>1, TimeType, NowType DEF EpochInv, Timed
  <1>3. c.base \in Int /\ c.base >= 0
    <2> HIDE DEF b
    <2>1. b % TsMod \in 0 .. TsMod - 1 /\ b % TsMod \in Int BY <1>2, WholeWraps
    <2> QED BY <1>1, <2>1, HalfWrap
  <1>4. Now - t < TsMod \div 2 BY DEF DeliverTrue, InTime
  <1>5. ZeroOf(c, pushes) = b - c.base BY DEF ZeroOf
  <1> HIDE DEF b, t
  <1>6. b - c.base - t < TsMod \div 2 BY <1>1, <1>2, <1>3, <1>4, HalfWrap
  <1> QED BY <1>5, <1>6 DEF t

\* The flow after a delivery: a fresh packet of the other framing moves its clock.
LEMMA FollowedTrue ==
  ASSUME EpochInv, NoUpgradeLoss, NEW m, NEW c, NEW f, DeliverTrue(m, c, f)
  PROVE  FollowTrue(acase, f, c, pushes) /\ (follow.started => f.started)
  <1>1. /\ acase \in AdvCases /\ PacketTrue(m, acase, follow, pushes)
        /\ FollowTrue(acase, follow, clock, pushes) /\ m.k \in 1 .. Len(pushes)
        /\ Len(pushes) \in Nat /\ pushes[m.k] \in Nat
    BY DEF EpochInv, DeliverTrue, Timed
  <1>2. Now \in Nat BY NowType DEF EpochInv
  <1>3. CASE Relocks(m)
    <2> DEFINE g == [started |-> TRUE, first |-> IF follow.started THEN follow.first ELSE m.k,
                     short_seq |-> ~m.adv, k |-> m.k, now |-> Now, offset |-> Now - TimeOf(m)]
    <2>1. f = g BY <1>3 DEF DeliverTrue, Followed
    <2>2. ~m.retransmit BY <1>3 DEF Relocks
    <2>3. g.first \in Nat \ {0} BY <1>1 DEF FollowTrue
    <2>4. ~acase.start_main => ~g.short_seq /\ g.first = c.base_seq /\ c.started
      <3> SUFFICES ASSUME ~acase.start_main PROVE ~g.short_seq /\ g.first = c.base_seq /\ c.started
        OBVIOUS
      <3>1. m.adv /\ clock.started = follow.started BY <1>1 DEF PacketTrue, FollowTrue
      <3>2. CASE follow.started
        <4>1. follow.first = clock.base_seq BY <1>1, <3>2 DEF FollowTrue
        <4> QED BY <3>1, <3>2, <4>1 DEF DeliverTrue
      <3>3. CASE ~follow.started BY <3>1, <3>3 DEF DeliverTrue
      <3> QED BY <3>2, <3>3
    <2>5. g.offset = g.now - (IF g.short_seq THEN pushes[g.k]
                              ELSE NotBelow0(pushes[g.k] - ZeroOf(c, pushes)))
      <3>1. TimeOf(m) = IF m.adv THEN NotBelow0(pushes[m.k] - ZeroOf(c, pushes)) ELSE pushes[m.k]
        BY DEF DeliverTrue
      <3> QED BY <3>1
    <2>6. ~g.short_seq => c.started /\ ZeroOf(c, pushes) - pushes[g.k] < TsMod \div 2
      <3> SUFFICES ASSUME m.adv PROVE c.started /\ ZeroOf(c, pushes) - pushes[m.k] < TsMod \div 2
        OBVIOUS
      <3>1. c.started BY DEF DeliverTrue
      <3> QED BY <2>2, <3>1, ZeroNear
    <2>7. g.started = TRUE /\ g.short_seq \in BOOLEAN /\ g.k = m.k /\ g.now = Now
      BY <1>1 DEF PacketTrue
    <2> HIDE DEF g
    <2>8. c.started \in BOOLEAN BY DEF DeliverTrue, ClockTrue
    <2>9. ~acase.start_main => c.started = TRUE BY <2>4, <2>8
    <2>10. f.started = TRUE /\ f.first = g.first /\ f.k = m.k /\ f.now \in Int
           /\ f.k \in 1 .. Len(pushes) /\ f.short_seq = g.short_seq
      BY <1>1, <1>2, <2>1, <2>7
    <2> QED BY <2>1, <2>3, <2>4, <2>5, <2>6, <2>7, <2>9, <2>10 DEF FollowTrue
  <1>4. CASE ~Relocks(m)
    <2>1. f = follow BY <1>4 DEF DeliverTrue, Followed
    <2>2. follow.started BY <1>1, <1>4 DEF Relocks, PacketTrue
    <2>3. clock.started => c.started /\ c.base_seq = clock.base_seq
                           /\ ZeroOf(c, pushes) = ZeroOf(clock, pushes)
      BY DEF DeliverTrue
    <2>4. ~acase.start_main => clock.started BY <1>1, <2>2 DEF FollowTrue
    <2>5. c.started \in BOOLEAN BY DEF DeliverTrue, ClockTrue
    <2> QED BY <1>1, <2>1, <2>2, <2>3, <2>4, <2>5 DEF FollowTrue
  <1> QED BY <1>3, <1>4

\* A packet placed is placed in the epoch of the one that set the clock.
LEMMA PlacedTrue ==
  ASSUME EpochInv, NoUpgradeLoss, NEW m, NEW c, NEW f, DeliverTrue(m, c, f),
         f.started, m.k >= f.first
  PROVE  (TimeOf(m) + f.offset) - (f.now + pushes[m.k] - pushes[f.k])
           \in 1 - TsMod \div 2 .. TsMod \div 2 - 1
  <1>1. /\ acase \in AdvCases /\ PacketTrue(m, acase, follow, pushes)
        /\ FollowTrue(acase, follow, clock, pushes) /\ pushes[m.k] \in Nat
    BY DEF EpochInv, DeliverTrue
  <1>2. TsMod \div 2 >= 1 /\ TsMod \div 2 \in Nat BY HalfWrap
  <1>3. FollowTrue(acase, f, c, pushes) BY FollowedTrue
  <1>4. f.now \in Int /\ pushes[f.k] \in Nat BY <1>3, TimeType DEF FollowTrue, EpochInv
  <1> DEFINE t == pushes[m.k]
             u == pushes[f.k]
             z == ZeroOf(c, pushes)
             n == f.now
             h == TsMod \div 2
             low(x) == IF x < 0 THEN 0 ELSE x
  <1>5. CASE Relocks(m)
    <2>1. f.offset = Now - TimeOf(m) /\ f.now = Now /\ f.k = m.k
      BY <1>5 DEF DeliverTrue, Followed
    <2>2. TimeOf(m) \in Int
      <3>1. CASE m.adv
        <4>1. z \in Int /\ TimeOf(m) = NotBelow0(t - z) BY <3>1 DEF DeliverTrue
        <4> HIDE DEF z, t
        <4> QED BY <4>1, <1>1 DEF NotBelow0, t
      <3>2. CASE ~m.adv BY <1>1, <3>2 DEF DeliverTrue
      <3> QED BY <3>1, <3>2
    <2>3. Now \in Int BY <1>4, <2>1
    <2>4. (TimeOf(m) + f.offset) - (f.now + pushes[m.k] - pushes[f.k]) = 0
      BY <1>1, <2>1, <2>2, <2>3
    <2> QED BY <1>2, <2>4
  <1>6. CASE ~Relocks(m)
    <2>1. f = follow BY <1>6 DEF DeliverTrue, Followed
    <2>2. CASE ~m.adv
      <3>1. f.short_seq
        <4>1. acase.start_main BY <1>1, <2>2 DEF PacketTrue
        <4>2. ~m.retransmit BY <1>1, <4>1 DEF PacketTrue, NoUpgradeLoss
        <4>3. follow.short_seq \in BOOLEAN /\ m.adv \in BOOLEAN BY <1>1 DEF FollowTrue, PacketTrue
        <4> QED BY <1>6, <2>1, <2>2, <4>2, <4>3 DEF Relocks
      <3>2. f.offset = n - u BY <1>3, <3>1 DEF FollowTrue
      <3>3. TimeOf(m) = t BY <2>2 DEF DeliverTrue
      <3>4. (TimeOf(m) + f.offset) - (f.now + pushes[m.k] - pushes[f.k]) = 0
        BY <1>1, <1>4, <3>2, <3>3
      <3> QED BY <1>2, <3>4
    <2>3. CASE m.adv
      <3>1. ~f.short_seq
        <4>1. CASE m.retransmit
          <5>1. ~acase.start_main BY <1>1, <4>1 DEF PacketTrue, NoUpgradeLoss
          <5> QED BY <1>3, <5>1 DEF FollowTrue
        <4>2. CASE ~m.retransmit BY <1>6, <2>1, <2>3, <4>2 DEF Relocks
        <4> QED BY <4>1, <4>2
      <3>2. c.started /\ z \in Int /\ TimeOf(m) = low(t - z)
        BY <2>3 DEF DeliverTrue, NotBelow0
      <3>3. f.offset = n - low(u - z) /\ z - u < h
        BY <1>3, <3>1 DEF FollowTrue, NotBelow0
      <3>4. z - t < h
        <4>1. CASE ~m.retransmit BY <3>2, <4>1, ZeroNear
        <4>2. CASE m.retransmit
          <5>1. ~acase.start_main BY <1>1, <4>2 DEF PacketTrue, NoUpgradeLoss
          <5>2. m.k >= c.base_seq BY <1>3, <5>1 DEF FollowTrue
          <5>3. /\ c.base_seq \in 1 .. Len(pushes) /\ c.base = pushes[c.base_seq] % TsMod
                /\ m.k \in 1 .. Len(pushes)
            BY <3>2 DEF DeliverTrue, ClockTrue
          <5>4. pushes[c.base_seq] <= t /\ pushes[c.base_seq] \in Nat
            BY <5>2, <5>3, TimeType DEF EpochInv, Timed
          <5>5. c.base \in 0 .. TsMod - 1 /\ c.base \in Int BY <5>3, <5>4, WholeWraps
          <5>6. z = pushes[c.base_seq] - c.base BY DEF ZeroOf
          <5> HIDE DEF z, t, h
          <5>7. t \in Nat BY <1>1 DEF t
          <5>8. h \in Nat /\ h >= 1 BY <1>2 DEF h
          <5>9. c.base >= 0 BY <5>5, HalfWrap
          <5> QED BY <5>4, <5>5, <5>6, <5>7, <5>8, <5>9
        <4> QED BY <4>1, <4>2
      <3>5. t \in Nat /\ u \in Nat /\ n \in Int /\ h \in Nat /\ h >= 1 BY <1>1, <1>2, <1>4
      <3> HIDE DEF t, u, z, n, h
      <3>6. /\ low(t - z) - (t - z) \in 0 .. h - 1 /\ low(u - z) - (u - z) \in 0 .. h - 1
            /\ low(t - z) \in Int /\ low(u - z) \in Int
        BY <3>2, <3>3, <3>4, <3>5
      <3> HIDE DEF low
      <3>7. (low(t - z) + (n - low(u - z))) - (n + t - u) \in 1 - h .. h - 1
        <4> DEFINE x == low(t - z)
                   y == low(u - z)
        <4> HIDE DEF x, y
        <4>1. x \in Int /\ y \in Int /\ x - (t - z) \in 0 .. h - 1 /\ y - (u - z) \in 0 .. h - 1
          BY <3>6 DEF x, y
        <4>2. (x + (n - y)) - (n + t - u) = (x - (t - z)) - (y - (u - z)) BY <3>2, <3>5, <4>1
        <4>3. (x + (n - y)) - (n + t - u) \in 1 - h .. h - 1 BY <3>2, <3>5, <4>1, <4>2
        <4> QED BY <4>3 DEF x, y
      <3> QED BY <3>2, <3>3, <3>7 DEF t, u, n, h
    <2> QED BY <2>2, <2>3
  <1> QED BY <1>5, <1>6

LEMMA DeliverEpoch ==
  ASSUME EpochInv, NoUpgradeLoss, Extrapolates, AdvDeliver
  PROVE  EpochInv' /\ SameEpoch'
  <1>1. PICK m \in inair :
          /\ InTime(m)
          /\ inair' = inair \ {m}
          /\ clock' = IF m.adv THEN Tracked(m) ELSE clock
          /\ follow' = Followed(m)
          /\ placed' = IF follow'.started /\ m.k >= follow'.first
                       THEN [k |-> m.k, at |-> TimeOf(m) + follow'.offset] ELSE NotPlaced
          /\ UNCHANGED <<acase, pushes, supports, beacons, odd>>
    BY DEF AdvDeliver
  <1>2. DeliverTrue(m, clock', follow') BY <1>1, DeliverKnows
  <1>3. PICK c : c = clock' OBVIOUS
  <1>4. PICK f : f = follow' OBVIOUS
  <1>5. DeliverTrue(m, c, f) BY <1>2, <1>3, <1>4
  <1>6. FollowTrue(acase, f, c, pushes) /\ (follow.started => f.started) BY <1>5, FollowedTrue
  <1>7. \A x \in inair' : PacketTrue(x, acase, f, pushes)
    BY <1>1, <1>6 DEF EpochInv, PacketTrue
  <1>8. ClockTrue(c, pushes) BY <1>5 DEF DeliverTrue
  <1>9. EpochInv'
    BY <1>1, <1>3, <1>4, <1>6, <1>7, <1>8 DEF EpochInv
  <1>10. CASE f.started /\ m.k >= f.first
    <2>1. placed' = [k |-> m.k, at |-> TimeOf(m) + f.offset] BY <1>1, <1>4, <1>10
    <2>2. placed'.k = m.k /\ placed'.at = TimeOf(m) + f.offset BY <2>1
    <2>3. (TimeOf(m) + f.offset) - (f.now + pushes[m.k] - pushes[f.k])
            \in 1 - TsMod \div 2 .. TsMod \div 2 - 1
      BY <1>5, <1>10, PlacedTrue
    <2>4. pushes' = pushes /\ follow' = f BY <1>1, <1>4
    <2>5. SameEpoch' BY <2>2, <2>3, <2>4 DEF SameEpoch
    <2> QED BY <1>9, <2>5
  <1>11. CASE ~(f.started /\ m.k >= f.first)
    <2>1. placed' = NotPlaced BY <1>1, <1>4, <1>11
    <2> QED BY <1>9, <2>1 DEF SameEpoch
  <1> QED BY <1>9, <1>10, <1>11

LEMMA EpochStep ==
  ASSUME EpochInv /\ SameEpoch, NoUpgradeLoss, [AdvNext]_advVars, [Extrapolates]_advVars
  PROVE  (EpochInv /\ SameEpoch)'
  <1>1. CASE UNCHANGED advVars BY <1>1 DEF advVars, EpochInv, SameEpoch, Now
  <1>2. CASE AdvNext /\ Extrapolates
    <2>1. CASE AdvSend BY <2>1, SendEpoch
    <2>2. CASE AdvResend BY <2>2, ResendEpoch
    <2>3. CASE AdvKeepalive BY <2>3 DEF AdvKeepalive, EpochInv, SameEpoch
    <2>4. CASE HearKeepalive BY <2>4 DEF HearKeepalive, EpochInv, SameEpoch
    <2>5. CASE AdvLose
      <3>1. inair' \subseteq inair
            /\ UNCHANGED <<acase, pushes, supports, clock, follow, placed>>
        BY <2>5 DEF AdvLose
      <3> QED BY <3>1 DEF EpochInv, SameEpoch
    <2>6. CASE AdvDeliver BY <1>2, <2>6, DeliverEpoch
    <2>7. CASE SendUnknown BY <2>7 DEF SendUnknown, EpochInv, SameEpoch
    <2>8. CASE HearControl BY <2>8 DEF HearControl, EpochInv, SameEpoch
    <2> QED BY <1>2, <2>1, <2>2, <2>3, <2>4, <2>5, <2>6, <2>7, <2>8 DEF AdvNext
  <1> QED BY <1>1, <1>2

LEMMA EpochInit == AdvInit => EpochInv /\ SameEpoch
  <1> SUFFICES ASSUME AdvInit PROVE EpochInv /\ SameEpoch OBVIOUS
  <1>1. PICK c \in AdvCases : AdvStart(c) BY DEF AdvInit
  <1>2. Timed(pushes) BY <1>1 DEF AdvStart, Timed
  <1>3. clock.started = FALSE /\ follow.started = FALSE /\ follow.short_seq = FALSE
    BY <1>1 DEF AdvStart
  <1>4. EpochInv
    BY <1>1, <1>2, <1>3 DEF AdvStart, EpochInv, ClockTrue, FollowTrue
  <1>5. SameEpoch BY <1>1 DEF AdvStart, SameEpoch
  <1> QED BY <1>4, <1>5

\* SameEpoch: adv_source_micros and recv_feed place every packet in the epoch of
\* the packet that set the flow's clock, over any number of wraps, losses and
\* re-ordering, as long as the average rate extrapolates to within half a wrap.
THEOREM PlacedInOneEpoch ==
  ASSUME NoUpgradeLoss
  PROVE  AdvSpec /\ [][Extrapolates]_advVars => []SameEpoch
  <1>1. EpochInv /\ SameEpoch /\ [AdvNext]_advVars /\ [Extrapolates]_advVars
        => (EpochInv /\ SameEpoch)'
    BY EpochStep
  <1> QED BY <1>1, EpochInit, PTL DEF AdvSpec

\* Every gap of a case is the same.
SteadyRate == \A c \in AdvCases : \E d \in Nat : c.gaps = {d}

SteadyInv ==
  /\ acase \in AdvCases /\ pushes \in Seq(Int)
  /\ \A d \in Nat : acase.gaps = {d} => \A i \in DOMAIN pushes : pushes[i] = d * i

\* A steady stream's packets are pushed at multiples of its gap.
LEMMA SteadyStep == ASSUME SteadyRate, SteadyInv, [AdvNext]_advVars PROVE SteadyInv'
  <1>1. CASE AdvSend
    <2>1. PICK d \in Nat : acase.gaps = {d} BY DEF SteadyRate, SteadyInv
    <2>2. pushes' = Append(pushes, Now + d) /\ acase' = acase BY <1>1, <2>1 DEF AdvSend
    <2> DEFINE n == Len(pushes)
    <2>3. pushes \in Seq(Int) /\ n \in Nat /\ DOMAIN pushes = 1 .. n /\ (pushes = <<>> => n = 0)
          /\ (pushes # <<>> => n \in 1 .. n)
      BY DEF SteadyInv
    <2>4. \A i \in DOMAIN pushes : pushes[i] = d * i BY <2>1 DEF SteadyInv
    <2>5. Now = d * n
      <3>1. CASE pushes = <<>> BY <2>3, <3>1 DEF Now
      <3>2. CASE pushes # <<>> BY <2>3, <2>4, <3>2 DEF Now
      <3> QED BY <3>1, <3>2
    <2>6. Now + d = d * (n + 1)
      <3> HIDE DEF n
      <3>1. d * (n + 1) = d * n + d BY <2>3
      <3> QED BY <2>5, <3>1
    <2> DEFINE t == Now + d
    <2>7. t \in Int
      <3> HIDE DEF n
      <3>1. d * (n + 1) \in Int BY <2>3
      <3> QED BY <2>6, <3>1
    <2> HIDE DEF t
    <2>8. /\ pushes' \in Seq(Int) /\ DOMAIN pushes' = 1 .. n + 1 /\ pushes'[n + 1] = t
          /\ \A i \in 1 .. n : pushes'[i] = pushes[i]
      BY <2>2, <2>3, <2>7 DEF t
    <2>9. \A i \in DOMAIN pushes' : pushes'[i] = d * i
      <3> TAKE i \in DOMAIN pushes'
      <3>1. CASE i \in 1 .. n BY <2>3, <2>4, <2>8, <3>1
      <3>2. CASE i = n + 1 BY <2>6, <2>8, <3>2 DEF t
      <3> HIDE DEF n
      <3> QED BY <2>3, <2>8, <3>1, <3>2
    <2>10. \A x : acase'.gaps = {x} => x = d BY <2>1, <2>2
    <2> QED BY <2>2, <2>8, <2>9, <2>10 DEF SteadyInv
  <1>2. CASE UNCHANGED <<acase, pushes>> BY <1>2 DEF SteadyInv
  <1> QED
    BY <1>1, <1>2 DEF AdvNext, advVars, AdvResend, AdvKeepalive, HearKeepalive, AdvLose, AdvDeliver,
                      SendUnknown, HearControl

LEMMA SteadyDiv == ASSUME NEW d \in Nat, NEW n \in Nat \ {0} PROVE (d * n) \div n = d
  OBVIOUS

\* The rate Reference goes by is then the gap itself, whatever was lost.
LEMMA SteadyExtrapolates ==
  ASSUME SteadyRate, SteadyInv, EpochInv PROVE Extrapolates
  <1> SUFFICES ASSUME NEW m \in inair, m.adv, clock.started, clock.ref_seq > clock.base_seq
               PROVE  pushes[m.k] - pushes[clock.ref_seq]
                        - (m.k - clock.ref_seq) * ((pushes[clock.ref_seq] - pushes[clock.base_seq])
                                                     \div (clock.ref_seq - clock.base_seq)) = 0
    BY HalfWrap DEF Extrapolates
  <1>1. PICK d \in Nat : acase.gaps = {d} BY DEF SteadyRate, SteadyInv
  <1> DEFINE k == m.k
             r == clock.ref_seq
             b == clock.base_seq
  <1>2. /\ k \in 1 .. Len(pushes) /\ b \in 1 .. Len(pushes) /\ r \in 1 .. Len(pushes)
        /\ Len(pushes) \in Nat /\ r > b /\ DOMAIN pushes = 1 .. Len(pushes)
    BY DEF EpochInv, PacketTrue, ClockTrue, Timed
  <1>3. pushes[k] = d * k /\ pushes[r] = d * r /\ pushes[b] = d * b
    BY <1>1, <1>2 DEF SteadyInv
  <1>4. k \in Nat /\ r \in Nat /\ b \in Nat BY <1>2
  <1> HIDE DEF k, r, b
  <1> DEFINE n == r - b
  <1>5. n \in Nat \ {0} BY <1>2, <1>4
  <1>6. d * r - d * b = d * n BY <1>4
  <1>7. (d * r - d * b) \div n = d BY <1>5, <1>6, SteadyDiv
  <1>8. d * k - d * r = (k - r) * d BY <1>4
  <1> HIDE DEF n
  <1>9. (d * k - d * r) - (k - r) * ((d * r - d * b) \div n) = 0
    <2>1. d * k - d * r \in Int BY <1>4
    <2> QED BY <1>7, <1>8, <2>1
  <1> QED BY <1>3, <1>9 DEF k, r, b, n

\* SameEpoch: over a stream of one rate the reference of adv_source_micros leads
\* to the packet's own time, so that every packet is placed in its epoch.
THEOREM SteadyInOneEpoch ==
  ASSUME NoUpgradeLoss, SteadyRate
  PROVE  AdvSpec => []SameEpoch
  <1> DEFINE I == EpochInv /\ SteadyInv /\ SameEpoch
  <1>1. AdvInit => I
    <2>1. AdvInit => SteadyInv BY DEF AdvInit, AdvStart, SteadyInv
    <2> QED BY <2>1, EpochInit
  <1>2. I /\ [AdvNext]_advVars => I'
    <2> SUFFICES ASSUME I, [AdvNext]_advVars PROVE I' OBVIOUS
    <2>1. Extrapolates BY SteadyExtrapolates
    <2>2. SteadyInv' BY SteadyStep
    <2>3. (EpochInv /\ SameEpoch)' BY <2>1, EpochStep
    <2> QED BY <2>2, <2>3
  <1>3. I => SameEpoch OBVIOUS
  <1> QED BY <1>1, <1>2, <1>3, PTL DEF AdvSpec

-----------------------------------------------------------------------------
(* Iteration over a sequence                                                 *)

LEMMA LeastNat ==
  ASSUME NEW B, B \subseteq Nat, B # {} PROVE \E i \in B : \A m \in B : i <= m
  <1>1. \E i \in B : \A m \in B : ~ (<<m, i>> \in OpToRel(<, Nat))
    BY WFMin, NatLessThanWellFounded
  <1>2. \A m, i \in Nat : i <= m \/ m < i OBVIOUS
  <1> QED BY <1>1, <1>2 DEF OpToRel

LEMMA StepsReach ==
  ASSUME NEW n \in Nat, NEW A, 0 \in A, \A i \in 0 .. n - 1 : i \in A => i + 1 \in A
  PROVE  n \in A
  <1> DEFINE B == {i \in 0 .. n : i \notin A}
  <1> SUFFICES ASSUME n \notin A PROVE FALSE OBVIOUS
  <1>1. B \subseteq Nat /\ B # {} OBVIOUS
  <1>2. PICK i \in B : \A k \in B : i <= k
    <2> HIDE DEF B
    <2> QED BY <1>1, LeastNat
  <1>3. i \in 0 .. n /\ i # 0 OBVIOUS
  <1>4. i - 1 \in 0 .. n - 1 /\ i - 1 \in 0 .. n /\ ~(i <= i - 1) /\ (i - 1) + 1 = i BY <1>3
  <1>5. i - 1 \in A BY <1>2, <1>4
  <1> QED BY <1>4, <1>5

\* The five ways of packing numbers into records.
Kinds == {"range", "mask", "run", "bits", "group"}
JoinBy(kind, recs, s) ==
  IF kind = "range" THEN JoinRange(recs, s)
  ELSE IF kind = "mask" THEN JoinMask(recs, s)
  ELSE IF kind = "run" THEN JoinRun(recs, s)
  ELSE IF kind = "bits" THEN JoinBits(recs, s)
  ELSE JoinGroup(recs, s)

\* h is what the fold over d computes, the last element first.
JoinsTo(n, h, kind, d) ==
  h = [s \in SUBSET (1 .. n) |->
         IF s = {} THEN <<>> ELSE JoinBy(kind, h[s \ {Max(s)}], d[Max(s)])]

LEMMA LastIsMax ==
  ASSUME NEW n \in Nat, NEW s \in SUBSET (1 .. n + 1), n + 1 \in s PROVE Max(s) = n + 1
  <1>1. \A x \in s : x \in Int /\ n + 1 >= x OBVIOUS
  <1>2. \A x \in s : (\A y \in s : x >= y) => x = n + 1 BY <1>1
  <1> QED BY <1>1, <1>2 DEF Max

LEMMA JoinsNext ==
  ASSUME NEW n \in Nat, NEW h, NEW kind, NEW d, JoinsTo(n, h, kind, d)
  PROVE  \E g : JoinsTo(n + 1, g, kind, d)
  <1> DEFINE T == SUBSET (1 .. n + 1)
             g == [s \in T |-> IF n + 1 \in s THEN JoinBy(kind, h[s \ {n + 1}], d[n + 1]) ELSE h[s]]
  <1>1. ASSUME NEW s \in T
        PROVE  g[s] = IF s = {} THEN <<>> ELSE JoinBy(kind, g[s \ {Max(s)}], d[Max(s)])
    <2>1. CASE n + 1 \in s
      <3>1. Max(s) = n + 1 /\ s # {} BY <2>1, LastIsMax
      <3>2. s \ {n + 1} \in T /\ n + 1 \notin s \ {n + 1} OBVIOUS
      <3>3. g[s \ {n + 1}] = h[s \ {n + 1}] BY <3>2
      <3>4. g[s] = JoinBy(kind, h[s \ {n + 1}], d[n + 1]) BY <2>1
      <3> HIDE DEF g
      <3> QED BY <3>1, <3>3, <3>4
    <2>2. CASE n + 1 \notin s
      <3>1. s \in SUBSET (1 .. n) BY <2>2
      <3>2. h[s] = IF s = {} THEN <<>> ELSE JoinBy(kind, h[s \ {Max(s)}], d[Max(s)])
        BY <3>1, Zenon DEF JoinsTo
      <3>3. s \ {Max(s)} \in T /\ n + 1 \notin s \ {Max(s)} BY <2>2
      <3>4. g[s \ {Max(s)}] = h[s \ {Max(s)}] BY <3>3
      <3>5. g[s] = h[s] BY <2>2
      <3> HIDE DEF g
      <3> QED BY <3>2, <3>4, <3>5
    <2> QED BY <2>1, <2>2
  <1>2. g = [s \in T |-> g[s]] OBVIOUS
  <1> HIDE DEF g
  <1>3. [s \in T |-> g[s]]
          = [s \in T |-> IF s = {} THEN <<>> ELSE JoinBy(kind, g[s \ {Max(s)}], d[Max(s)])]
    BY <1>1, Zenon
  <1>4. JoinsTo(n + 1, g, kind, d) BY <1>2, <1>3 DEF JoinsTo
  <1> QED BY <1>4

LEMMA JoinsExist ==
  ASSUME NEW kind, NEW d, NEW n \in Nat
  PROVE  \E h : JoinsTo(n, h, kind, d)
  <1> DEFINE A == {i \in Nat : \E h : JoinsTo(i, h, kind, d)}
  <1>1. 0 \in A
    <2> DEFINE g == [s \in SUBSET (1 .. 0) |-> <<>>]
    <2>1. \A s \in SUBSET (1 .. 0) : s = {} OBVIOUS
    <2>2. g = [s \in SUBSET (1 .. 0) |->
                 IF s = {} THEN <<>> ELSE JoinBy(kind, g[s \ {Max(s)}], d[Max(s)])]
      BY <2>1, Zenon
    <2>3. JoinsTo(0, g, kind, d) BY <2>2, Zenon DEF JoinsTo
    <2> QED BY <2>3
  <1>2. \A i \in 0 .. n - 1 : i \in A => i + 1 \in A BY JoinsNext
  <1> HIDE DEF A
  <1>3. n \in A BY <1>1, <1>2, StepsReach
  <1> QED BY <1>3 DEF A

\* The records after each number, in order.
Packs(g, n, kind, d) ==
  g[0] = <<>> /\ \A i \in 0 .. n - 1 : g[i + 1] = JoinBy(kind, g[i], d[i + 1])

LEMMA JoinsPack ==
  ASSUME NEW n \in Nat, NEW h, NEW kind, NEW d, JoinsTo(n, h, kind, d)
  PROVE  \E g : Packs(g, n, kind, d) /\ g[n] = h[1 .. n]
  <1> DEFINE g == [i \in 0 .. n |-> h[1 .. i]]
  <1>1. g[0] = <<>>
    <2>1. {} \in SUBSET (1 .. n) /\ 1 .. 0 = {} /\ 0 \in 0 .. n OBVIOUS
    <2>2. h[{}] = <<>> BY <2>1, Zenon DEF JoinsTo
    <2> QED BY <2>1, <2>2
  <1>2. ASSUME NEW i \in 0 .. n - 1 PROVE g[i + 1] = JoinBy(kind, g[i], d[i + 1])
    <2>1. i \in Nat /\ 1 .. i + 1 \in SUBSET (1 .. n) /\ i + 1 \in 1 .. i + 1 /\ 1 .. i + 1 # {}
          /\ (1 .. i + 1) \ {i + 1} = 1 .. i /\ i + 1 \in 0 .. n /\ i \in 0 .. n
      OBVIOUS
    <2> DEFINE s == 1 .. i + 1
    <2>2. s \in SUBSET (1 .. i + 1) /\ s \in SUBSET (1 .. n) /\ s # {} BY <2>1
    <2>3. Max(s) = i + 1 BY <2>1, <2>2, LastIsMax
    <2> HIDE DEF s
    <2>4. h[s] = JoinBy(kind, h[s \ {Max(s)}], d[Max(s)]) BY <2>2, Zenon DEF JoinsTo
    <2>5. g[i + 1] = h[s] /\ g[i] = h[1 .. i] BY <2>1 DEF s
    <2>6. s \ {Max(s)} = 1 .. i BY <2>1, <2>3 DEF s
    <2> HIDE DEF g
    <2> QED BY <2>3, <2>4, <2>5, <2>6
  <1>3. g[n] = h[1 .. n] OBVIOUS
  <1> HIDE DEF g
  <1> QED BY <1>1, <1>2, <1>3 DEF Packs

\* What the fold of the given kind computes.
Packed(kind, d) ==
  IF kind = "range" THEN FoldLeft(JoinRange, <<>>, d)
  ELSE IF kind = "mask" THEN FoldLeft(JoinMask, <<>>, d)
  ELSE IF kind = "run" THEN FoldLeft(JoinRun, <<>>, d)
  ELSE IF kind = "bits" THEN FoldLeft(JoinBits, <<>>, d)
  ELSE FoldLeft(JoinGroup, <<>>, d)

LEMMA PackedIs ==
  ASSUME NEW kind \in Kinds, NEW d
  PROVE  Packed(kind, d)
           = (CHOOSE h : h = [s \in SUBSET DOMAIN d |->
                                IF s = {} THEN <<>> ELSE JoinBy(kind, h[s \ {Max(s)}], d[Max(s)])])[DOMAIN d]
  <1>1. CASE kind = "range" BY <1>1 DEF Packed, JoinBy, FoldLeft, MapThenFoldSet
  <1>2. CASE kind = "mask" BY <1>2 DEF Packed, JoinBy, FoldLeft, MapThenFoldSet
  <1>3. CASE kind = "run" BY <1>3 DEF Packed, JoinBy, FoldLeft, MapThenFoldSet
  <1>4. CASE kind = "bits" BY <1>4 DEF Packed, JoinBy, FoldLeft, MapThenFoldSet
  <1>5. CASE kind = "group" BY <1>5 DEF Packed, JoinBy, FoldLeft, MapThenFoldSet
  <1> QED BY <1>1, <1>2, <1>3, <1>4, <1>5 DEF Kinds

LEMMA PackedPacks ==
  ASSUME NEW kind \in Kinds, NEW n \in Nat, NEW d, DOMAIN d = 1 .. n
  PROVE  \E g : Packs(g, n, kind, d) /\ Packed(kind, d) = g[n]
  <1> DEFINE h == CHOOSE x : JoinsTo(n, x, kind, d)
  <1>1. JoinsTo(n, h, kind, d) BY JoinsExist
  <1>2. Packed(kind, d) = h[1 .. n] BY PackedIs DEF JoinsTo
  <1> HIDE DEF h
  <1> QED BY <1>1, <1>2, JoinsPack

-----------------------------------------------------------------------------
(* What records say                                                          *)

\* Modulus: of the numbers of a kind.
Modulus(kind) == IF kind \in {"range", "mask"} THEN WireMod ELSE SeqRange
NumbersOf(kind) == IF kind = "group" THEN Nat ELSE 0 .. Modulus(kind) - 1
RunRecord  == [first : Nat, extra : Nat]
MaskRecord == [pid : Nat, blp : SUBSET Nat]
SeqGroup == Seq(Nat)
RecordOf(kind) ==
  IF kind = "range" THEN RunRecord
  ELSE IF kind = "run" THEN {r \in RunRecord : r.extra < AdvRun}
  ELSE IF kind \in {"mask", "bits"} THEN MaskRecord
  ELSE {g \in SeqGroup : g # <<>> /\ \A i \in 1 .. Len(g) : High(g[i]) = High(g[1])}

\* The numbers of a record, as its reader takes them.
Told(kind, r) ==
  IF kind \in {"range", "run"} THEN {(r.first + i) % Modulus(kind) : i \in 0 .. r.extra}
  ELSE IF kind \in {"mask", "bits"} THEN {r.pid} \cup {(r.pid + b) % Modulus(kind) : b \in r.blp}
  ELSE {r[i] : i \in 1 .. Len(r)}

ToldBy(kind, recs) == UNION {Told(kind, recs[i]) : i \in 1 .. Len(recs)}

\* The last record is replaced, or one is put behind it.
LEMMA LastReplaced ==
  ASSUME NEW kind \in Kinds, NEW recs \in Seq(RecordOf(kind)), recs # <<>>, NEW r \in RecordOf(kind), NEW s \in Nat,
         Told(kind, r) = Told(kind, Last(recs)) \cup {s}
  PROVE  /\ [recs EXCEPT ![Len(recs)] = r] \in Seq(RecordOf(kind))
         /\ ToldBy(kind, [recs EXCEPT ![Len(recs)] = r]) = ToldBy(kind, recs) \cup {s}
  <1> DEFINE n == Len(recs)
             q == [recs EXCEPT ![Len(recs)] = r]
  <1>1. n \in Nat /\ n # 0 /\ n \in 1 .. n
    <2>1. n \in Nat /\ n # 0 BY EmptySeq
    <2> QED BY <2>1
  <1>2. /\ q \in Seq(RecordOf(kind)) /\ Len(q) = n
        /\ \A j \in 1 .. n : q[j] = IF j = n THEN r ELSE recs[j]
    BY <1>1, ExceptSeq
  <1>3. Told(kind, q[n]) = Told(kind, recs[n]) \cup {s} BY <1>1, <1>2 DEF Last
  <1>4. \A j \in 1 .. n : j # n => q[j] = recs[j] BY <1>2
  <1> HIDE DEF n, q
  <1>5. \A x : (\E j \in 1 .. n : x \in Told(kind, q[j]))
                 <=> (\E j \in 1 .. n : x \in Told(kind, recs[j])) \/ x = s
    BY <1>1, <1>3, <1>4, Zenon
  <1>6. ToldBy(kind, q) = UNION {Told(kind, q[j]) : j \in 1 .. n} BY <1>2 DEF ToldBy
  <1>7. ToldBy(kind, recs) = UNION {Told(kind, recs[j]) : j \in 1 .. n} BY DEF ToldBy, n
  <1>8. \A x : x \in ToldBy(kind, q) <=> \E j \in 1 .. n : x \in Told(kind, q[j]) BY <1>6
  <1>9. \A x : x \in ToldBy(kind, recs) <=> \E j \in 1 .. n : x \in Told(kind, recs[j]) BY <1>7
  <1> QED BY <1>2, <1>5, <1>8, <1>9 DEF q

LEMMA OneBehind ==
  ASSUME NEW kind \in Kinds, NEW recs \in Seq(RecordOf(kind)), NEW r \in RecordOf(kind), NEW s \in Nat,
         Told(kind, r) = {s}
  PROVE  /\ Append(recs, r) \in Seq(RecordOf(kind))
         /\ ToldBy(kind, Append(recs, r)) = ToldBy(kind, recs) \cup {s}
  <1> DEFINE n == Len(recs)
             q == Append(recs, r)
  <1>1. n \in Nat OBVIOUS
  <1>2. /\ q \in Seq(RecordOf(kind)) /\ Len(q) = n + 1
        /\ \A j \in 1 .. n : q[j] = recs[j]
        /\ q[n + 1] = r
    BY AppendProperties
  <1>3. ToldBy(kind, recs) = UNION {Told(kind, recs[j]) : j \in 1 .. n} BY DEF ToldBy, n
  <1> HIDE DEF n, q
  <1>4. 1 .. n + 1 = (1 .. n) \cup {n + 1} BY <1>1
  <1>5. \A x : (\E j \in 1 .. n + 1 : x \in Told(kind, q[j]))
                 <=> (\E j \in 1 .. n : x \in Told(kind, recs[j])) \/ x = s
    BY <1>2, <1>4
  <1>6. ToldBy(kind, q) = UNION {Told(kind, q[j]) : j \in 1 .. n + 1} BY <1>2 DEF ToldBy
  <1>8. \A x : x \in ToldBy(kind, q) <=> \E j \in 1 .. n + 1 : x \in Told(kind, q[j]) BY <1>6
  <1>9. \A x : x \in ToldBy(kind, recs) <=> \E j \in 1 .. n : x \in Told(kind, recs[j]) BY <1>3
  <1> QED BY <1>2, <1>5, <1>8, <1>9 DEF q

LEMMA Moduli ==
  ASSUME NEW kind
  PROVE  /\ Modulus(kind) \in Nat \ {0}
         /\ \A s \in 0 .. Modulus(kind) - 1 : s \in Nat /\ s % Modulus(kind) = s
  <1>1. Modulus(kind) \in Nat \ {0} BY Ranges DEF Modulus
  <1> HIDE DEF Modulus
  <1> QED BY <1>1, ModSmall

LEMMA LastIn ==
  ASSUME NEW S, NEW q \in Seq(S), q # <<>>
  PROVE  Len(q) \in 1 .. Len(q) /\ Last(q) \in S /\ Last(q) = q[Len(q)]
  <1>1. Len(q) \in Nat /\ Len(q) # 0 BY EmptySeq
  <1>2. Len(q) \in 1 .. Len(q) BY <1>1
  <1>3. q[Len(q)] \in S BY <1>2, ElementOfSeq
  <1> QED BY <1>2, <1>3 DEF Last

\* A run is drawn out by one number.
LEMMA RunGrows ==
  ASSUME NEW kind \in {"range", "run"}, NEW r \in RunRecord,
         NEW q, q = [r EXCEPT !.extra = @ + 1]
  PROVE  /\ q \in RunRecord /\ q.extra = r.extra + 1
         /\ Told(kind, q) = Told(kind, r) \cup {(r.first + r.extra + 1) % Modulus(kind)}
  <1> DEFINE m == Modulus(kind)
             e == r.extra
             f == r.first
  <1>1. f \in Nat /\ e \in Nat /\ q \in RunRecord /\ q.extra = e + 1 /\ q.first = f BY DEF RunRecord
  <1>2. Told(kind, q) = {(f + i) % m : i \in 0 .. e + 1} /\ Told(kind, r) = {(f + i) % m : i \in 0 .. e}
    BY <1>1 DEF Told
  <1> HIDE DEF m, e, f
  <1>3. 0 .. e + 1 = (0 .. e) \cup {e + 1} /\ f + (e + 1) = f + e + 1 BY <1>1
  <1>4. {(f + i) % m : i \in 0 .. e + 1} = {(f + i) % m : i \in 0 .. e} \cup {(f + e + 1) % m}
    BY <1>3
  <1> QED BY <1>1, <1>2, <1>4 DEF m, e, f

LEMMA RunStarts ==
  ASSUME NEW kind \in {"range", "run"}, NEW s \in 0 .. Modulus(kind) - 1
  PROVE  /\ [first |-> s, extra |-> 0] \in RecordOf(kind)
         /\ Told(kind, [first |-> s, extra |-> 0]) = {s}
  <1> DEFINE r == [first |-> s, extra |-> 0]
  <1>1. s \in Nat /\ s % Modulus(kind) = s BY Moduli
  <1>2. r \in RunRecord /\ r.extra < AdvRun BY <1>1, WireAssumption DEF RunRecord
  <1>3. r \in RecordOf(kind) BY <1>2 DEF RecordOf
  <1>4. Told(kind, r) = {(s + i) % Modulus(kind) : i \in 0 .. 0} BY DEF Told
  <1>5. 0 .. 0 = {0} /\ s + 0 = s BY <1>1
  <1>6. {(s + i) % Modulus(kind) : i \in 0 .. 0} = {s} BY <1>1, <1>5
  <1> QED BY <1>3, <1>4, <1>6

\* The number s has gone into the last record, or into one behind it.
Takes(kind, recs, s, q) ==
  \/ recs # <<>> /\ \E r \in RecordOf(kind) :
       Told(kind, r) = Told(kind, Last(recs)) \cup {s} /\ q = [recs EXCEPT ![Len(recs)] = r]
  \/ \E r \in RecordOf(kind) : Told(kind, r) = {s} /\ q = Append(recs, r)

LEMMA TakenTold ==
  ASSUME NEW kind \in Kinds, NEW recs \in Seq(RecordOf(kind)), NEW s \in Nat, NEW q, Takes(kind, recs, s, q)
  PROVE  q \in Seq(RecordOf(kind)) /\ ToldBy(kind, q) = ToldBy(kind, recs) \cup {s}
  <1>1. CASE recs # <<>> /\ \E r \in RecordOf(kind) :
               Told(kind, r) = Told(kind, Last(recs)) \cup {s} /\ q = [recs EXCEPT ![Len(recs)] = r]
    <2>1. PICK r \in RecordOf(kind) :
            Told(kind, r) = Told(kind, Last(recs)) \cup {s} /\ q = [recs EXCEPT ![Len(recs)] = r]
      BY <1>1
    <2>2. Told(kind, r) = Told(kind, Last(recs)) \cup {s} BY <2>1
    <2>0. recs # <<>> BY <1>1
    <2>3. [recs EXCEPT ![Len(recs)] = r] \in Seq(RecordOf(kind)) BY <2>0, <2>2, LastReplaced
    <2>4. ToldBy(kind, [recs EXCEPT ![Len(recs)] = r]) = ToldBy(kind, recs) \cup {s}
      BY <2>0, <2>2, LastReplaced
    <2> QED BY <2>1, <2>3, <2>4
  <1>2. CASE \E r \in RecordOf(kind) : Told(kind, r) = {s} /\ q = Append(recs, r)
    BY <1>2, OneBehind
  <1> QED BY <1>1, <1>2 DEF Takes

LEMMA RangeJoins ==
  ASSUME NEW recs \in Seq(RecordOf("range")), NEW s \in NumbersOf("range")
  PROVE  Takes("range", recs, s, JoinRange(recs, s))
  <1> DEFINE r == Last(recs)
             x == [r EXCEPT !.extra = @ + 1]
             joins == recs # <<>> /\ s = (r.first + r.extra + 1) % WireMod /\ r.extra < WireMod - 1
             new == [first |-> s, extra |-> 0]
  <1>0. Modulus("range") = WireMod /\ s \in 0 .. Modulus("range") - 1 BY DEF Modulus, NumbersOf
  <1>1. CASE joins
    <2>1. r \in RunRecord BY <1>1, LastIn DEF RecordOf
    <2>2. x \in RunRecord /\ Told("range", x) = Told("range", r) \cup {s}
      BY <1>0, <1>1, <2>1, RunGrows
    <2>3. JoinRange(recs, s) = [recs EXCEPT ![Len(recs)] = x] BY <1>1 DEF JoinRange, Last
    <2> HIDE DEF x
    <2>4. x \in RecordOf("range") BY <2>2 DEF RecordOf
    <2> QED BY <1>1, <2>2, <2>3, <2>4 DEF Takes
  <1>2. CASE ~joins
    <2>1. JoinRange(recs, s) = Append(recs, new) BY <1>2 DEF JoinRange
    <2>2. new \in RecordOf("range") /\ Told("range", new) = {s} BY <1>0, RunStarts
    <2> HIDE DEF new, joins
    <2> QED BY <2>1, <2>2 DEF Takes
  <1> QED BY <1>1, <1>2

LEMMA RunJoins ==
  ASSUME NEW recs \in Seq(RecordOf("run")), NEW s \in NumbersOf("run")
  PROVE  Takes("run", recs, s, JoinRun(recs, s))
  <1> DEFINE r == Last(recs)
             x == [r EXCEPT !.extra = @ + 1]
             joins == recs # <<>> /\ s = (r.first + r.extra + 1) % SeqRange /\ r.extra + 1 < AdvRun
             new == [first |-> s, extra |-> 0]
  <1>0. Modulus("run") = SeqRange /\ s \in 0 .. Modulus("run") - 1 BY DEF Modulus, NumbersOf
  <1>1. CASE joins
    <2>1. r \in RunRecord BY <1>1, LastIn DEF RecordOf
    <2>2. /\ x \in RunRecord /\ x.extra < AdvRun
          /\ Told("run", x) = Told("run", r) \cup {s}
      BY <1>0, <1>1, <2>1, RunGrows
    <2>3. JoinRun(recs, s) = [recs EXCEPT ![Len(recs)] = x] BY <1>1 DEF JoinRun, Last
    <2> HIDE DEF x
    <2>4. x \in RecordOf("run") BY <2>2 DEF RecordOf
    <2> QED BY <1>1, <2>2, <2>3, <2>4 DEF Takes
  <1>2. CASE ~joins
    <2>1. JoinRun(recs, s) = Append(recs, new) BY <1>2 DEF JoinRun
    <2>2. new \in RecordOf("run") /\ Told("run", new) = {s} BY <1>0, RunStarts
    <2> HIDE DEF new, joins
    <2> QED BY <2>1, <2>2 DEF Takes
  <1> QED BY <1>1, <1>2

\* A number goes into a mask by its distance from the record's own.
LEMMA MaskGrows ==
  ASSUME NEW kind \in {"mask", "bits"}, NEW r \in MaskRecord, NEW s \in 0 .. Modulus(kind) - 1,
         NEW b, b = (s - r.pid) % Modulus(kind), NEW q, q = [r EXCEPT !.blp = @ \cup {b}]
  PROVE  q \in RecordOf(kind) /\ Told(kind, q) = Told(kind, r) \cup {s}
  <1> DEFINE m == Modulus(kind)
             p == r.pid
  <1>1. m \in Nat \ {0} /\ s \in Nat /\ s % m = s /\ p \in Nat BY Moduli DEF MaskRecord
  <1>2. b \in Nat
    <2>1. s - p \in Int BY <1>1
    <2> HIDE DEF m, p
    <2>2. (s - p) % m \in 0 .. m - 1 BY <1>1, <2>1, ModRange
    <2> QED BY <1>1, <2>2 DEF m, p
  <1>3. q \in RecordOf(kind) /\ q.pid = p /\ q.blp = r.blp \cup {b} BY <1>2 DEF MaskRecord, RecordOf
  <1>4. (p + b) % m = s
    <2> DEFINE a == s - p
    <2>1. a \in Int /\ a + p = s BY <1>1
    <2>2. b = a % m OBVIOUS
    <2> HIDE DEF a, m, p
    <2>3. ((a % m) + p) % m = (a + p) % m BY <1>1, <2>1, ModAdd
    <2>4. (a % m) + p = p + b BY <1>1, <1>2, <2>2
    <2> QED BY <1>1, <2>1, <2>3, <2>4
  <1>5. /\ Told(kind, q) = {p} \cup {(p + c) % m : c \in r.blp \cup {b}}
        /\ Told(kind, r) = {p} \cup {(p + c) % m : c \in r.blp}
    BY <1>3 DEF Told
  <1> HIDE DEF m, p
  <1>6. {(p + c) % m : c \in r.blp \cup {b}} = {(p + c) % m : c \in r.blp} \cup {s} BY <1>4
  <1> QED BY <1>3, <1>5, <1>6

LEMMA MaskStarts ==
  ASSUME NEW kind \in {"mask", "bits"}, NEW s \in 0 .. Modulus(kind) - 1
  PROVE  /\ [pid |-> s, blp |-> {}] \in RecordOf(kind)
         /\ Told(kind, [pid |-> s, blp |-> {}]) = {s}
  <1>1. s \in Nat BY Moduli
  <1> QED BY <1>1 DEF MaskRecord, RecordOf, Told

LEMMA MaskJoins ==
  ASSUME NEW recs \in Seq(RecordOf("mask")), NEW s \in NumbersOf("mask")
  PROVE  Takes("mask", recs, s, JoinMask(recs, s))
  <1> DEFINE r == Last(recs)
             b == (s - r.pid) % WireMod
             x == [r EXCEPT !.blp = @ \cup {b}]
             joins == recs # <<>> /\ b \in 1 .. MaskBits
             new == [pid |-> s, blp |-> {}]
  <1>0. Modulus("mask") = WireMod /\ s \in 0 .. Modulus("mask") - 1 BY DEF Modulus, NumbersOf
  <1>1. CASE joins
    <2>1. r \in MaskRecord BY <1>1, LastIn DEF RecordOf
    <2>2. b = (s - r.pid) % Modulus("mask") BY <1>0
    <2>3. x \in RecordOf("mask") /\ Told("mask", x) = Told("mask", r) \cup {s}
      BY <1>0, <2>1, <2>2, MaskGrows
    <2>4. JoinMask(recs, s) = [recs EXCEPT ![Len(recs)] = x] BY <1>1 DEF JoinMask, Last
    <2> HIDE DEF x
    <2> QED BY <1>1, <2>3, <2>4 DEF Takes
  <1>2. CASE ~joins
    <2>1. JoinMask(recs, s) = Append(recs, new) BY <1>2 DEF JoinMask
    <2>2. new \in RecordOf("mask") /\ Told("mask", new) = {s} BY <1>0, MaskStarts
    <2> HIDE DEF new, joins
    <2> QED BY <2>1, <2>2 DEF Takes
  <1> QED BY <1>1, <1>2

LEMMA BitsJoins ==
  ASSUME NEW recs \in Seq(RecordOf("bits")), NEW s \in NumbersOf("bits")
  PROVE  Takes("bits", recs, s, JoinBits(recs, s))
  <1> DEFINE r == Last(recs)
             b == (s - r.pid) % SeqRange
             x == [r EXCEPT !.blp = @ \cup {b}]
             joins == recs # <<>> /\ b \in 1 .. AdvBits
             new == [pid |-> s, blp |-> {}]
  <1>0. Modulus("bits") = SeqRange /\ s \in 0 .. Modulus("bits") - 1 BY DEF Modulus, NumbersOf
  <1>1. CASE joins
    <2>1. r \in MaskRecord BY <1>1, LastIn DEF RecordOf
    <2>2. b = (s - r.pid) % Modulus("bits") BY <1>0
    <2>3. x \in RecordOf("bits") /\ Told("bits", x) = Told("bits", r) \cup {s}
      BY <1>0, <2>1, <2>2, MaskGrows
    <2>4. JoinBits(recs, s) = [recs EXCEPT ![Len(recs)] = x] BY <1>1 DEF JoinBits, Last
    <2> HIDE DEF x
    <2> QED BY <1>1, <2>3, <2>4 DEF Takes
  <1>2. CASE ~joins
    <2>1. JoinBits(recs, s) = Append(recs, new) BY <1>2 DEF JoinBits
    <2>2. new \in RecordOf("bits") /\ Told("bits", new) = {s} BY <1>0, MaskStarts
    <2> HIDE DEF new, joins
    <2> QED BY <2>1, <2>2 DEF Takes
  <1> QED BY <1>1, <1>2

LEMMA GroupJoins ==
  ASSUME NEW groups \in Seq(RecordOf("group")), NEW s \in NumbersOf("group")
  PROVE  Takes("group", groups, s, JoinGroup(groups, s))
  <1> DEFINE g == Last(groups)
             x == Append(g, s)
             joins == groups # <<>> /\ High(Last(g)) = High(s)
             new == <<s>>
             R == {h \in SeqGroup : h # <<>> /\ \A i \in 1 .. Len(h) : High(h[i]) = High(h[1])}
  <1>0. s \in Nat /\ RecordOf("group") = R BY DEF NumbersOf, RecordOf
  <1>1. CASE joins
    <2> DEFINE n == Len(g)
    <2>1. g \in R BY <1>0, <1>1, LastIn
    <2>2. n \in 1 .. n /\ High(g[n]) = High(s) /\ n \in Nat BY <1>1, <2>1, LastIn DEF SeqGroup
    <2>3. /\ x \in SeqGroup /\ x # <<>> /\ Len(x) = n + 1
          /\ \A i \in 1 .. n : x[i] = g[i]
          /\ x[n + 1] = s
      BY <1>0, <2>1, AppendProperties DEF SeqGroup
    <2>4. High(g[n]) = High(g[1]) /\ \A i \in 1 .. n : High(g[i]) = High(g[1]) BY <2>1, <2>2
    <2>5. JoinGroup(groups, s) = [groups EXCEPT ![Len(groups)] = x] BY <1>1 DEF JoinGroup, Last
    <2> HIDE DEF x, n, g
    <2>6. 1 .. n + 1 = (1 .. n) \cup {n + 1} /\ 1 \in 1 .. n BY <2>2
    <2>7. \A i \in 1 .. Len(x) : High(x[i]) = High(x[1])
      <3>1. x[1] = g[1] /\ High(x[n + 1]) = High(g[1]) BY <2>2, <2>3, <2>4, <2>6
      <3>2. ASSUME NEW i \in 1 .. n PROVE High(x[i]) = High(g[1]) BY <2>3, <2>4
      <3> QED BY <2>3, <2>6, <3>1, <3>2
    <2>8. x \in R BY <2>3, <2>7
    <2>9. {x[i] : i \in 1 .. n + 1} = {g[i] : i \in 1 .. n} \cup {s} BY <2>3, <2>6
    <2>10. Told("group", x) = Told("group", g) \cup {s} BY <2>3, <2>9 DEF Told, n
    <2> HIDE DEF R
    <2> QED BY <1>0, <1>1, <2>5, <2>8, <2>10 DEF Takes, g
  <1>2. CASE ~joins
    <2>1. JoinGroup(groups, s) = Append(groups, new) BY <1>2 DEF JoinGroup
    <2>2. new \in SeqGroup /\ new # <<>> /\ Len(new) = 1 /\ new[1] = s BY <1>0 DEF SeqGroup
    <2>3. 1 .. 1 = {1} OBVIOUS
    <2> HIDE DEF new, joins, g
    <2>4. new \in R BY <2>2, <2>3
    <2>5. Told("group", new) = {s} BY <2>2, <2>3 DEF Told
    <2> HIDE DEF R
    <2> QED BY <1>0, <2>1, <2>4, <2>5 DEF Takes
  <1> QED BY <1>1, <1>2

LEMMA JoinTakes ==
  ASSUME NEW kind \in Kinds, NEW recs \in Seq(RecordOf(kind)), NEW s \in NumbersOf(kind)
  PROVE  Takes(kind, recs, s, JoinBy(kind, recs, s))
  <1>1. CASE kind = "range" BY <1>1, RangeJoins DEF JoinBy
  <1>2. CASE kind = "mask" BY <1>2, MaskJoins DEF JoinBy
  <1>3. CASE kind = "run" BY <1>3, RunJoins DEF JoinBy
  <1>4. CASE kind = "bits" BY <1>4, BitsJoins DEF JoinBy
  <1>5. CASE kind = "group" BY <1>5, GroupJoins DEF JoinBy
  <1> QED BY <1>1, <1>2, <1>3, <1>4, <1>5 DEF Kinds

\* Whatever the encoding, the records tell the numbers they were made from.
LEMMA PackedTold ==
  ASSUME NEW kind \in Kinds, NEW n \in Nat, NEW d, DOMAIN d = 1 .. n,
         \A i \in 1 .. n : d[i] \in NumbersOf(kind)
  PROVE  /\ Packed(kind, d) \in Seq(RecordOf(kind))
         /\ ToldBy(kind, Packed(kind, d)) = {d[i] : i \in 1 .. n}
  <1>1. PICK g : Packs(g, n, kind, d) /\ Packed(kind, d) = g[n] BY PackedPacks
  <1> DEFINE OK(i) == g[i] \in Seq(RecordOf(kind)) /\ ToldBy(kind, g[i]) = {d[j] : j \in 1 .. i}
             A == {i \in Nat : OK(i)}
  <1>2. g[0] = <<>> /\ \A i \in 0 .. n - 1 : g[i + 1] = JoinBy(kind, g[i], d[i + 1])
    BY <1>1 DEF Packs
  <1>3. 0 \in A
    <2>1. <<>> \in Seq(RecordOf(kind)) /\ Len(<<>>) = 0 /\ 1 .. 0 = {} BY EmptySeq
    <2>2. ToldBy(kind, <<>>) = {} BY <2>1 DEF ToldBy
    <2> QED BY <1>2, <2>1, <2>2
  <1>4. ASSUME NEW i \in 0 .. n - 1, i \in A PROVE i + 1 \in A
    <2>1. i \in Nat /\ i + 1 \in Nat /\ i + 1 \in 1 .. n /\ 1 .. i + 1 = (1 .. i) \cup {i + 1} OBVIOUS
    <2>2. g[i] \in Seq(RecordOf(kind)) /\ ToldBy(kind, g[i]) = {d[j] : j \in 1 .. i} BY <1>4
    <2>3. d[i + 1] \in NumbersOf(kind) BY <2>1
    <2>4. d[i + 1] \in Nat BY <2>3, Moduli DEF NumbersOf
    <2>5. Takes(kind, g[i], d[i + 1], g[i + 1]) BY <1>2, <2>2, <2>3, JoinTakes
    <2>6. g[i + 1] \in Seq(RecordOf(kind)) /\ ToldBy(kind, g[i + 1]) = ToldBy(kind, g[i]) \cup {d[i + 1]}
      BY <2>2, <2>4, <2>5, TakenTold
    <2>7. {d[j] : j \in 1 .. i + 1} = {d[j] : j \in 1 .. i} \cup {d[i + 1]} BY <2>1
    <2> QED BY <2>1, <2>2, <2>6, <2>7
  <1> HIDE DEF A
  <1>5. n \in A BY <1>3, <1>4, StepsReach
  <1> QED BY <1>1, <1>5 DEF A

-----------------------------------------------------------------------------
(* Packets                                                                   *)

Kind == IF wcase.profile = "advanced" THEN (IF wcase.bitmask THEN "bits" ELSE "run")
        ELSE (IF wcase.bitmask THEN "mask" ELSE "range")

LEMMA DivSplit ==
  ASSUME NEW a \in Int, NEW m \in Nat \ {0}
  PROVE  a \div m \in Int /\ a = m * (a \div m) + (a % m) /\ a % m \in 0 .. m - 1
  <1> DEFINE q == a \div m
             r == a % m
  <1>1. q \in Int /\ r \in 0 .. m - 1 OBVIOUS
  <1>2. q = a \div m /\ r = a % m OBVIOUS
  <1> HIDE DEF q, r
  <1>3. a = m * q + r BY <1>1, <1>2
  <1> QED BY <1>1, <1>3, Zenon DEF q, r

LEMMA Quotient ==
  ASSUME NEW j \in Nat \ {0}, NEW m \in Nat \ {0}
  PROVE  \E i \in Nat \ {0} : (i - 1) * m + 1 <= j /\ j <= i * m
  <1> DEFINE a == j - 1
             r == a % m
  <1>1. a \in Nat /\ a \in Int /\ j = a + 1 OBVIOUS
  <1> HIDE DEF a
  <1>2. PICK q \in Int : a = m * q + r BY <1>1, ModSplit
  <1>3. r \in 0 .. m - 1 BY <1>1, ModRange
  <1> HIDE DEF r
  <1>4. q >= 0
    <2> SUFFICES ASSUME q <= -1 PROVE FALSE OBVIOUS
    <2>1. m * q <= -m OBVIOUS
    <2> QED BY <1>1, <1>2, <1>3, <2>1
  <1> DEFINE i == q + 1
  <1>5. i \in Nat \ {0} /\ i - 1 = q BY <1>4
  <1>6. q * m = m * q /\ i * m = m * q + m OBVIOUS
  <1>7. (i - 1) * m + 1 <= j /\ j <= i * m BY <1>1, <1>2, <1>3, <1>5, <1>6
  <1> QED BY <1>5, <1>7

\* The packets for some records, m of them to a packet, and how many there are.
Chunks(recs, m) ==
  LET full == (Len(recs) + m - 1) \div m
  IN [i \in 1 .. full |-> SubSeq(recs, (i - 1) * m + 1, IF i = full THEN Len(recs) ELSE i * m)]
InChunks(full, q, recs) ==
  /\ DOMAIN q = 1 .. full /\ q = [i \in 1 .. full |-> q[i]]
  /\ \A i \in 1 .. full : \A j \in 1 .. Len(q[i]) : \E k \in 1 .. Len(recs) : q[i][j] = recs[k]
  /\ \A k \in 1 .. Len(recs) : \E i \in 1 .. full : \E j \in 1 .. Len(q[i]) : q[i][j] = recs[k]

\* The last packet has the rest: every record is in one.
LEMMA PacketsHold ==
  ASSUME NEW S, NEW recs \in Seq(S), NEW m \in Nat \ {0}
  PROVE  \E full \in Nat : /\ InChunks(full, Chunks(recs, m), recs)
                          /\ \A i \in 1 .. full : Chunks(recs, m)[i] \in Seq(S)
  <1> DEFINE n == Len(recs)
             r == (n + m - 1) % m
             full == (n + m - 1) \div m
             q == Chunks(recs, m)
  <1>1. n \in Nat OBVIOUS
  <1> HIDE DEF n
  <1>2. full \in Int /\ r \in 0 .. m - 1 /\ n + m - 1 = m * full + r
    <2>1. n + m - 1 \in Int BY <1>1
    <2> QED BY <2>1, DivSplit DEF n
  <1>9. q = [i \in 1 .. full |-> SubSeq(recs, (i - 1) * m + 1, IF i = full THEN n ELSE i * m)]
    BY DEF Chunks, n
  <1> HIDE DEF r, full, q
  <1>3. full \in Nat
    <2> SUFFICES ASSUME full <= -1 PROVE FALSE BY <1>2
    <2>1. m * full <= -m BY <1>2
    <2> QED BY <1>1, <1>2, <2>1
  <1>4. n <= full * m /\ (full # 0 => (full - 1) * m < n)
    <2>1. full * m = m * full /\ (full - 1) * m = m * full - m BY <1>2
    <2> QED BY <1>1, <1>2, <2>1
  <1> DEFINE first(i) == (i - 1) * m + 1
             last(i) == IF i = full THEN n ELSE i * m
  <1>5. ASSUME NEW i \in 1 .. full
        PROVE  first(i) \in Nat \ {0} /\ last(i) \in Int /\ last(i) <= n
    <2>1. i \in Nat /\ i - 1 \in Nat /\ full - i \in Nat BY <1>3
    <2>2. (i - 1) * m \in Nat /\ i * m \in Nat BY <2>1
    <2>3. CASE i # full
      <3> DEFINE c == full - 1 - i
      <3>1. c \in Nat BY <1>3, <2>1, <2>3
      <3>2. c * m \in Nat BY <3>1
      <3>3. (full - 1) * m = c * m + i * m BY <1>3, <2>1
      <3> HIDE DEF c
      <3>4. full # 0 BY <2>1
      <3> QED BY <1>1, <1>4, <2>2, <2>3, <3>2, <3>3, <3>4
    <2> QED BY <1>1, <2>2, <2>3
  <1>6. ASSUME NEW i \in 1 .. full
        PROVE  /\ q[i] \in Seq(S)
               /\ Len(q[i]) = IF first(i) <= last(i) THEN last(i) - first(i) + 1 ELSE 0
               /\ \A j \in 1 .. last(i) - first(i) + 1 : q[i][j] = recs[first(i) + j - 1]
    <2> DEFINE a == first(i)
               b == last(i)
    <2>1. a \in Nat \ {0} /\ b \in Int /\ b <= n BY <1>5
    <2>2. q[i] = SubSeq(recs, a, b) BY <1>9
    <2> HIDE DEF a, b
    <2>3. \A k \in a .. b : recs[k] \in S
      <3>1. \A k \in a .. b : k \in 1 .. n BY <1>1, <2>1
      <3> QED BY <3>1, ElementOfSeq DEF n
    <2>4. a \in Int BY <2>1
    <2>5. /\ SubSeq(recs, a, b) \in Seq(S)
          /\ Len(SubSeq(recs, a, b)) = IF a <= b THEN b - a + 1 ELSE 0
          /\ \A j \in 1 .. b - a + 1 : SubSeq(recs, a, b)[j] = recs[a + j - 1]
      BY <2>1, <2>3, <2>4, SubSeqProperties
    <2> QED BY <2>2, <2>5 DEF a, b
  <1>7. ASSUME NEW i \in 1 .. full, NEW j \in 1 .. Len(q[i])
        PROVE  \E k \in 1 .. n : q[i][j] = recs[k]
    <2> DEFINE a == first(i)
               b == last(i)
    <2>1. a \in Nat \ {0} /\ b \in Int /\ b <= n BY <1>5
    <2>2. Len(q[i]) = (IF a <= b THEN b - a + 1 ELSE 0)
          /\ \A l \in 1 .. b - a + 1 : q[i][l] = recs[a + l - 1]
      BY <1>6
    <2> HIDE DEF a, b
    <2>3. a <= b
      <3> SUFFICES ASSUME ~(a <= b) PROVE FALSE OBVIOUS
      <3>1. Len(q[i]) = 0 BY <2>2
      <3>2. 1 .. 0 = {} OBVIOUS
      <3> QED BY <3>1, <3>2
    <2>4. Len(q[i]) = b - a + 1 BY <2>2, <2>3
    <2>5. j \in 1 .. b - a + 1 BY <2>4
    <2>6. a + j - 1 \in 1 .. n BY <1>1, <2>1, <2>5
    <2> QED BY <2>2, <2>5, <2>6
  <1>8. ASSUME NEW k \in 1 .. n
        PROVE  \E i \in 1 .. full : \E j \in 1 .. Len(q[i]) : q[i][j] = recs[k]
    <2>1. k \in Nat \ {0} BY <1>1
    <2>2. PICK i \in Nat \ {0} : (i - 1) * m + 1 <= k /\ k <= i * m BY <2>1, Quotient
    <2>3. i <= full
      <3> SUFFICES ASSUME i > full PROVE FALSE BY <1>3
      <3> DEFINE c == i - 1 - full
      <3>1. c \in Nat /\ i - 1 = c + full BY <1>3
      <3> HIDE DEF c
      <3>2. (c + full) * m = c * m + full * m /\ c * m \in Nat BY <1>3, <3>1
      <3>3. full * m \in Nat /\ (i - 1) * m \in Int BY <1>3
      <3> DEFINE x == (i - 1) * m
                 y == full * m
                 z == c * m
      <3>4. x \in Int /\ y \in Nat /\ z \in Nat BY <3>2, <3>3
      <3>5. x = z + y BY <3>1, <3>2
      <3>6. x + 1 <= k /\ n <= y BY <1>4, <2>2
      <3> HIDE DEF x, y, z
      <3> QED BY <1>1, <3>4, <3>5, <3>6
    <2>4. i \in 1 .. full BY <1>3, <2>3
    <2> DEFINE a == first(i)
               b == last(i)
    <2>5. a \in Nat \ {0} /\ b \in Int /\ a <= k /\ k <= b BY <1>1, <1>5, <2>2, <2>4
    <2>6. Len(q[i]) = (IF a <= b THEN b - a + 1 ELSE 0)
          /\ \A l \in 1 .. b - a + 1 : q[i][l] = recs[a + l - 1]
      BY <1>6, <2>4
    <2> HIDE DEF a, b
    <2> DEFINE j == k - a + 1
    <2>7. j \in 1 .. b - a + 1 /\ a + j - 1 = k BY <2>1, <2>5
    <2>8. a <= b BY <2>1, <2>5
    <2>9. Len(q[i]) = b - a + 1 BY <2>6, <2>8
    <2> HIDE DEF j
    <2> QED BY <2>4, <2>6, <2>7, <2>9
  <1>10. DOMAIN q = 1 .. full /\ q = [i \in 1 .. full |-> q[i]] BY <1>9
  <1>11. InChunks(full, q, recs) BY <1>7, <1>8, <1>10 DEF InChunks, n
  <1>12. \A i \in 1 .. full : q[i] \in Seq(S) BY <1>6
  <1> QED BY <1>3, <1>11, <1>12 DEF q

LEMMA KindIs ==
  /\ Kind \in Kinds
  /\ ~Advd => Modulus(Kind) = WireMod /\ NumbersOf(Kind) = 0 .. WireMod - 1
  /\ Advd => Modulus(Kind) = SeqRange /\ NumbersOf(Kind) = 0 .. SeqRange - 1
  BY DEF Kind, Kinds, Advd, Modulus, NumbersOf

LEMMA LowIs == ASSUME NEW v \in Int PROVE Low(v) \in 0 .. WireMod - 1
  BY Ranges, ModRange DEF Low

\* missing_seqs gives what was packed.
LEMMA RecordsTold ==
  ASSUME ~Advd, NEW ms \in Seq(Nat)
  PROVE  /\ Records(ms) \in Seq(RecordOf(Kind))
         /\ ToldBy(Kind, Records(ms)) = {Low(ms[i]) : i \in 1 .. Len(ms)}
  <1> DEFINE n == Len(ms)
             low == [i \in DOMAIN ms |-> Low(ms[i])]
  <1>1. n \in Nat /\ DOMAIN low = 1 .. n OBVIOUS
  <1>2. \A i \in 1 .. n : low[i] = Low(ms[i]) /\ low[i] \in NumbersOf(Kind)
    <2>1. \A i \in 1 .. n : ms[i] \in Int BY ElementOfSeq
    <2>2. \A i \in 1 .. n : low[i] = Low(ms[i]) OBVIOUS
    <2>3. NumbersOf(Kind) = 0 .. WireMod - 1 BY KindIs
    <2> HIDE DEF low
    <2>4. \A i \in 1 .. n : Low(ms[i]) \in 0 .. WireMod - 1 BY <2>1, LowIs
    <2> QED BY <2>2, <2>3, <2>4
  <1>3. Records(ms) = Packed(Kind, low) BY DEF Records, Packed, Kind, Advd
  <1>4. Kind \in Kinds BY KindIs
  <1> HIDE DEF low, n
  <1>5. /\ Packed(Kind, low) \in Seq(RecordOf(Kind))
        /\ ToldBy(Kind, Packed(Kind, low)) = {low[i] : i \in 1 .. n}
    BY <1>1, <1>2, <1>4, PackedTold
  <1>6. {low[i] : i \in 1 .. n} = {Low(ms[i]) : i \in 1 .. n} BY <1>2
  <1> QED BY <1>3, <1>5, <1>6 DEF n

\* NackPackets: every number is in a packet, and nothing else is.
LEMMA PacketsTell ==
  ASSUME ~Advd, NEW ms \in Seq(Nat), NEW q, q = NackPackets(ms)
  PROVE  /\ q \in Seq(Seq(RecordOf(Kind)))
         /\ UNION {ToldBy(Kind, q[i]) : i \in 1 .. Len(q)} = {Low(ms[i]) : i \in 1 .. Len(ms)}
  <1> DEFINE recs == Records(ms)
             S == RecordOf(Kind)
  <1>1. recs \in Seq(S) /\ ToldBy(Kind, recs) = {Low(ms[i]) : i \in 1 .. Len(ms)} BY RecordsTold
  <1>2. q = Chunks(recs, MaxRecords) BY DEF NackPackets, Chunks
  <1>3. MaxRecords \in Nat \ {0} BY WireAssumption
  <1> HIDE DEF recs, S
  <1>4. PICK full \in Nat : InChunks(full, q, recs) /\ \A i \in 1 .. full : q[i] \in Seq(S)
    BY <1>1, <1>2, <1>3, PacketsHold
  <1>5. /\ \A i \in 1 .. full : \A j \in 1 .. Len(q[i]) : \E k \in 1 .. Len(recs) : q[i][j] = recs[k]
        /\ \A k \in 1 .. Len(recs) : \E i \in 1 .. full : \E j \in 1 .. Len(q[i]) : q[i][j] = recs[k]
    BY <1>4 DEF InChunks
  <1>6. DOMAIN q = 1 .. full /\ q = [i \in 1 .. full |-> q[i]] BY <1>4 DEF InChunks
  <1>7. q \in Seq(Seq(S)) /\ Len(q) = full BY <1>4, <1>6
  <1>8. \A x : (\E i \in 1 .. full : x \in ToldBy(Kind, q[i])) <=> x \in ToldBy(Kind, recs)
    <2>1. \A x : x \in ToldBy(Kind, recs) <=> \E k \in 1 .. Len(recs) : x \in Told(Kind, recs[k])
      BY DEF ToldBy
    <2>2. \A x : \A i \in 1 .. full :
            x \in ToldBy(Kind, q[i]) <=> \E j \in 1 .. Len(q[i]) : x \in Told(Kind, q[i][j])
      BY DEF ToldBy
    <2>3. ASSUME NEW x, NEW i \in 1 .. full, x \in ToldBy(Kind, q[i]) PROVE x \in ToldBy(Kind, recs)
      <3>1. PICK j \in 1 .. Len(q[i]) : x \in Told(Kind, q[i][j]) BY <2>2, <2>3
      <3>2. PICK k \in 1 .. Len(recs) : q[i][j] = recs[k] BY <1>5
      <3> QED BY <2>1, <3>1, <3>2
    <2>4. ASSUME NEW x, x \in ToldBy(Kind, recs) PROVE \E i \in 1 .. full : x \in ToldBy(Kind, q[i])
      <3>1. PICK k \in 1 .. Len(recs) : x \in Told(Kind, recs[k]) BY <2>1, <2>4
      <3>2. PICK i \in 1 .. full : \E j \in 1 .. Len(q[i]) : q[i][j] = recs[k] BY <1>5
      <3> QED BY <2>2, <3>1, <3>2
    <2> QED BY <2>3, <2>4
  <1>9. UNION {ToldBy(Kind, q[i]) : i \in 1 .. Len(q)} = ToldBy(Kind, recs) BY <1>7, <1>8
  <1> QED BY <1>1, <1>7, <1>9 DEF S

PacketRec == [ext : Int, records : Seq(RecordOf(Kind))]

\* missing_seqs reads a record of either encoding as it was written.
LEMMA MissingTold ==
  ASSUME ~Advd, NEW p \in PacketRec PROVE MissingSeqs(p) = ToldBy(Kind, p.records)
  <1>1. DOMAIN p.records = 1 .. Len(p.records) BY DEF PacketRec
  <1>2. CASE wcase.bitmask
    <2>1. Kind = "mask" BY <1>2 DEF Kind, Advd
    <2>2. ASSUME NEW r PROVE Numbers(r) = Told("mask", r) BY <1>2 DEF Numbers, Told, Modulus
    <2> QED BY <1>1, <2>1, <2>2 DEF MissingSeqs, ToldBy
  <1>3. CASE ~wcase.bitmask
    <2>1. Kind = "range" BY <1>3 DEF Kind, Advd
    <2>2. ASSUME NEW r PROVE Numbers(r) = Told("range", r) BY <1>3 DEF Numbers, Told, Modulus
    <2> QED BY <1>1, <2>1, <2>2 DEF MissingSeqs, ToldBy
  <1> QED BY <1>2, <1>3

\* K: the numbers the sender is to find for the low parts a packet names.
Recovers(high, K) ==
  \A v \in K : /\ v \in Int /\ WidenAtMost(Low(v), HighestSent) = v
               /\ high # NoExt => high * WireMod + Low(v) = v

LEMMA PacketFound ==
  ASSUME ~Advd, NEW p \in PacketRec, NEW K, NEW L \in SUBSET K, NEW high, Recovers(high, K),
         p.ext \in {NoExt, high}, ToldBy(Kind, p.records) = {Low(v) : v \in L}
  PROVE  FoldNack(p) = L
  <1>1. MissingSeqs(p) = {Low(v) : v \in L} BY MissingTold
  <1>2. CASE p.ext # NoExt
    <2>1. p.ext = high /\ high # NoExt BY <1>2
    <2>2. FoldNack(p) = {high * WireMod + s : s \in MissingSeqs(p)} BY <1>2, <2>1 DEF FoldNack
    <2>3. \A v \in L : high * WireMod + Low(v) = v BY <2>1 DEF Recovers
    <2>4. FoldNack(p) = {high * WireMod + Low(v) : v \in L} BY <1>1, <2>2
    <2> QED BY <2>3, <2>4
  <1>3. CASE p.ext = NoExt
    <2>2. FoldNack(p) = {WidenAtMost(s, HighestSent) : s \in MissingSeqs(p)} BY <1>3 DEF FoldNack
    <2>3. \A v \in L : WidenAtMost(Low(v), HighestSent) = v BY DEF Recovers
    <2>4. FoldNack(p) = {WidenAtMost(Low(v), HighestSent) : v \in L} BY <1>1, <2>2
    <2> QED BY <2>3, <2>4
  <1> QED BY <1>2, <1>3

\* The packets of one group, its upper half before the first: what a sender that
\* recovers them makes of their numbers.
Finds(q, K) == q \in Seq(PacketRec) /\ UNION {FoldNack(q[i]) : i \in 1 .. Len(q)} = K
SameLow(K, ms) == {Low(v) : v \in K} = {Low(ms[i]) : i \in 1 .. Len(ms)}

LEMMA QualifiedFound ==
  ASSUME ~Advd, NEW ms \in Seq(Nat), NEW high \in Int, NEW K, Recovers(high, K), SameLow(K, ms)
  PROVE  Finds(Qualified(NackPackets(ms), high), K)
  <1> DEFINE q == Qualified(NackPackets(ms), high)
             ps == NackPackets(ms)
             n == Len(ps)
             M(i) == {v \in K : Low(v) \in ToldBy(Kind, ps[i])}
  <1>1. /\ ps \in Seq(Seq(RecordOf(Kind)))
        /\ UNION {ToldBy(Kind, ps[i]) : i \in 1 .. n} = {Low(v) : v \in K}
    BY PacketsTell DEF SameLow
  <1>2. q = [i \in 1 .. n |-> [ext |-> IF i = 1 THEN high ELSE NoExt, records |-> ps[i]]]
    BY <1>1 DEF Qualified
  <1> HIDE DEF ps, q
  <1>3. n \in Nat /\ \A i \in 1 .. n : ps[i] \in Seq(RecordOf(Kind)) BY <1>1, ElementOfSeq
  <1> HIDE DEF n
  <1>4. \A i \in 1 .. n : /\ q[i] \in PacketRec /\ q[i].ext \in {NoExt, high} /\ q[i].records = ps[i]
    BY <1>2, <1>3 DEF PacketRec, NoExt
  <1>5. q \in Seq(PacketRec) /\ Len(q) = n BY <1>2, <1>3, <1>4
  <1>6. ASSUME NEW i \in 1 .. n PROVE FoldNack(q[i]) = M(i)
    <2>1. M(i) \in SUBSET K OBVIOUS
    <2>2. ToldBy(Kind, ps[i]) = {Low(v) : v \in M(i)}
      <3>1. \A x \in ToldBy(Kind, ps[i]) : \E v \in K : x = Low(v) BY <1>1
      <3> QED BY <3>1
    <2> HIDE DEF M
    <2> QED BY <1>4, <2>1, <2>2, PacketFound
  <1>7. UNION {M(i) : i \in 1 .. n} = K
    <2>1. \A v \in K : Low(v) \in UNION {ToldBy(Kind, ps[i]) : i \in 1 .. n} BY <1>1
    <2>2. \A v \in K : \E i \in 1 .. n : Low(v) \in ToldBy(Kind, ps[i]) BY <2>1
    <2> QED BY <2>2
  <1> HIDE DEF M
  <1> QED BY <1>5, <1>6, <1>7 DEF Finds, q

\* The packets of all groups, one behind the other.
Flattens(n, f, seqs) == f = [i \in 1 .. n |-> IF i = 1 THEN seqs[i] ELSE f[i - 1] \o seqs[i]]

LEMMA FlattensExist ==
  ASSUME NEW seqs, NEW n \in Nat
  PROVE  \E f : Flattens(n, f, seqs)
  <1> DEFINE A == {i \in Nat : \E f : Flattens(i, f, seqs)}
  <1>1. 0 \in A
    <2>1. <<>> = [i \in 1 .. 0 |-> IF i = 1 THEN seqs[i] ELSE (<<>>)[i - 1] \o seqs[i]] OBVIOUS
    <2> QED BY <2>1 DEF Flattens
  <1>2. ASSUME NEW i \in 0 .. n - 1, i \in A PROVE i + 1 \in A
    <2>1. PICK f : Flattens(i, f, seqs) BY <1>2
    <2>2. f = [j \in 1 .. i |-> IF j = 1 THEN seqs[j] ELSE f[j - 1] \o seqs[j]]
          /\ DOMAIN f = 1 .. i
      BY <2>1 DEF Flattens
    <2> DEFINE m == i + 1
               g == [j \in 1 .. m |-> IF j = m THEN (IF m = 1 THEN seqs[m] ELSE f[i] \o seqs[m])
                                      ELSE f[j]]
    <2>3. ASSUME NEW j \in 1 .. m
          PROVE  g[j] = IF j = 1 THEN seqs[j] ELSE g[j - 1] \o seqs[j]
      <3>1. CASE j = m
        <4>1. j # 1 => i \in 1 .. m /\ i # m /\ j - 1 = i BY <3>1
        <4>2. j # 1 => g[j - 1] = f[i] BY <4>1
        <4> QED BY <3>1, <4>2
      <3>2. CASE j # m
        <4>1. j \in 1 .. i /\ (j # 1 => j - 1 \in 1 .. m /\ j - 1 # m) BY <3>2
        <4>2. g[j] = f[j] /\ (j # 1 => g[j - 1] = f[j - 1]) BY <3>2, <4>1
        <4>3. f[j] = IF j = 1 THEN seqs[j] ELSE f[j - 1] \o seqs[j] BY <2>2, <4>1
        <4> HIDE DEF g
        <4> QED BY <4>2, <4>3
      <3> QED BY <3>1, <3>2
    <2>4. g = [j \in 1 .. m |-> g[j]] OBVIOUS
    <2> HIDE DEF g
    <2>5. [j \in 1 .. m |-> g[j]] = [j \in 1 .. m |-> IF j = 1 THEN seqs[j] ELSE g[j - 1] \o seqs[j]]
      BY <2>3
    <2>6. Flattens(m, g, seqs) BY <2>4, <2>5 DEF Flattens
    <2> QED BY <2>6
  <1> HIDE DEF A
  <1>3. n \in A BY <1>1, <1>2, StepsReach
  <1> QED BY <1>3 DEF A

\* What is in the flattened sequence is in one of its parts, and the other way round.
Flat(f, seqs) ==
  \A x : (\E i \in 1 .. Len(f) : f[i] = x)
           <=> \E k \in 1 .. Len(seqs) : \E j \in 1 .. Len(seqs[k]) : seqs[k][j] = x

LEMMA FlattenHolds ==
  ASSUME NEW S, NEW seqs \in Seq(Seq(S))
  PROVE  FlattenSeq(seqs) \in Seq(S) /\ Flat(FlattenSeq(seqs), seqs)
  <1> DEFINE n == Len(seqs)
             f == CHOOSE g : g = [i \in 1 .. n |-> IF i = 1 THEN seqs[i] ELSE g[i - 1] \o seqs[i]]
             Has(q, x) == \E i \in 1 .. Len(q) : q[i] = x
             OK(i) == /\ f[i] \in Seq(S)
                      /\ \A x : Has(f[i], x) <=> \E k \in 1 .. i : Has(seqs[k], x)
             A == {i \in Nat : i = 0 \/ OK(i)}
  <1>1. n \in Nat OBVIOUS
  <1>2. f = [i \in 1 .. n |-> IF i = 1 THEN seqs[i] ELSE f[i - 1] \o seqs[i]]
    BY <1>1, FlattensExist DEF Flattens
  <1>3. FlattenSeq(seqs) = IF n = 0 THEN seqs ELSE f[n] BY DEF FlattenSeq
  <1> HIDE DEF f, n
  <1>4. ASSUME NEW i \in 0 .. n - 1, i \in A PROVE i + 1 \in A
    <2>1. i \in Nat /\ i + 1 \in 1 .. n /\ i + 1 \in Nat BY <1>1
    <2>2. seqs[i + 1] \in Seq(S) BY <2>1, ElementOfSeq DEF n
    <2>3. f[i + 1] = IF i = 0 THEN seqs[i + 1] ELSE f[i] \o seqs[i + 1]
      <3>1. i + 1 = 1 <=> i = 0 BY <2>1
      <3>2. (i + 1) - 1 = i BY <2>1
      <3> QED BY <1>2, <2>1, <3>1, <3>2
    <2>4. CASE i = 0
      <3>1. 1 .. 1 = {1} OBVIOUS
      <3> QED BY <2>2, <2>3, <2>4, <3>1
    <2>5. CASE i # 0
      <3>1. f[i] \in Seq(S) /\ \A x : Has(f[i], x) <=> \E k \in 1 .. i : Has(seqs[k], x) BY <1>4, <2>5
      <3> DEFINE a == f[i]
                 b == seqs[i + 1]
      <3>2. a \in Seq(S) /\ b \in Seq(S) /\ f[i + 1] = a \o b BY <2>2, <2>3, <2>5, <3>1
      <3>3. \A x : Has(a, x) <=> \E k \in 1 .. i : Has(seqs[k], x) BY <3>1
      <3> HIDE DEF a
      <3>4. \A x : Has(a \o b, x) <=> Has(a, x) \/ Has(b, x)
        <4> HIDE DEF b
        <4>1. /\ Len(a \o b) = Len(a) + Len(b) /\ Len(a) \in Nat /\ Len(b) \in Nat
              /\ \A j \in 1 .. Len(a) + Len(b) : (a \o b)[j] = IF j <= Len(a) THEN a[j] ELSE b[j - Len(a)]
          BY <3>2, ConcatProperties
        <4> DEFINE c == a \o b
        <4>2. ASSUME NEW x, NEW j \in 1 .. Len(c), c[j] = x PROVE Has(a, x) \/ Has(b, x)
          <5>1. CASE j <= Len(a) BY <4>1, <4>2, <5>1
          <5>2. CASE ~(j <= Len(a))
            <6>1. j - Len(a) \in 1 .. Len(b) /\ b[j - Len(a)] = x BY <4>1, <4>2, <5>2
            <6> QED BY <6>1
          <5> QED BY <5>1, <5>2
        <4>3. ASSUME NEW x, NEW j \in 1 .. Len(a), a[j] = x PROVE Has(c, x)
          <5>1. j \in 1 .. Len(c) /\ c[j] = x BY <4>1, <4>3
          <5> HIDE DEF c
          <5> QED BY <5>1
        <4>4. ASSUME NEW x, NEW j \in 1 .. Len(b), b[j] = x PROVE Has(c, x)
          <5> DEFINE k == Len(a) + j
          <5>1. k \in 1 .. Len(c) /\ k \in 1 .. Len(a) + Len(b) /\ ~(k <= Len(a)) /\ k - Len(a) = j
            BY <4>1
          <5>2. c[k] = x BY <4>1, <4>4, <5>1
          <5> HIDE DEF c, k
          <5> QED BY <5>1, <5>2
        <4> HIDE DEF c
        <4> QED BY <4>2, <4>3, <4>4 DEF c
      <3>5. a \o b \in Seq(S) BY <3>2, ConcatProperties
      <3>6. 1 .. i + 1 = (1 .. i) \cup {i + 1} BY <2>1
      <3> HIDE DEF Has
      <3>7. \A x : Has(f[i + 1], x) <=> \E k \in 1 .. i + 1 : Has(seqs[k], x)
        BY <3>2, <3>3, <3>4, <3>6
      <3> QED BY <2>1, <3>2, <3>5, <3>7
    <2> QED BY <2>4, <2>5
  <1>5. CASE n = 0
    <2>1. seqs = <<>> /\ Len(<<>>) = 0 /\ 1 .. 0 = {} BY <1>5 DEF n
    <2> QED BY <1>3, <1>5, <2>1 DEF Flat
  <1>6. CASE n # 0
    <2>1. 0 \in A OBVIOUS
    <2> HIDE DEF A
    <2>2. n \in A BY <1>1, <1>4, <2>1, StepsReach
    <2>3. OK(n) BY <1>6, <2>2 DEF A
    <2> QED BY <1>3, <1>6, <2>3 DEF n, Flat
  <1> QED BY <1>5, <1>6

\* A group's numbers, from its upper half and the low part of each.
LEMMA GroupRecovers ==
  ASSUME NEW g \in RecordOf("group"),
         \A v \in Told("group", g) : WidenAtMost(Low(v), HighestSent) = v
  PROVE  /\ g \in Seq(Nat) /\ High(g[1]) \in Int
         /\ Recovers(High(g[1]), Told("group", g))
         /\ SameLow(Told("group", g), g)
  <1>1. /\ g \in Seq(Nat) /\ g # <<>>
        /\ \A i \in 1 .. Len(g) : High(g[i]) = High(g[1])
    BY DEF RecordOf, SeqGroup
  <1>2. 1 \in 1 .. Len(g) /\ g[1] \in Nat
    <2>1. Len(g) \in 1 .. Len(g) BY <1>1, LastIn
    <2>2. 1 \in 1 .. Len(g) BY <2>1
    <2> QED BY <1>1, <2>2, ElementOfSeq
  <1>3. Told("group", g) = {g[i] : i \in 1 .. Len(g)} BY DEF Told
  <1>4. ASSUME NEW v \in Nat PROVE High(v) \in Int /\ High(v) * WireMod + Low(v) = v
    <2>1. v \in Int OBVIOUS
    <2>2. High(v) \in Int /\ v = WireMod * High(v) + Low(v) BY <2>1, Ranges, DivSplit DEF High, Low
    <2>3. WireMod * High(v) = High(v) * WireMod BY <2>2, Ranges
    <2> QED BY <2>2, <2>3
  <1>5. ASSUME NEW v \in Told("group", g)
        PROVE  v \in Nat /\ High(v) = High(g[1])
    <2>1. PICK i \in 1 .. Len(g) : v = g[i] BY <1>3
    <2> QED BY <1>1, <2>1, ElementOfSeq
  <1>6. Recovers(High(g[1]), Told("group", g))
    <2>1. ASSUME NEW v \in Told("group", g)
          PROVE  v \in Int /\ High(g[1]) * WireMod + Low(v) = v
      BY <1>4, <1>5
    <2> QED BY <2>1 DEF Recovers
  <1>7. SameLow(Told("group", g), g) BY <1>3 DEF SameLow
  <1>8. High(g[1]) \in Int BY <1>2, <1>4
  <1> QED BY <1>1, <1>6, <1>7, <1>8

\* fold_nack finds in the packets of encode_nack what they were made from.
LEMMA EncodedFound ==
  ASSUME ~Advd, NEW ms \in Seq(Nat), NEW K,
         \A v \in K : v \in Int /\ WidenAtMost(Low(v), HighestSent) = v,
         SameLow(K, ms),
         wcase.profile # "simple" => K = {ms[i] : i \in 1 .. Len(ms)},
         NEW q, q = EncodeNack(ms)
  PROVE  Finds(q, K)
  <1> DEFINE plain == wcase.profile = "simple" \/ \A i \in DOMAIN ms : High(ms[i]) = 0
  <1>1. CASE plain
    <2>1. q = Qualified(NackPackets(ms), NoExt) BY <1>1 DEF EncodeNack
    <2>2. Recovers(NoExt, K) /\ NoExt \in Int BY DEF Recovers, NoExt
    <2>3. Finds(Qualified(NackPackets(ms), NoExt), K) BY <2>2, QualifiedFound
    <2> QED BY <2>1, <2>3
  <1>2. CASE ~plain
    <2> DEFINE groups == FoldLeft(JoinGroup, <<>>, ms)
               n == Len(groups)
               T(k) == Told("group", groups[k])
               seqs == [k \in DOMAIN groups |-> Qualified(NackPackets(groups[k]), High(groups[k][1]))]
    <2>1. q = FlattenSeq(seqs) BY <1>2 DEF EncodeNack
    <2>2. groups \in Seq(RecordOf("group")) /\ ToldBy("group", groups) = K
      <3>1. "group" \in Kinds /\ groups = Packed("group", ms) BY DEF Kinds, Packed
      <3>2. \A i \in 1 .. Len(ms) : ms[i] \in NumbersOf("group") BY ElementOfSeq DEF NumbersOf
      <3>3. DOMAIN ms = 1 .. Len(ms) /\ Len(ms) \in Nat OBVIOUS
      <3>4. K = {ms[i] : i \in 1 .. Len(ms)} BY <1>2
      <3> HIDE DEF groups
      <3>5. /\ Packed("group", ms) \in Seq(RecordOf("group"))
            /\ ToldBy("group", Packed("group", ms)) = {ms[i] : i \in 1 .. Len(ms)}
        BY <3>1, <3>2, <3>3, PackedTold
      <3> QED BY <3>1, <3>4, <3>5
    <2> HIDE DEF groups
    <2>3. n \in Nat /\ DOMAIN groups = 1 .. n BY <2>2
    <2>4. K = UNION {T(k) : k \in 1 .. n} BY <2>2 DEF ToldBy
    <2>5. ASSUME NEW k \in 1 .. n
          PROVE  /\ seqs[k] \in Seq(PacketRec)
                 /\ UNION {FoldNack(seqs[k][j]) : j \in 1 .. Len(seqs[k])} = T(k)
      <3> DEFINE g == groups[k]
                 p == Qualified(NackPackets(g), High(g[1]))
      <3>1. g \in RecordOf("group") BY <2>2, ElementOfSeq
      <3>2. \A v \in Told("group", g) : v \in K BY <2>4
      <3>3. seqs[k] = p BY <2>3
      <3> HIDE DEF g
      <3>4. /\ g \in Seq(Nat) /\ High(g[1]) \in Int
            /\ Recovers(High(g[1]), Told("group", g))
            /\ SameLow(Told("group", g), g)
        BY <3>1, <3>2, GroupRecovers
      <3>5. Finds(p, Told("group", g)) BY <3>4, QualifiedFound
      <3> QED BY <3>3, <3>5 DEF Finds, g
    <2>6. seqs \in Seq(Seq(PacketRec)) /\ Len(seqs) = n
      <3>1. DOMAIN seqs = 1 .. n /\ seqs = [k \in 1 .. n |-> seqs[k]] BY <2>3
      <3> HIDE DEF seqs
      <3> QED BY <2>3, <2>5, <3>1
    <2> HIDE DEF seqs, n
    <2>7. /\ q \in Seq(PacketRec)
          /\ \A x : (\E i \in 1 .. Len(q) : q[i] = x)
                      <=> \E k \in 1 .. n : \E j \in 1 .. Len(seqs[k]) : seqs[k][j] = x
      <3>1. seqs \in Seq(Seq(PacketRec)) BY <2>6
      <3>2. n = Len(seqs) BY <2>6
      <3>3. FlattenSeq(seqs) \in Seq(PacketRec) /\ Flat(FlattenSeq(seqs), seqs) BY <3>1, FlattenHolds
      <3> QED BY <2>1, <3>2, <3>3 DEF Flat
    <2>9. ASSUME NEW i \in 1 .. Len(q), NEW v \in FoldNack(q[i]) PROVE v \in K
      <3>1. PICK k \in 1 .. n : \E j \in 1 .. Len(seqs[k]) : seqs[k][j] = q[i] BY <2>7
      <3>2. v \in T(k) BY <2>5, <3>1
      <3> QED BY <2>4, <3>2
    <2>10. ASSUME NEW v \in K PROVE \E i \in 1 .. Len(q) : v \in FoldNack(q[i])
      <3>1. PICK k \in 1 .. n : v \in T(k) BY <2>4
      <3>4. v \in UNION {FoldNack(seqs[k][j]) : j \in 1 .. Len(seqs[k])} BY <2>5, <3>1
      <3>2. PICK j \in 1 .. Len(seqs[k]) : v \in FoldNack(seqs[k][j]) BY <3>4
      <3>3. PICK i \in 1 .. Len(q) : q[i] = seqs[k][j] BY <2>7
      <3> QED BY <3>2, <3>3
    <2> QED BY <2>7, <2>9, <2>10 DEF Finds
  <1> QED BY <1>1, <1>2

\* The Advanced records are whole numbers, one to a datagram.
LEMMA WholeFound ==
  ASSUME Advd, NEW ms, ms \in Seq(Nat), \A i \in 1 .. Len(ms) : ms[i] \in 0 .. SeqRange - 1,
         NEW q, q = EncodeWhole(ms)
  PROVE  UNION {Understands(q[i]) : i \in DOMAIN q} = {ms[i] : i \in 1 .. Len(ms)}
  <1> DEFINE recs == Packed(Kind, ms)
             n == Len(recs)
  <1>1. recs \in Seq(RecordOf(Kind)) /\ ToldBy(Kind, recs) = {ms[i] : i \in 1 .. Len(ms)}
    <2>1. Kind \in Kinds /\ NumbersOf(Kind) = 0 .. SeqRange - 1 BY KindIs
    <2>2. \A i \in 1 .. Len(ms) : ms[i] \in NumbersOf(Kind) BY <2>1
    <2>3. DOMAIN ms = 1 .. Len(ms) /\ Len(ms) \in Nat OBVIOUS
    <2> QED BY <2>1, <2>2, <2>3, PackedTold
  <1>2. q = [i \in DOMAIN recs |-> [ext |-> NoExt, records |-> <<recs[i]>>]]
    <2>1. CASE wcase.bitmask BY <2>1 DEF EncodeWhole, Packed, Kind, Advd
    <2>2. CASE ~wcase.bitmask BY <2>2 DEF EncodeWhole, Packed, Kind, Advd
    <2> QED BY <2>1, <2>2
  <1> HIDE DEF recs
  <1>3. DOMAIN recs = 1 .. n /\ n \in Nat BY <1>1
  <1>4. ASSUME NEW i \in 1 .. n PROVE Understands(q[i]) = Told(Kind, recs[i])
    <2> DEFINE r == recs[i]
    <2>1. q[i].records = <<r>> BY <1>2, <1>3
    <2>2. r \in RecordOf(Kind) BY <1>1, ElementOfSeq
    <2> HIDE DEF r
    <2>3. DOMAIN <<r>> = {1} /\ (<<r>>)[1] = r OBVIOUS
    <2>4. Understands(q[i]) = WholeNumbers(r) BY <2>1, <2>3 DEF Understands, Advd
    <2>5. CASE wcase.bitmask
      <3>1. Kind = "bits" BY <2>5 DEF Kind, Advd
      <3>2. WholeNumbers(r) = Told("bits", r) BY <2>5 DEF WholeNumbers, Told, Modulus
      <3> QED BY <2>4, <3>1, <3>2 DEF r
    <2>6. CASE ~wcase.bitmask
      <3>1. Kind = "run" BY <2>6 DEF Kind, Advd
      <3>2. r.extra < AdvRun BY <2>2, <3>1 DEF RecordOf
      <3>3. WholeNumbers(r) = Told("run", r) BY <2>6, <3>2 DEF WholeNumbers, Told, Modulus
      <3> QED BY <2>4, <3>1, <3>3 DEF r
    <2> QED BY <2>5, <2>6
  <1>5. DOMAIN q = 1 .. n BY <1>2, <1>3
  <1> HIDE DEF n
  <1>6. {Understands(q[i]) : i \in DOMAIN q} = {Told(Kind, recs[i]) : i \in 1 .. n} BY <1>4, <1>5
  <1> QED BY <1>1, <1>6 DEF ToldBy, n

-----------------------------------------------------------------------------
(* The numbers asked for                                                     *)

LEMMA OrderHolds ==
  ASSUME NEW ks, ks \subseteq Int, IsFiniteSet(ks)
  PROVE  /\ Cardinality(ks) \in Nat
         /\ DOMAIN Ascending(ks) = 1 .. Cardinality(ks)
         /\ {Ascending(ks)[i] : i \in 1 .. Cardinality(ks)} = ks
  <1> DEFINE n == Cardinality(ks)
             less(k) == {j \in ks : j < k}
             rank(k) == Cardinality(less(k))
             f == [k \in ks |-> rank(k)]
             order == Ascending(ks)
  <1>1. n \in Nat BY FS_CardinalityType
  <1>2. ASSUME NEW k \in ks PROVE rank(k) \in 0 .. n - 1 /\ IsFiniteSet(less(k))
    <2>1. IsFiniteSet(ks \ {k}) /\ Cardinality(ks \ {k}) = n - 1 BY FS_RemoveElement
    <2>2. less(k) \in SUBSET (ks \ {k}) OBVIOUS
    <2> HIDE DEF less
    <2>3. IsFiniteSet(less(k)) /\ Cardinality(less(k)) <= n - 1 BY <2>1, <2>2, FS_Subset
    <2>4. Cardinality(less(k)) \in Nat BY <2>3, FS_CardinalityType
    <2> QED BY <1>1, <2>3, <2>4
  <1>3. ASSUME NEW k \in ks, NEW l \in ks, k < l PROVE rank(k) < rank(l)
    <2>0. \A j \in ks : j \in Int OBVIOUS
    <2>1. k \in less(l) /\ less(k) \in SUBSET (less(l) \ {k})
      <3>1. \A j \in less(k) : j \in ks /\ j < l /\ j # k BY <1>3, <2>0
      <3> QED BY <1>3, <3>1
    <2>2. IsFiniteSet(less(l)) BY <1>2
    <2> HIDE DEF less
    <2>3. IsFiniteSet(less(l) \ {k}) /\ Cardinality(less(l) \ {k}) = Cardinality(less(l)) - 1
      BY <2>1, <2>2, FS_RemoveElement
    <2>4. Cardinality(less(k)) <= Cardinality(less(l)) - 1 BY <2>1, <2>3, FS_Subset
    <2>5. Cardinality(less(l)) \in Nat /\ Cardinality(less(k)) \in Nat BY <1>2
    <2> QED BY <2>4, <2>5
  <1> HIDE DEF rank, n
  <1>4. ASSUME NEW k \in ks, NEW l \in ks, rank(k) = rank(l) PROVE k = l
    <2>1. k < l \/ l < k \/ k = l OBVIOUS
    <2>3. rank(k) \in 0 .. n - 1 /\ rank(l) \in 0 .. n - 1 BY <1>2
    <2>2. rank(k) \in Int /\ rank(l) \in Int BY <1>1, <2>3
    <2> QED BY <1>3, <1>4, <2>1, <2>2
  <1> DEFINE T == 0 .. n - 1
  <1>5. f \in [ks -> T] BY <1>2
  <1>6. \A k, l \in ks : f[k] = f[l] => k = l BY <1>4
  <1>7. IsFiniteSet(T) /\ Cardinality(T) = n BY <1>1, FS_Interval
  <1>8. \A k \in ks : f[k] = rank(k) OBVIOUS
  <1> HIDE DEF f, T
  <1>9. f \in Injection(ks, T) BY <1>5, <1>6 DEF Injection, IsInjective
  <1>10. f \in Surjection(ks, T) BY <1>7, <1>9, FS_Injection DEF n
  <1>11. ASSUME NEW i \in 1 .. n PROVE \E k \in ks : rank(k) = i - 1
    <2>1. i - 1 \in T BY <1>1 DEF T
    <2> QED BY <1>8, <1>10, <2>1 DEF Surjection
  <1>12. order = [i \in 1 .. n |-> CHOOSE k \in ks : rank(k) = i - 1] BY DEF Ascending, rank, n
  <1> HIDE DEF order, less
  <1>13. ASSUME NEW i \in 1 .. n PROVE order[i] \in ks /\ rank(order[i]) = i - 1 BY <1>11, <1>12
  <1>14. ASSUME NEW k \in ks PROVE \E i \in 1 .. n : order[i] = k
    <2> DEFINE i == rank(k) + 1
    <2>1. i \in 1 .. n /\ i - 1 = rank(k) BY <1>1, <1>2
    <2> HIDE DEF i
    <2>2. order[i] \in ks /\ rank(order[i]) = rank(k) BY <1>13, <2>1
    <2> QED BY <1>4, <2>1, <2>2
  <1>15. DOMAIN order = 1 .. n BY <1>12
  <1> QED BY <1>1, <1>13, <1>14, <1>15 DEF order, n

\* widen_seq_at_most finds the sequence of a packet sent less than a wrap ago.
LEMMA AtMostFound ==
  ASSUME NEW r \in 0 .. SeqRange - 1, NEW d \in 0 .. WireMod - 1
  PROVE  WidenAtMost(Low((r - d) % SeqRange), r) = (r - d) % SeqRange
  <1> DEFINE m == WireMod
             l == r % m
             a == r - l
             t == r - d
             w == t % m
  <1>1. m \in Nat \ {0} /\ r \in Int /\ d \in Int /\ t \in Int /\ l \in 0 .. m - 1
    BY Ranges, ModRange
  <1>2. Low(t % SeqRange) = w BY <1>1, LowOfWhole DEF Low
  <1>3. WidenAtMost(w, r) = IF a + w > r THEN ((a + w) - m) % SeqRange ELSE a + w
    <2> HIDE DEF w
    <2>1. Low(r) = l BY DEF Low
    <2> HIDE DEF l
    <2>2. WidenAtMost(w, r) = IF (r - Low(r)) + w > r THEN (((r - Low(r)) + w) - WireMod) % SeqRange
                              ELSE (r - Low(r)) + w
      BY DEF WidenAtMost
    <2>3. r - Low(r) = a BY <2>1
    <2> HIDE DEF a
    <2>4. WidenAtMost(w, r) = IF a + w > r THEN ((a + w) - WireMod) % SeqRange ELSE a + w
      BY <2>2, <2>3, Zenon
    <2> QED BY <2>4
  <1>4. PICK q \in Int : r = m * q + l BY <1>1, ModSplit
  <1>5. m * (q - 1) = m * q - m /\ m * q \in Int BY <1>1
  <1> HIDE DEF l, w
  <1>6. CASE l >= d
    <2>1. t = m * q + (l - d) /\ l - d \in 0 .. m - 1 BY <1>1, <1>4, <1>5, <1>6
    <2>2. w = l - d BY <1>1, <2>1, ModIs DEF w
    <2>3. a + w = t /\ ~(t > r) BY <1>1, <2>2
    <2>4. a >= 0
      <3> SUFFICES ASSUME q <= -1 PROVE FALSE BY <1>1, <1>4
      <3>1. m * q <= -m BY <1>1
      <3> QED BY <1>1, <1>4, <1>5, <3>1
    <2>5. t \in 0 .. SeqRange - 1 BY <1>1, <1>6, <2>4, Ranges
    <2>6. t % SeqRange = t BY <2>5, Ranges, ModSmall
    <2> QED BY <1>2, <1>3, <2>3, <2>6
  <1>7. CASE ~(l >= d)
    <2>1. t = m * (q - 1) + (l - d + m) /\ l - d + m \in 0 .. m - 1 BY <1>1, <1>4, <1>5, <1>7
    <2>2. q - 1 \in Int OBVIOUS
    <2>3. w = l - d + m BY <1>1, <2>1, <2>2, ModIs DEF w
    <2>4. a + w > r /\ (a + w) - m = t BY <1>1, <2>3
    <2> QED BY <1>2, <1>3, <2>4
  <1> QED BY <1>1, <1>6, <1>7

LEMMA YoungFound ==
  ASSUME WireTyped, NEW k \in Int, k > stream.sent - 1 - WireMod, k <= stream.sent - 1
  PROVE  /\ SentSeq(k) \in Int /\ SentSeq(k) \in 0 .. SeqRange - 1
         /\ WidenAtMost(Low(SentSeq(k)), HighestSent) = SentSeq(k)
  <1> DEFINE x == stream.start + (stream.sent - 1)
             d == stream.sent - 1 - k
             r == HighestSent
  <1>1. x \in Int /\ d \in Int /\ d \in 0 .. WireMod - 1 BY Ranges DEF WireTyped
  <1>2. r = x % SeqRange BY DEF HighestSent, SentSeq
  <1>3. x - d = stream.start + k BY DEF WireTyped
  <1>4. SentSeq(k) = (x - d) % SeqRange BY <1>3 DEF SentSeq
  <1> HIDE DEF x, d, r
  <1>5. r \in 0 .. SeqRange - 1 BY <1>1, <1>2, LowOfWhole
  <1> DEFINE e == 0 - d
  <1>10. e \in Int /\ r - d = r + e /\ x - d = x + e BY <1>1, <1>5, Ranges
  <1> HIDE DEF e
  <1>6. ((x % SeqRange) + e) % SeqRange = (x + e) % SeqRange BY <1>1, <1>10, Ranges, ModAdd
  <1>7. (r - d) % SeqRange = (x - d) % SeqRange BY <1>2, <1>6, <1>10
  <1>8. WidenAtMost(Low((r - d) % SeqRange), r) = (r - d) % SeqRange BY <1>1, <1>5, AtMostFound
  <1>9. SentSeq(k) \in 0 .. SeqRange - 1
    <2>1. x - d \in Int BY <1>1
    <2> QED BY <1>4, <2>1, LowOfWhole
  <1> QED BY <1>4, <1>7, <1>8, <1>9, Ranges DEF r

\* A Main receiver decodes its first packet before the sender's short sequence
\* has wrapped, and the sender does not start anew; otherwise its own count of
\* wraps is not the sender's, and NackExact fails (run wire_upper).
SeesTheStart ==
  wcase.profile = "main" =>
    ~resent' /\ (~decoder.started /\ decoder'.started => High(SentSeq(latest')) = 0)

\* The receiver's numbers are those the sender means, as far as its profile tells.
Sure ==
  wcase.profile = "main" =>
    /\ ~resent
    /\ known = {} => ~decoder.started /\ asking = {} /\ \A m \in under : ~m.retransmit
    /\ decoder.started => decoder.ref_seq = SentSeq(latest)

\* A compound under way was made from the numbers of what it asks for.
MadeFrom(ms, c) ==
  /\ c.packets = EncodeMissing(ms) /\ \A i \in 1 .. Len(ms) : ms[i] \in 0 .. SeqRange - 1
  /\ SameLow({SentSeq(k) : k \in c.asked}, ms)
  /\ wcase.profile # "simple" => {SentSeq(k) : k \in c.asked} = {ms[i] : i \in 1 .. Len(ms)}
AskedOK(c) == c.asked \subseteq 0 .. stream.sent - 1 /\ \E ms \in Seq(Nat) : MadeFrom(ms, c)

NackInv ==
  /\ WInv /\ Sure /\ NackExact
  /\ stream.sent \in Nat
  /\ \A m \in under : m.k \in 0 .. stream.sent - 1
  /\ \A p \in known : p.k \in 0 .. stream.sent - 1
  /\ \A c \in asking : AskedOK(c)

LEMMA Farthest ==
  ASSUME NEW n \in Nat, NEW ps, ps # {}, \A p \in ps : p.k \in 0 .. n
  PROVE  \E p \in ps : \A q \in ps : q.k <= p.k
  <1> DEFINE B == {n - p.k : p \in ps}
  <1>1. B \subseteq Nat /\ B # {} OBVIOUS
  <1>2. PICK b \in B : \A x \in B : b <= x
    <2> HIDE DEF B
    <2> QED BY <1>1, LeastNat
  <1>3. PICK p \in ps : b = n - p.k OBVIOUS
  <1>4. ASSUME NEW q \in ps PROVE q.k <= p.k
    <2>1. n - q.k \in B OBVIOUS
    <2>2. b <= n - q.k BY <1>2, <2>1
    <2> QED BY <1>3, <2>2
  <1> QED BY <1>4

LEMMA Earliest ==
  ASSUME NEW n \in Nat, NEW ps, ps # {}, \A p \in ps : p.k \in 0 .. n
  PROVE  \E p \in ps : \A q \in ps : p.k <= q.k
  <1> DEFINE B == {p.k : p \in ps}
  <1>1. B \subseteq Nat /\ B # {} OBVIOUS
  <1>2. PICK b \in B : \A x \in B : b <= x
    <2> HIDE DEF B
    <2> QED BY <1>1, LeastNat
  <1> QED BY <1>2

LEMMA EndsKnown ==
  ASSUME NackInv, known # {}
  PROVE  First \in known /\ Newest \in known
  <1>1. stream.sent \in Nat /\ \A p \in known : p.k \in 0 .. stream.sent BY DEF NackInv
  <1>2. \E p \in known : \A q \in known : p.k <= q.k BY <1>1, Earliest
  <1>3. \E p \in known : \A q \in known : q.k <= p.k BY <1>1, Farthest
  <1>4. \A p \in known : p.k \in Int BY <1>1
  <1>5. \E p \in known : \A q \in known : p.k >= q.k BY <1>3, <1>4
  <1> QED BY <1>2, <1>5 DEF First, Newest

LEMMA HeldNotEmpty ==
  ASSUME NEW n \in Nat, NEW ps, ps # {}, \A p \in ps : p.k \in 0 .. n
  PROVE  Held(ps) # {}
  <1>1. PICK p \in ps : \A q \in ps : q.k <= p.k BY Farthest
  <1>2. WireMod \div 2 > 0 BY Ranges
  <1>3. \A q \in ps : q.k - p.k < WireMod \div 2
    <2> SUFFICES ASSUME NEW q \in ps PROVE q.k - p.k < WireMod \div 2 OBVIOUS
    <2>1. q.k <= p.k /\ q.k \in Int /\ p.k \in Int BY <1>1
    <2> QED BY <1>2, <2>1, Ranges
  <1> QED BY <1>3 DEF Held

\* NumberOf: the receiver's number for a packet, against the sender's.
LEMMA NumberIs ==
  ASSUME NackInv, known # {}, NEW k \in Int
  PROVE  /\ NumberOf(k) \in 0 .. SeqRange - 1
         /\ Low(NumberOf(k)) = Low(SentSeq(k))
         /\ wcase.profile # "simple" => NumberOf(k) = SentSeq(k)
  <1> DEFINE f == First
             r == decoder.ref_seq
             x == r + (f.k - latest)
             e == k - latest
             a == stream.start + latest
  <1>1. f \in known BY EndsKnown
  <1>2. AnchoredAt(decoder, latest) /\ AlignedTo(decoder, latest, f) /\ WireTyped
    BY <1>1 DEF NackInv, WInv, Anchored, Aligned
  <1>3. /\ f.k \in Int /\ f.seq = x % SeqRange /\ r \in Int /\ latest \in Int
        /\ x \in Int /\ e \in Int /\ a \in Int /\ k - f.k \in Int /\ r + e \in Int /\ a + e \in Int
    <2>1. f.k \in Int /\ f.seq = x % SeqRange BY <1>2 DEF AlignedTo
    <2>2. r \in Int /\ latest \in Int /\ stream.start \in Int BY <1>2, Ranges DEF WireTyped
    <2> QED BY <2>1, <2>2
  <1>4. x + (k - f.k) = r + e BY <1>3
  <1>5. SentSeq(latest) = a % SeqRange BY DEF SentSeq
  <1>6. a + e = stream.start + k BY <1>2, <1>3 DEF WireTyped
  <1>7. SentSeq(k) = (a + e) % SeqRange BY <1>6 DEF SentSeq
  <1> HIDE DEF x, a, e, r
  <1>8. NumberOf(k) = (r + e) % SeqRange
    <2> DEFINE b == k - f.k
    <2>1. NumberOf(k) = ((x % SeqRange) + b) % SeqRange
      <3>1. NumberOf(k) = (f.seq + (k - f.k)) % SeqRange
        <4>1. f.seq \in Int BY <1>3, Ranges
        <4>2. f.seq + k - f.k = f.seq + (k - f.k) BY <1>3, <4>1
        <4> QED BY <4>2 DEF NumberOf
      <3> QED BY <1>3, <3>1
    <2>2. b \in Int /\ x + b = r + e BY <1>3, <1>4
    <2> HIDE DEF b
    <2>4. x \in Int /\ SeqRange \in Nat \ {0} BY <1>3, Ranges
    <2>3. ((x % SeqRange) + b) % SeqRange = (x + b) % SeqRange BY <2>2, <2>4, ModAdd, ZenonT(30)
    <2> QED BY <2>1, <2>2, <2>3
  <1>9. NumberOf(k) \in 0 .. SeqRange - 1 BY <1>3, <1>8, LowOfWhole
  <1>10. r = SentSeq(latest) => NumberOf(k) = SentSeq(k)
    <2>1. ((a % SeqRange) + e) % SeqRange = (a + e) % SeqRange BY <1>3, Ranges, ModAdd, Zenon
    <2> QED BY <1>5, <1>7, <1>8, <2>1
  <1>11. CASE Advd BY <1>2, <1>9, <1>10, <1>11 DEF AnchoredAt, r
  <1>12. CASE ~Advd
    <2>1. decoder.started /\ r % WireMod = (a % SeqRange) % WireMod
      BY <1>2, <1>5, <1>12 DEF AnchoredAt, Low, r
    <2>2. (a % SeqRange) % WireMod = a % WireMod BY <1>3, LowOfWhole DEF Low
    <2>9. r \in Int /\ e \in Int /\ WireMod \in Nat \ {0} BY <1>3, Ranges
    <2>3. ((r % WireMod) + e) % WireMod = (r + e) % WireMod BY <2>9, ModAdd, ZenonT(30)
    <2>4. ((a % WireMod) + e) % WireMod = (a + e) % WireMod BY <1>3, Ranges, ModAdd, Zenon
    <2>5. Low(r + e) = Low(a + e) BY <2>1, <2>2, <2>3, <2>4 DEF Low
    <2>6. Low(NumberOf(k)) = Low(SentSeq(k)) BY <1>3, <1>7, <1>8, <2>5, LowOfWhole
    <2>7. wcase.profile = "main" => r = SentSeq(latest) BY <2>1 DEF NackInv, Sure, r
    <2>8. wcase.profile # "simple" => wcase.profile = "main"
      BY <1>2, <1>12, WireAssumption DEF WireTyped, WireCase, Advd
    <2> QED BY <1>9, <1>10, <2>6, <2>7, <2>8
  <1> QED BY <1>11, <1>12

LEMMA SentTyped == ASSUME WInv, NEW k \in Int PROVE SentSeq(k) \in 0 .. SeqRange - 1
  <1>1. stream.start + k \in Int BY DEF WInv, WireTyped
  <1> QED BY <1>1, LowOfWhole DEF SentSeq

\* What NackHoles puts under way.
LEMMA CompoundMade ==
  ASSUME NackInv, known # {}, NEW ks \in SUBSET HoleIndices
  PROVE  AskedOK(Compound(ks))
  <1> DEFINE n == Cardinality(ks)
             order == Ascending(ks)
             ms == [i \in DOMAIN order |-> NumberOf(order[i])]
             c == Compound(ks)
  <1>1. ks \subseteq 0 .. stream.sent - 1
    <2>1. First.k \in 0 .. stream.sent - 1 /\ Newest.k \in 0 .. stream.sent - 1
      BY EndsKnown DEF NackInv
    <2>2. stream.sent \in Nat BY DEF NackInv
    <2>3. HoleIndices \subseteq First.k .. Newest.k BY DEF HoleIndices
    <2> QED BY <2>1, <2>2, <2>3
  <1>2. ks \subseteq Int /\ IsFiniteSet(ks)
    <2>1. stream.sent \in Nat BY DEF NackInv
    <2>2. IsFiniteSet(0 .. stream.sent - 1) BY <2>1, FS_Interval
    <2>3. IsFiniteSet(ks) BY <1>1, <2>2, FS_Subset
    <2>4. 0 .. stream.sent - 1 \subseteq Int BY <2>1
    <2> QED BY <1>1, <2>3, <2>4
  <1>3. n \in Nat /\ DOMAIN order = 1 .. n /\ {order[i] : i \in 1 .. n} = ks BY <1>2, OrderHolds
  <1>4. c.asked = ks /\ c.packets = EncodeMissing(ms) BY DEF Compound
  <1> HIDE DEF order, n, c
  <1>5. DOMAIN ms = 1 .. n /\ \A i \in 1 .. n : ms[i] = NumberOf(order[i]) BY <1>3
  <1>6. ms = [i \in 1 .. n |-> ms[i]] BY <1>3
  <1> HIDE DEF ms
  <1>7. ASSUME NEW k \in ks
        PROVE  /\ NumberOf(k) \in 0 .. SeqRange - 1 /\ NumberOf(k) \in Nat
               /\ Low(NumberOf(k)) = Low(SentSeq(k))
               /\ wcase.profile # "simple" => NumberOf(k) = SentSeq(k)
    BY <1>2, NumberIs, Ranges
  <1>8. \A i \in 1 .. n : order[i] \in ks BY <1>3
  <1>9. \A i \in 1 .. n : ms[i] \in Nat /\ ms[i] \in 0 .. SeqRange - 1 BY <1>5, <1>7, <1>8
  <1>10. ms \in Seq(Nat) /\ Len(ms) = n BY <1>3, <1>6, <1>9
  <1>11. SameLow({SentSeq(k) : k \in ks}, ms)
    <2>1. {Low(ms[i]) : i \in 1 .. n} = {Low(SentSeq(order[i])) : i \in 1 .. n} BY <1>5, <1>7, <1>8
    <2>2. {Low(SentSeq(order[i])) : i \in 1 .. n} = {Low(SentSeq(k)) : k \in ks} BY <1>3
    <2>3. {Low(v) : v \in {SentSeq(k) : k \in ks}} = {Low(SentSeq(k)) : k \in ks} OBVIOUS
    <2> QED BY <1>10, <2>1, <2>2, <2>3 DEF SameLow
  <1>12. wcase.profile # "simple" => {SentSeq(k) : k \in ks} = {ms[i] : i \in 1 .. Len(ms)}
    <2> SUFFICES ASSUME wcase.profile # "simple"
                 PROVE  {SentSeq(k) : k \in ks} = {ms[i] : i \in 1 .. n}
      BY <1>10
    <2>1. {ms[i] : i \in 1 .. n} = {SentSeq(order[i]) : i \in 1 .. n} BY <1>5, <1>7, <1>8
    <2>2. {SentSeq(order[i]) : i \in 1 .. n} = {SentSeq(k) : k \in ks} BY <1>3
    <2> QED BY <2>1, <2>2
  <1>13. MadeFrom(ms, c) BY <1>4, <1>9, <1>10, <1>11, <1>12 DEF MadeFrom
  <1> QED BY <1>1, <1>4, <1>10, <1>13 DEF AskedOK, c

\* parse_compound and the widening find exactly what was asked for.
LEMMA ParsedExact ==
  ASSUME NackInv, NEW c, AskedOK(c), Young(c)
  PROVE  Parsed(c) = {SentSeq(k) : k \in c.asked}
  <1> DEFINE K == {SentSeq(k) : k \in c.asked}
             q == c.packets
  <1>1. PICK ms \in Seq(Nat) : MadeFrom(ms, c) BY DEF AskedOK
  <1>2. /\ q = EncodeMissing(ms) /\ \A i \in 1 .. Len(ms) : ms[i] \in 0 .. SeqRange - 1
        /\ SameLow(K, ms) /\ (wcase.profile # "simple" => K = {ms[i] : i \in 1 .. Len(ms)})
    BY <1>1 DEF MadeFrom
  <1>3. Parsed(c) = UNION {Understands(q[i]) : i \in DOMAIN q} BY DEF Parsed
  <1>4. CASE Advd
    <2>1. q = EncodeWhole(ms) /\ wcase.profile # "simple" BY <1>2, <1>4 DEF EncodeMissing, Advd
    <2> HIDE DEF q, K
    <2>2. UNION {Understands(q[i]) : i \in DOMAIN q} = {ms[i] : i \in 1 .. Len(ms)}
      BY <1>2, <1>4, <2>1, WholeFound
    <2> QED BY <1>2, <1>3, <2>1, <2>2 DEF K
  <1>5. CASE ~Advd
    <2>1. q = EncodeNack(ms) BY <1>2, <1>5 DEF EncodeMissing, Advd
    <2>2. \A p : Understands(p) = FoldNack(p) BY <1>5 DEF Understands, Advd
    <2>3. \A v \in K : v \in Int /\ WidenAtMost(Low(v), HighestSent) = v
      <3> SUFFICES ASSUME NEW k \in c.asked
                   PROVE  SentSeq(k) \in Int /\ WidenAtMost(Low(SentSeq(k)), HighestSent) = SentSeq(k)
        OBVIOUS
      <3>1. k \in 0 .. stream.sent - 1 /\ stream.sent \in Nat /\ k > stream.sent - 1 - WireMod
        BY DEF AskedOK, Young, NackInv
      <3>2. k \in Int /\ k <= stream.sent - 1 BY <3>1
      <3>3. WireTyped BY DEF NackInv, WInv
      <3> QED BY <3>1, <3>2, <3>3, YoungFound
    <2> HIDE DEF q, K
    <2>4. Finds(q, K) BY <1>2, <1>5, <2>1, <2>3, EncodedFound
    <2>5. UNION {FoldNack(q[i]) : i \in DOMAIN q} = K
      <3>1. DOMAIN q = 1 .. Len(q) BY <2>4 DEF Finds
      <3> QED BY <2>4, <3>1 DEF Finds
    <2> QED BY <1>3, <2>2, <2>5 DEF K
  <1> QED BY <1>4, <1>5

\* While the numbering stays, what was asked for does.
LEMMA EncodeStays ==
  ASSUME wcase' = wcase, NEW ms PROVE EncodeMissing(ms)' = EncodeMissing(ms)
  <1>1. Records(ms)' = Records(ms) BY DEF Records
  <1> QED BY DEF EncodeMissing, EncodeWhole, EncodeNack, NackPackets, Records

LEMMA AskedStays ==
  ASSUME NackInv, wcase' = wcase, stream'.start = stream.start,
         stream'.sent \in Nat, stream'.sent >= stream.sent, NEW c, AskedOK(c)
  PROVE  AskedOK(c)'
  <1>1. \A k : SentSeq(k)' = SentSeq(k) BY DEF SentSeq
  <1>2. PICK ms \in Seq(Nat) : MadeFrom(ms, c) BY DEF AskedOK
  <1>3. EncodeMissing(ms)' = EncodeMissing(ms) BY EncodeStays
  <1>4. {SentSeq(k)' : k \in c.asked} = {SentSeq(k) : k \in c.asked} BY <1>1
  <1>5. MadeFrom(ms, c)' BY <1>2, <1>3, <1>4 DEF MadeFrom, SameLow
  <1>6. c.asked \subseteq 0 .. stream'.sent - 1
    <2>1. stream.sent \in Nat BY DEF NackInv
    <2>2. 0 .. stream.sent - 1 \subseteq 0 .. stream'.sent - 1 BY <2>1
    <2> QED BY <2>2 DEF AskedOK
  <1> QED BY <1>5, <1>6 DEF AskedOK

LEMMA NackStart == WireInit => NackInv
  <1> SUFFICES ASSUME NEW c \in WireCases, WireStart(c) PROVE NackInv BY DEF WireInit
  <1>1. WInv BY WInit DEF WireInit
  <1>2. c.joined \in Nat BY WireAssumption DEF WireCase
  <1>3. stream.sent = c.joined /\ under = {} /\ known = {} /\ asking = {} /\ ~resent
        /\ ~decoder.started /\ heard = NothingHeard
    BY DEF WireStart
  <1> HIDE DEF WireStart
  <1>4. Sure BY <1>3 DEF Sure
  <1>5. NackExact BY <1>3 DEF NackExact, NothingHeard
  <1> QED BY <1>1, <1>2, <1>3, <1>4, <1>5 DEF NackInv

\* A step that decodes no NACK and makes none.
LEMMA NackQuiet ==
  ASSUME NackInv, WInv', Sure', Quiet, wcase' = wcase, stream'.start = stream.start,
         stream'.sent \in Nat, stream'.sent >= stream.sent,
         \A m \in under' : m.k \in 0 .. stream'.sent - 1,
         \A p \in known' : p.k \in 0 .. stream'.sent - 1,
         asking' \subseteq asking
  PROVE  NackInv'
  <1>1. \A c \in asking' : AskedOK(c)' BY AskedStays DEF NackInv
  <1>2. NackExact' BY DEF Quiet, NackExact, NothingHeard
  <1> QED BY <1>1, <1>2 DEF NackInv

LEMMA SureStays ==
  ASSUME Sure, UNCHANGED <<wcase, decoder, latest, known, resent>>,
         stream'.start = stream.start,
         known = {} /\ wcase.profile = "main" => asking' = {} /\ \A m \in under' : ~m.retransmit
  PROVE  Sure'
  <1>1. SentSeq(latest)' = SentSeq(latest) BY DEF SentSeq
  <1> QED BY <1>1 DEF Sure

LEMMA NackSend == ASSUME NackInv, WireSend, WInv' PROVE NackInv'
  <1>1. /\ under' = under \cup {[k |-> stream.sent, retransmit |-> FALSE]}
        /\ stream' = [stream EXCEPT !.sent = @ + 1]
        /\ Quiet /\ UNCHANGED <<wcase, decoder, latest, known, asking, resent>>
    BY DEF WireSend
  <1>2. DOMAIN stream = {"start", "ts", "sent"} /\ stream.sent \in Nat
    BY DEF NackInv, WInv, WireTyped
  <1>3. stream'.start = stream.start /\ stream'.sent = stream.sent + 1 BY <1>1, <1>2
  <1>4. Sure'
    <2>1. Sure BY DEF NackInv
    <2>2. known = {} /\ wcase.profile = "main" => asking' = {} /\ \A m \in under' : ~m.retransmit
      BY <1>1, <2>1 DEF Sure
    <2> QED BY <1>1, <1>3, <2>1, <2>2, SureStays
  <1>5. 0 .. stream.sent - 1 \subseteq 0 .. stream'.sent - 1 /\ stream.sent \in 0 .. stream'.sent - 1
    BY <1>2, <1>3
  <1>6. \A m \in under' : m.k \in 0 .. stream'.sent - 1
    <2>1. \A m \in under : m.k \in 0 .. stream.sent - 1 BY DEF NackInv
    <2> QED BY <1>1, <1>5, <2>1
  <1>7. \A p \in known' : p.k \in 0 .. stream'.sent - 1
    <2>1. \A p \in known : p.k \in 0 .. stream.sent - 1 BY DEF NackInv
    <2> QED BY <1>1, <1>5, <2>1
  <1>8. stream'.sent \in Nat /\ stream'.sent >= stream.sent BY <1>2, <1>3
  <1> QED BY <1>1, <1>3, <1>4, <1>6, <1>7, <1>8, NackQuiet

LEMMA HighLow ==
  ASSUME NEW s \in Nat, High(s) = 0 PROVE s = Low(s)
  <1>1. WireMod \in Nat \ {0} BY Ranges
  <1>2. s = WireMod * (s \div WireMod) + (s % WireMod) /\ s % WireMod \in Int BY <1>1, DivSplit
  <1>3. WireMod * (s \div WireMod) = 0 BY <1>1 DEF High
  <1> QED BY <1>2, <1>3 DEF Low

LEMMA SentMoves ==
  ASSUME WireTyped, NEW k \in Int
  PROVE  (SentSeq(latest) + (k - latest)) % SeqRange = SentSeq(k)
  <1> DEFINE a == stream.start + latest
             e == k - latest
  <1>1. a \in Int /\ e \in Int /\ a + e = stream.start + k BY DEF WireTyped
  <1>2. SentSeq(latest) = a % SeqRange BY DEF SentSeq
  <1>3. SentSeq(k) = (a + e) % SeqRange BY <1>1 DEF SentSeq
  <1> HIDE DEF a, e
  <1>4. ((a % SeqRange) + e) % SeqRange = (a + e) % SeqRange BY <1>1, Ranges, ModAdd, ZenonT(30)
  <1> QED BY <1>2, <1>3, <1>4 DEF e

LEMMA NackDeliver == ASSUME NackInv, WireDeliver, SeesTheStart, WInv' PROVE NackInv'
  <1>1. PICK m \in under :
          /\ InReach(m.k) /\ under' = under \ {m} /\ decoder' = Decoded(m.k) /\ latest' = m.k
          /\ known' = IF (known = {} /\ m.retransmit) \/ (known # {} /\ m.k < First.k)
                      THEN known
                      ELSE Held(known \cup {[k |-> m.k, seq |-> decoder'.ref_seq,
                                             time |-> SourceTime(decoder'.ref_ticks)]})
          /\ Quiet /\ UNCHANGED <<wcase, stream, asking, resent>>
    BY DEF WireDeliver
  <1> DEFINE k == m.k
             new == [k |-> k, seq |-> decoder'.ref_seq, time |-> SourceTime(decoder'.ref_ticks)]
  <1>2. stream.sent \in Nat /\ k \in 0 .. stream.sent - 1 /\ k \in Int /\ WireTyped /\ Sure
    BY DEF NackInv, WInv
  <1>3. new.k = k OBVIOUS
  <1>4. (known = {} /\ ~m.retransmit) \/ known # {} => known' # {}
    <2>1. SUFFICES ASSUME known' = Held(known \cup {new}) PROVE known' # {} BY <1>1
    <2>2. \A p \in known \cup {new} : p.k \in 0 .. stream.sent BY <1>2, <1>3 DEF NackInv
    <2> HIDE DEF new
    <2> QED BY <1>2, <2>1, <2>2, HeldNotEmpty
  <1>5. \A p \in known' : p.k \in 0 .. stream'.sent - 1
    <2>1. known' \subseteq known \cup {new} BY <1>1 DEF Held
    <2>2. \A p \in known \cup {new} : p.k \in 0 .. stream.sent - 1 BY <1>2, <1>3 DEF NackInv
    <2> HIDE DEF new
    <2> QED BY <1>1, <2>1, <2>2
  <1> HIDE DEF new, k
  <1>6. \A j : SentSeq(j)' = SentSeq(j) BY <1>1 DEF SentSeq
  <1>7. decoder' = Decoded(k) /\ latest' = k BY <1>1 DEF k
  <1>8. Sure'
    <2> SUFFICES ASSUME wcase'.profile = "main" PROVE Sure' BY DEF Sure
    <2>1. wcase.profile = "main" /\ ~Advd BY <1>1 DEF Advd
    <2>2. /\ ~resent /\ (decoder.started => decoder.ref_seq = SentSeq(latest))
          /\ known = {} => ~decoder.started /\ ~m.retransmit
      BY <1>2, <2>1 DEF Sure
    <2>3. known' # {} BY <1>4, <2>2
    <2>4. decoder'.started /\ Low(decoder'.ref_seq) = Low(SentSeq(k)) /\ Low(decoder'.ref_seq) \in Int
      <3>1. AnchoredAt(Decoded(k), k) /\ Decoded(k).ref_seq \in 0 .. SeqRange - 1
        BY <1>2, DecodedAnchors DEF k
      <3>2. Low(Decoded(k).ref_seq) \in Int BY <3>1, Ranges DEF Low
      <3> QED BY <1>7, <2>1, <3>1, <3>2 DEF AnchoredAt
    <2>5. decoder'.ref_seq = SentSeq(k)
      <3>1. CASE ~decoder.started
        <4>1. High(SentSeq(k)) = 0 BY <1>6, <1>7, <2>1, <2>4, <3>1 DEF SeesTheStart
        <4>2. decoder'.ref_seq = Low(SentSeq(k))
          BY <1>7, <2>1, <3>1 DEF Decoded, Advd, Widened, RtpHeader
        <4>3. SentSeq(k) \in Nat
          <5>1. k \in Int /\ WInv BY <1>2 DEF NackInv, k
          <5> QED BY <5>1, SentTyped, Ranges
        <4>4. SentSeq(k) = Low(SentSeq(k)) BY <4>1, <4>3, Ranges, HighLow
        <4> QED BY <4>2, <4>4
      <3>2. CASE decoder.started
        <4>1. known # {} BY <2>2, <3>2
        <4>2. AnchoredAt(decoder, latest) BY <4>1 DEF NackInv, WInv, Anchored
        <4>3. k - latest \in 1 - WireMod \div 2 .. WireMod \div 2 - 1 BY <1>1, <4>1 DEF InReach, k
        <4>4. k \in Int BY <1>2 DEF k
        <4>5. Decoded(k).ref_seq = (decoder.ref_seq + (k - latest)) % SeqRange
          BY <1>2, <4>2, <4>3, <4>4, DecodedMoves
        <4>6. (SentSeq(latest) + (k - latest)) % SeqRange = SentSeq(k)
          BY <1>2, <4>4, SentMoves
        <4> QED BY <1>7, <2>2, <3>2, <4>5, <4>6
      <3> QED BY <3>1, <3>2
    <2> QED BY <1>1, <1>6, <1>7, <2>2, <2>3, <2>5 DEF Sure
  <1>9. \A n \in under' : n.k \in 0 .. stream'.sent - 1 BY <1>1 DEF NackInv
  <1>10. stream'.start = stream.start /\ stream'.sent \in Nat /\ stream'.sent >= stream.sent
    BY <1>1, <1>2
  <1> QED BY <1>1, <1>5, <1>8, <1>9, <1>10, NackQuiet

LEMMA NackLoses == ASSUME NackInv, WireLose, WInv' PROVE NackInv'
  <1>1. under' \subseteq under /\ Quiet /\ UNCHANGED <<wcase, stream, decoder, latest, known, asking, resent>>
    BY DEF WireLose
  <1>2. Sure /\ stream.sent \in Nat BY DEF NackInv
  <1>3. Sure' BY <1>1, <1>2, SureStays DEF Sure
  <1>4. /\ \A m \in under' : m.k \in 0 .. stream'.sent - 1
        /\ \A p \in known' : p.k \in 0 .. stream'.sent - 1
    BY <1>1 DEF NackInv
  <1> QED BY <1>1, <1>2, <1>3, <1>4, NackQuiet

LEMMA NackForgets == ASSUME NackInv, NackLost, WInv' PROVE NackInv'
  <1>1. asking' = {} /\ Quiet /\ UNCHANGED <<wcase, stream, under, decoder, latest, known, resent>>
    BY DEF NackLost
  <1>2. Sure /\ stream.sent \in Nat BY DEF NackInv
  <1>3. Sure' BY <1>1, <1>2, SureStays DEF Sure
  <1>4. /\ \A m \in under' : m.k \in 0 .. stream'.sent - 1
        /\ \A p \in known' : p.k \in 0 .. stream'.sent - 1
    BY <1>1 DEF NackInv
  <1> QED BY <1>1, <1>2, <1>3, <1>4, NackQuiet

LEMMA NackIdle == ASSUME NackInv, UNCHANGED wireVars, WInv' PROVE NackInv'
  <1>1. UNCHANGED <<wcase, stream, under, decoder, latest, known, asking, heard, resent>>
    BY DEF wireVars
  <1>2. Sure /\ stream.sent \in Nat /\ NackExact BY DEF NackInv
  <1>3. Sure' BY <1>1, <1>2, SureStays DEF Sure
  <1>4. \A c \in asking' : AskedOK(c)' BY <1>1, <1>2, AskedStays DEF NackInv
  <1>5. NackExact' BY <1>1, <1>2 DEF NackExact
  <1> QED BY <1>1, <1>2, <1>3, <1>4, <1>5 DEF NackInv

\* The receiver asks.
LEMMA NackAsks == ASSUME NackInv, NackHoles, WInv' PROVE NackInv'
  <1>1. PICK ks \in SUBSET HoleIndices : known # {} /\ asking' = {Compound(ks)}
    BY DEF NackHoles
  <1>2. Quiet /\ UNCHANGED <<wcase, stream, under, decoder, latest, known, resent>>
    BY DEF NackHoles
  <1>3. Sure /\ stream.sent \in Nat BY DEF NackInv
  <1>4. Sure' BY <1>1, <1>2, <1>3, SureStays
  <1>5. AskedOK(Compound(ks)) BY <1>1, CompoundMade
  <1>6. \A c \in asking' : AskedOK(c)' BY <1>1, <1>2, <1>3, <1>5, AskedStays
  <1>7. NackExact' BY <1>2 DEF Quiet, NackExact, NothingHeard
  <1> QED BY <1>2, <1>3, <1>4, <1>6, <1>7 DEF NackInv

\* The sender hears it.
LEMMA NackHeard == ASSUME NackInv, WireNack, WInv' PROVE NackInv'
  <1>1. PICK c \in asking :
          /\ Young(c)
          /\ heard' = [asked |-> {SentSeq(k) : k \in c.asked}, decoded |-> Parsed(c)]
          /\ under' = under \cup {Again(k) :
                                    k \in {j \in 0 .. stream.sent - 1 :
                                             SentSeq(j) \in Parsed(c) /\ j > stream.sent - 1 - WireMod}}
          /\ asking' = {} /\ UNCHANGED <<wcase, stream, decoder, latest, known, resent>>
    BY DEF WireNack
  <1>2. Sure /\ stream.sent \in Nat BY DEF NackInv
  <1>3. AskedOK(c) BY DEF NackInv
  <1>4. Parsed(c) = {SentSeq(k) : k \in c.asked} BY <1>1, <1>3, ParsedExact
  <1>5. NackExact' BY <1>1, <1>4 DEF NackExact
  <1>6. Sure' BY <1>1, <1>2, SureStays DEF Sure
  <1>7. \A m \in under' : m.k \in 0 .. stream'.sent - 1
    <2>1. PICK ks \in SUBSET (0 .. stream.sent - 1) : under' = under \cup {Again(k) : k \in ks}
      BY <1>1
    <2> QED BY <1>1, <2>1 DEF NackInv, Again
  <1> QED BY <1>1, <1>2, <1>5, <1>6, <1>7 DEF NackInv

LEMMA NackRestart == ASSUME NackInv, SenderRestarts, SeesTheStart, WInv' PROVE NackInv'
  <1>1. /\ resent' = TRUE /\ stream'.sent = 0 /\ under' = {} /\ known' = {} /\ asking' = {}
        /\ Quiet /\ wcase' = wcase
    BY DEF SenderRestarts
  <1>2. wcase'.profile # "main" BY <1>1 DEF SeesTheStart
  <1>3. Sure' BY <1>2 DEF Sure
  <1>4. NackExact' BY <1>1 DEF Quiet, NackExact, NothingHeard
  <1> QED BY <1>1, <1>3, <1>4 DEF NackInv

LEMMA NackStep ==
  ASSUME NackInv, [WireNext]_wireVars, [SeesTheStart]_wireVars PROVE NackInv'
  <1>1. WInv' BY WStep DEF NackInv
  <1>2. CASE UNCHANGED wireVars BY <1>1, <1>2, NackIdle
  <1>3. CASE WireNext /\ SeesTheStart
    <2>1. CASE WireSend BY <1>1, <2>1, NackSend
    <2>2. CASE WireDeliver BY <1>1, <1>3, <2>2, NackDeliver
    <2>3. CASE WireLose BY <1>1, <2>3, NackLoses
    <2>4. CASE NackHoles BY <1>1, <2>4, NackAsks
    <2>5. CASE WireNack BY <1>1, <2>5, NackHeard
    <2>6. CASE NackLost BY <1>1, <2>6, NackForgets
    <2>7. CASE SenderRestarts BY <1>1, <1>3, <2>7, NackRestart
    <2> QED BY <1>3, <2>1, <2>2, <2>3, <2>4, <2>5, <2>6, <2>7 DEF WireNext
  <1> QED BY <1>2, <1>3

\* The sender understands every NACK as the receiver meant it: for all widths,
\* whatever is missing, in ranges or bitmasks, split over packets and qualified by
\* EXTSEQ or sent as whole numbers, wherever the sequence wraps, whatever is lost,
\* repeated and re-ordered (encode_nack, encode_range_nack, fold_nack,
\* widen_seq_at_most).  Only the Main profile needs its premise.
THEOREM NacksExact == WireSpec /\ [][SeesTheStart]_wireVars => []NackExact
  <1>1. NackInv /\ [WireNext]_wireVars /\ [SeesTheStart]_wireVars => NackInv' BY NackStep
  <1>2. NackInv => NackExact BY DEF NackInv
  <1> QED BY <1>1, <1>2, NackStart, PTL DEF WireSpec
=============================================================================
