----------------------------- MODULE MCReceiver -----------------------------
(* Instances of FlowReceiver for TLC: the packets a network may hand over. *)
EXTENDS FlowReceiver

\* A first transmission of sequence s stamped at instant t, and its copies.
Media(s, t) == [seq |-> s, source_time |-> FromTimestamp(t), ssrc |-> 2,
                retransmit |-> FALSE, short_seq |-> TRUE]
Again(p) == [p EXCEPT !.retransmit = TRUE]
Native(p) == [p EXCEPT !.short_seq = FALSE]
OtherFlow(p) == [p EXCEPT !.ssrc = 4]

\* A constant-rate stream whose sequence wraps: SeqSize - 2, SeqSize - 1, 0, 1.
Wrapping(n) == {Media((SeqSize - 2 + i) % SeqSize, 3 + i) : i \in 0 .. n - 1}

\* Four packets of a stream and their retransmissions.
ArqPackets == Wrapping(4) \cup {Again(p) : p \in Wrapping(4)}

\* Bursts with gaps wider than the four-slot ring they are used with: 2 and 6
\* share a slot with 14, 7 lies a ring span and a half from 14.
LapPackets == {Media(14, 3), Media(0, 4), Media(2, 5), Media(3, 5), Media(5, 6)}

\* Such a stream in which the sender switches its framing, and then restarts
\* under another SSRC.
RestartPackets == {Media(14, 3), Media(0, 4), Media(3, 5), Native(Media(4, 1)),
                   OtherFlow(Media(5, 9)), OtherFlow(Media(10, 11)),
                   Again(OtherFlow(Media(6, 10)))}

\* Pairs of packets that share a source time, as fragments of one payload do.
PairPackets == {Media(14, 3), Media(15, 4), Media(0, 4), Media(1, 5)}

\* A stream with more losses than the missing queue takes, whose source clock
\* wraps (at 20) before its last packet, for a buffer that scales.
EdgePackets == {Media(0, 16), Media(3, 18), Media(5, 19), Media(4, 1)}

\* A burst of losses behind the first packet, and one more behind the third.
BurstPackets == {Media(14, 3), Media(2, 7), Media(3, 8), Media(5, 9)}
                  \cup {Again(Media(s, 5)) : s \in {15, 0}}

\* With a four-slot ring 6 takes the slot of 2, for which the timer is set,
\* although 3 is due earlier: no run uses this set, PlayoutOnTime fails for it.
OvertakenPackets == {Media(0, 0), Media(2, 5), Media(3, 2), Media(6, 10)}
=============================================================================
