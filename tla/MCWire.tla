-------------------------------- MODULE MCWire --------------------------------
(* Instances of Wire for TLC. *)
EXTENDS Wire

WCase(p, b, s, j, r) == [profile |-> p, bitmask |-> b, start |-> s, ts |-> TickMod - 3,
                         joined |-> j, restart |-> r]

\* Simple: a receiver that joins behind a wrap of the sequence and near the wrap
\* of its whole range, and a sender that restarts far from where it was.
SimpleWires == {WCase("simple", FALSE, 6, 9, -1), WCase("simple", TRUE, 6, 0, 1)}
\* Main: both ends have seen the stream from its start.
MainWires == {WCase("main", b, 5, 0, -1) : b \in BOOLEAN}
\* Advanced: a stream that comes to the wrap of the whole sequence.
AdvancedWires == {WCase("advanced", b, 5, 7, -1) : b \in BOOLEAN}
AllWires == SimpleWires \cup MainWires \cup AdvancedWires

\* Main: a receiver that joins when the sender's sequence has wrapped once.
LateMain == {WCase("main", FALSE, 6, 4, -1)}
=============================================================================
