-------------------------------- MODULE Replay --------------------------------
(***************************************************************************)
(* The anti-replay window of one epoch (dtls/replay.rs).  bitmap is the    *)
(* set of the accepted sequence numbers the window still covers, and right *)
(* is -1 while nothing was accepted (seen is FALSE).                       *)
(***************************************************************************)
EXTENDS Integers

CONSTANT ReplaySize   \* REPLAY_WINDOW_SIZE

ASSUME ReplayAssumption == ReplaySize \in Nat \ {0}

NewWindow == [right |-> -1, bitmap |-> {}]

\* Slip: the edge of the window is one sequence too far.
CheckPastEdge(w, seq) == \/ seq > w.right
                         \/ w.right - seq <= ReplaySize /\ seq \notin w.bitmap
\* Beyond the window, or inside it and not seen.
Check(w, seq) == \/ seq > w.right
                 \/ w.right - seq < ReplaySize /\ seq \notin w.bitmap

\* The bits that shift out of the bitmap are forgotten.
Mark(w, seq) ==
  LET right == IF seq > w.right THEN seq ELSE w.right
  IN [right |-> right,
      bitmap |-> {s \in w.bitmap \cup {seq} : right - s < ReplaySize}]
=============================================================================
