------------------------------ MODULE MCAdvanced ------------------------------
(* Instances of Advanced for TLC. *)
EXTENDS Advanced

ACase(m, gaps, r) == [start_main |-> m, gaps |-> gaps, resends |-> r]

\* A steady stream at two rates; an upgrade of the framing without loss.
SteadyStreams == {ACase(FALSE, {1}, TRUE), ACase(FALSE, {2}, TRUE), ACase(TRUE, {1}, FALSE)}

\* A stream that pauses.
PausingStream == {ACase(FALSE, {1, 3}, TRUE)}

\* A packet is asked for again while the framing changes.
UpgradeLoss == {ACase(TRUE, {1}, TRUE)}
=============================================================================
