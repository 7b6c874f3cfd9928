------------------------------ MODULE MCSender ------------------------------
(* Instances of FlowSender for TLC: what the peer may request. *)
EXTENDS FlowSender

\* NACKs of one lost packet and of two, one with a sequence named twice.
Nacks == {<<7>>, <<1>>, <<7, 0>>, <<1, 1>>}

\* A round trip, and a response whose processing delay exceeds the time it took.
Samples == {3, -1}

\* A relay that re-sends upstream packets out of order, with or without their time.
RelayBlocks == {[seq |-> 7, source_time |-> 3], [seq |-> 1, source_time |-> Absent]}
=============================================================================
