--------------------------- MODULE ReliableStream ---------------------------
(***************************************************************************)
(* What a flow promises when every loss is recoverable: the payloads that  *)
(* were pushed come out in the order they were pushed, every one of them,  *)
(* once.                                                                   *)
(***************************************************************************)
EXTENDS Integers

VARIABLES pushed, received

Init == pushed = 0 /\ received = 0

Push == pushed' = pushed + 1 /\ UNCHANGED received

Receive == received < pushed /\ received' = received + 1 /\ UNCHANGED pushed

Next == Push \/ Receive

Spec == Init /\ [][Next]_<<pushed, received>>
=============================================================================
