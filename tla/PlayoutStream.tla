--------------------------- MODULE PlayoutStream ----------------------------
(***************************************************************************)
(* What the receiver promises the application: within one flow, payloads   *)
(* come out at strictly increasing positions (so none twice and none out   *)
(* of order), and the discontinuity flag is set on exactly those           *)
(* deliveries that do not follow the previous position directly.  Position *)
(* 0 is the packet the flow anchored on.                                   *)
(***************************************************************************)
EXTENDS Integers

VARIABLE event    \* the last delivery of the current flow

NoDelivery == [pos |-> -1, discontinuity |-> FALSE]

Init == event = NoDelivery

Deliver ==
  /\ event'.pos \in Nat
  /\ event'.pos > event.pos
  /\ event' = [pos |-> event'.pos, discontinuity |-> event'.pos # event.pos + 1]

\* A fresh packet of another flow id arrived; positions start again.
NewFlow == event' = NoDelivery

Next == Deliver \/ NewFlow

Spec == Init /\ [][Next]_event
=============================================================================
