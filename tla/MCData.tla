-------------------------------- MODULE MCData --------------------------------
(***************************************************************************)
(* One run for what is done to packets outside the receiving flow: the     *)
(* sender flow, the FEC stage, the cutting and putting together of         *)
(* payloads, the numbers and times of the Simple and Main wire, those of   *)
(* the Advanced one, and the frames with their keys.  They do not meet     *)
(* here: focus names the part at work, and the others rest in a state they *)
(* start from.                                                             *)
(***************************************************************************)
EXTENDS MCSender, Fec, MCDelivery, MCWire, MCAdvanced, MCFrames

VARIABLE focus

RestDel  == DelStartState([carriage |-> "split", merge |-> "pairs", empties |-> FALSE])
RestWire == WireStart(WCase("main", FALSE, 5, 0, -1))
RestAdv  == AdvStart(ACase(FALSE, {1}, TRUE))
RestFrames == FrameStart(FCase(FALSE, FALSE, FALSE, {"media", "oob"}, 0, 128, FALSE, FALSE))

DataInit ==
  /\ \/ focus = "sender"
     \/ focus = "fec"
     \/ focus = "delivery"
     \/ focus = "wire"
     \/ focus = "advanced"
     \/ focus = "frames"
  /\ Init /\ FecInit
  /\ IF focus = "delivery" THEN DelInit  ELSE RestDel
  /\ IF focus = "wire"     THEN WireInit ELSE RestWire
  /\ IF focus = "advanced" THEN AdvInit  ELSE RestAdv
  /\ IF focus = "frames"   THEN FrameInit ELSE RestFrames

DataNext ==
  /\ UNCHANGED focus
  /\ \/ focus = "sender"   /\ Next
     \/ focus = "fec"      /\ FecNext
     \/ focus = "delivery" /\ DelNext
     \/ focus = "wire"     /\ WireNext
     \/ focus = "advanced" /\ AdvNext
     \/ focus = "frames"   /\ FrameNext
  /\ IF focus = "sender"   THEN TRUE ELSE UNCHANGED vars
  /\ IF focus = "fec"      THEN TRUE ELSE UNCHANGED fecVars
  /\ IF focus = "delivery" THEN TRUE ELSE UNCHANGED delVars
  /\ IF focus = "wire"     THEN TRUE ELSE UNCHANGED wireVars
  /\ IF focus = "advanced" THEN TRUE ELSE UNCHANGED advVars
  /\ IF focus = "frames"   THEN TRUE ELSE UNCHANGED frameVars

DataSpec ==
  DataInit
  /\ [][DataNext]_<<focus, vars, fecVars, delVars, wireVars, advVars, frameVars>>
=============================================================================
