-------------------------------- MODULE MCHost --------------------------------
(***************************************************************************)
(* One run for what goes on around the flows: the pump of a session, a     *)
(* bonded session, the demultiplexer of a multi-flow receiver, and the     *)
(* control of the encoder's rate.  They do not meet here: focus names the  *)
(* part at work, and the others rest in a state they start from.           *)
(***************************************************************************)
EXTENDS MCPump, MCBonded, MCMulti, Adapt

VARIABLE focus

RestPump == PumpStart(S("receiver", "simple", FALSE))
RestBond == BondStart(BondedSender)

HostInit ==
  \/ focus = "pump"   /\ PumpInit /\ RestBond /\ MultiInit /\ AdaptInit
  \/ focus = "bonded" /\ RestPump /\ BondInit /\ MultiInit /\ AdaptInit
  \/ focus = "multi"  /\ RestPump /\ RestBond /\ MultiInit /\ AdaptInit
  \/ focus = "adapt"  /\ RestPump /\ RestBond /\ MultiInit /\ AdaptInit

HostNext ==
  /\ UNCHANGED focus
  /\ \/ focus = "pump"   /\ PumpNext  /\ UNCHANGED <<bondVars, multiVars, adaptVars>>
     \/ focus = "bonded" /\ BondNext  /\ UNCHANGED <<pumpVars, multiVars, adaptVars>>
     \/ focus = "multi"  /\ MultiNext /\ UNCHANGED <<pumpVars, bondVars, adaptVars>>
     \/ focus = "adapt"  /\ AdaptNext /\ UNCHANGED <<pumpVars, bondVars, multiVars>>

\* PumpFairness, BondFairness, MultiFairness and AdaptFairness, of the part at work.
HostSpec ==
  /\ HostInit /\ [][HostNext]_<<focus, pumpVars, bondVars, multiVars, adaptVars>>
  /\ WF_pumpVars(focus = "pump" /\ Driver)
  /\ WF_pumpVars(focus = "pump" /\ Reader)
  /\ WF_pumpVars(focus = "pump" /\ Elapse)
  /\ WF_bondVars(focus = "bonded" /\ OnTick)
  /\ WF_multiVars(focus = "multi" /\ Demux)
  /\ \A s \in 1 .. MaxSessions :
       /\ WF_multiVars(focus = "multi" /\ s \in Sids /\ (Pumps(s) \/ Delivers(s)))
       /\ WF_multiVars(focus = "multi" /\ s \in Sids /\ demux.at = "aborted" /\ SessionEnds(s))
  /\ WF_adaptVars(focus = "adapt" /\ SourceArrives)
  /\ WF_adaptVars(focus = "adapt" /\ Report)
  /\ WF_adaptVars(focus = "adapt" /\ Observe(1))
=============================================================================
