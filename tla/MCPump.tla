------------------------------- MODULE MCPump -------------------------------
EXTENDS Pump
S(r, p, c) == [role |-> r, profile |-> p, caller |-> c]
PumpSessions == {S("receiver", "simple", FALSE), S("sender", "simple", FALSE),
                 S("sender", "main", TRUE), S("receiver", "main", TRUE)}
MainListener == {S("receiver", "main", FALSE)}
=============================================================================
