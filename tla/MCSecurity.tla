------------------------------ MODULE MCSecurity ------------------------------
(***************************************************************************)
(* One run for the ways a session is secured: EAP-SRP in the Main profile, *)
(* and the DTLS tunnel.  They do not meet: focus names the part at work,   *)
(* and the other rests in a state it starts from.                          *)
(***************************************************************************)
EXTENDS MCMainAuth, MCDtls

VARIABLE focus

RestAuth == AuthStart([Plain EXCEPT !.copies = 1])
RestDtls == DtlsStart(Case("psk", TRUE, FALSE, FALSE, 0, 0))

SecInit == \/ focus = "auth" /\ AuthInit /\ RestDtls
           \/ focus = "dtls" /\ RestAuth /\ DtlsInit

SecNext == /\ UNCHANGED focus
           /\ \/ focus = "auth" /\ AuthNext /\ UNCHANGED dtlsVars
              \/ focus = "dtls" /\ DtlsNext /\ UNCHANGED authVars

\* AuthFairness and DtlsFairness, of the part at work.
SecSpec ==
  /\ SecInit /\ [][SecNext]_<<focus, authVars, dtlsVars>>
  /\ WF_authVars(focus = "auth" /\ AuthProgress)
  /\ \A p \in Sides : /\ WF_dtlsVars(focus = "dtls" /\ NextMessage(p))
                      /\ WF_dtlsVars(focus = "dtls" /\ ReceiveDatagram(p))
                      /\ WF_dtlsVars(focus = "dtls" /\ FlightTimeout(p))
                      /\ WF_dtlsVars(focus = "dtls" /\ WorkerStops(p))
=============================================================================
