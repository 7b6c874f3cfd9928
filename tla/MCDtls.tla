------------------------------- MODULE MCDtls --------------------------------
EXTENDS Dtls

Case(kx, common, required, hasCert, client, server) ==
  [kx |-> kx, common |-> common, required |-> required, hasCert |-> hasCert, lastSafe |-> TRUE,
   app |-> [client |-> client, server |-> server]]

\* The last flight is safe; each key exchange, ends that cannot agree, and a
\* client certificate that is shown or missing.  In the first case a host sends
\* more datagrams than the replay window is wide, in the third both send one.
Tunnels == {Case("psk", TRUE, FALSE, FALSE, 0, MaxApp), Case("psk", FALSE, FALSE, FALSE, 0, 0),
            Case("ecdhe", TRUE, TRUE, TRUE, 1, 1), Case("rsa", TRUE, TRUE, FALSE, 0, 0)}
\* The server's last flight may be lost.
OneLoss == {[Case("psk", TRUE, FALSE, FALSE, 0, 0) EXCEPT !.lastSafe = FALSE]}
=============================================================================
