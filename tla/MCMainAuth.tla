----------------------------- MODULE MCMainAuth -----------------------------
(* Scenarios of MainAuth for TLC. *)
EXTENDS MainAuth

Plain == [psk |-> TRUE, caller |-> "sender", accept |-> TRUE, pw |-> "good", ver |-> 3,
          id |-> IdMod - 2, losses |-> 0, copies |-> 0, moves |-> 0]

Lossy  == {[Plain EXCEPT !.losses = 2, !.caller = c, !.ver = v] : c \in Ends, v \in {2, 3}}
Moving == {[Plain EXCEPT !.losses = 1, !.moves = 1, !.caller = c, !.psk = p] : c \in Ends, p \in BOOLEAN}
Copied == {[Plain EXCEPT !.copies = 1, !.psk = p] : p \in BOOLEAN} \cup {[Plain EXCEPT !.copies = 1, !.moves = 1]}
Denied == {[Plain EXCEPT !.copies = 1, !.pw = "bad"], [Plain EXCEPT !.copies = 1, !.accept = FALSE]}

AuthScenarios == Lossy \cup Moving \cup Copied \cup Denied

SingleLoss == {[Plain EXCEPT !.psk = FALSE, !.losses = 1]}
OneCopy    == {[Plain EXCEPT !.copies = 1]}
OneMove    == {[Plain EXCEPT !.psk = FALSE, !.moves = 1, !.caller = "receiver"]}
=============================================================================
