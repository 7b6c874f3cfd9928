------------------------------- MODULE MCBonded -------------------------------
EXTENDS Bonded
P(w, p) == [weight |-> w, priority |-> p]
BondedSender == [sender |-> TRUE, simple |-> FALSE, eap |-> FALSE, paths |-> <<P(0, 0), P(1, 0), P(2, 0)>>,
                 adds |-> {}, removes |-> {}, weights |-> {}, gone |-> TRUE]
BondedGrown  == [BondedSender EXCEPT !.paths = <<P(0, 0), P(1, 0)>>, !.eap = TRUE,
                 !.adds = {2}, !.removes = {2}, !.weights = {0, 1}, !.gone = FALSE]
BondedSink   == [BondedSender EXCEPT !.sender = FALSE, !.paths = <<P(0, 0), P(0, 1)>>, !.eap = TRUE]
SimpleSender == [BondedSender EXCEPT !.simple = TRUE, !.paths = <<P(0, 0), P(2, 0)>>, !.weights = {1}]
SimpleSink   == [BondedSink EXCEPT !.simple = TRUE, !.eap = FALSE]
AllBonds     == {BondedSender, BondedGrown, BondedSink, SimpleSender, SimpleSink}
Shrinking    == {[BondedSender EXCEPT !.paths = <<P(0, 0), P(0, 0)>>, !.removes = {0}]}
===============================================================================
