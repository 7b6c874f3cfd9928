------------------------------ MODULE MCDelivery ------------------------------
EXTENDS Delivery
AllDeliveries == {c \in DelCase : ~c.empties /\ (c.carriage # "split" => c.merge = "pairs")}
EmptyToo == {c \in DelCase : c.empties /\ c.carriage = "split"}
=============================================================================
