------------------------------- MODULE MCMulti -------------------------------
EXTENDS Multi
TwoKeys == {"a", "b"}
==============================================================================
