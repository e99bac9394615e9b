------------------------- MODULE MC_HostAutomation -------------------------
EXTENDS HostAutomation
TwoResets == [reset |-> 2, frame |-> 1]
FailsOnce == [vm |-> 1, fault |-> 1]
=============================================================================
