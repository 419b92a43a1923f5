------------------------------- MODULE MCSms -------------------------------
EXTENDS SmsControl

CONSTANT n1

MCReach == [c \in Campaigns |-> Nodes]
=============================================================================
