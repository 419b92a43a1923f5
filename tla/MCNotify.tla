------------------------------ MODULE MCNotify ------------------------------
EXTENDS Notify

CONSTANTS u1, u2, n1

MCNoticeUser == [n \in Notices |-> u1]
=============================================================================
