---------------------------- MODULE MCInboundPath ----------------------------
EXTENDS InboundPath
ShortSecondSession == \A s \in Sender : sess[s] > 1 => emitted[s] <= 1
=============================================================================
