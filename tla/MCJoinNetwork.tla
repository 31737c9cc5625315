---------------------------- MODULE MCJoinNetwork ----------------------------
EXTENDS JoinNetwork

CONSTANTS g1, g2, a1, a2

MCaddress == [g \in LLAddr |-> IF g = g1 THEN a1 ELSE a2]
MCinstance == [g \in LLAddr |-> IF g = g1 THEN 1 ELSE 2]
MCFrames == UNION {{Dio(g), DaoAck(g), Datagram(g), Solicitation(g)} : g \in LLAddr}
=============================================================================
