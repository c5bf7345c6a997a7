-------------------------- MODULE MCMessagePipeline --------------------------
(* MessagePipeline with a small set of clients, messages and conversations. *)
EXTENDS MessagePipeline, TLC

CONSTANTS v1, v2, a1, a2, r1, s1, s2, m1, m2

Conv(v, o, s) == [visitor |-> v, owner |-> o, status |-> s, unread |-> 0]

\* one visitor, whose conversation a1 serves; or two.
OneVisitor == [i \in Convs |-> IF i = 1 THEN Conv(v1, a1, "open")
                                       ELSE Conv(v1, NoOne, "none")]
TwoVisitors == [i \in Convs |-> IF i = 1 THEN Conv(v1, a1, "open") ELSE
                               IF i = 2 THEN Conv(v2, NoOne, "open")
                                        ELSE Conv(v1, NoOne, "none")]

AgentWrites   == [m \in Msgs |-> a1]
VisitorTalks  == [m \in Msgs |-> v1]
=============================================================================
