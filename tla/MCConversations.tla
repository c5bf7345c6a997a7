--------------------------- MODULE MCConversations ---------------------------
EXTENDS Conversations, TLC

CONSTANTS v1, a1, a2, a3, r1, r2

\* Two visitors' worth of history would only multiply the states: one visitor
\* with an open conversation that a1 serves, and room for the next ones.
ServedVisitor ==
    [i \in Convs |-> IF i = 1
       THEN [visitor |-> v1, owner |-> a1, status |-> "open", unread |-> 0]
       ELSE [visitor |-> v1, owner |-> NoOne, status |-> "none", unread |-> 0]]

NewVisitor ==
    [i \in Convs |-> [visitor |-> v1, owner |-> NoOne, status |-> "none", unread |-> 0]]
=============================================================================
