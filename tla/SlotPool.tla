------------------------------ MODULE SlotPool ------------------------------
(***************************************************************************)
(* What the hall promises about its slots for speaking and for cameras: a  *)
(* pool of places.  One who is present or not may take a place while there *)
(* is room, any set of members may lose theirs at any time, and a place    *)
(* does not stay with somebody who has left.  HallMedia implements it with *)
(* leases in Redis, HTTP requests, webhooks and a periodic job.            *)
(***************************************************************************)
EXTENDS FiniteSets, Naturals

CONSTANTS Members,   \* a finite set
          Capacity   \* a natural number

VARIABLES
    held,    \* the members with a place
    present  \* the members in the room

poolVars == <<held, present>>

PoolInit ==
    /\ held \subseteq Members
    /\ Cardinality(held) <= Capacity
    /\ present \subseteq Members

\* Some members lose their places.
Free(left) ==
    /\ held' = held \ left
    /\ UNCHANGED present

\* A member takes a place, once those that lapsed are counted out.
Take(p, lapsed) ==
    /\ p \notin held \ lapsed
    /\ Cardinality(held \ lapsed) < Capacity
    /\ held' = (held \ lapsed) \cup {p}
    /\ UNCHANGED present

\* Members come and go; those who go may take their places with them.
Move ==
    /\ present' \in SUBSET Members
    /\ UNCHANGED held

PoolNext ==
    \/ \E left \in SUBSET Members : Free(left)
    \/ \E p \in Members, lapsed \in SUBSET Members : Take(p, lapsed)
    \/ Move

\* A place is not kept for somebody who has left for good.
PlaceReturns ==
    \A p \in Members :
        []<>(p \notin held \ present)

PoolSafe == PoolInit /\ [][PoolNext]_poolVars

Pool == PoolSafe /\ PlaceReturns

=============================================================================
