--------------------------- MODULE VisitorRouting ---------------------------
(***************************************************************************)
(* What the session table of a UDP service promises, without its indexes,  *)
(* its clock and its counter: an id routes to one visitor, a visitor has   *)
(* one id, and an id that routes to a visitor is given to nobody else      *)
(* before that visitor's session is dropped.                               *)
(***************************************************************************)
CONSTANTS Visitors, Ids, None

VARIABLE route          \* id -> the visitor it routes to

Unrouted(r) == {i \in Ids : r[i] = None}
Routed(r, v) == \E i \in Ids : r[i] = v
Drop(r, S)  == [i \in Ids |-> IF i \in S THEN None ELSE r[i]]

RoutingInit == route = [i \in Ids |-> None]

\* A new visitor gets an id that is free, once at most one session has made room.
Open(v) ==
    /\ ~Routed(route, v)
    /\ \E old \in {{}} \cup {{i} : i \in Ids} : \E i \in Unrouted(Drop(route, old)) :
           route' = [Drop(route, old) EXCEPT ![i] = v]

\* Sessions may be dropped at any moment.
Expire == \E S \in SUBSET Ids : route' = Drop(route, S)

RoutingNext == Expire \/ \E v \in Visitors : Open(v)
RoutingSpec == RoutingInit /\ [][RoutingNext]_route
=============================================================================
