-------------------------- MODULE MCServerSessions --------------------------
EXTENDS ServerSessions, TLC

CONSTANTS c1, c2, c3, k1, k2, n1, n2

ConnSymmetry == Permutations(Conns)

OneKey   == [c \in Conns |-> k1]
TwoKeys  == [c \in Conns |-> IF c = c2 THEN k2 ELSE k1]

Tcp(n)        == [number |-> n, kind |-> "tcp"]
Allow(ps, ts) == [ports |-> ps, terms |-> ts]
Everyone(g)   == [k \in Keys |-> g]

Fixed(n, p)   == [name |-> n, kind |-> "tcp", number |-> p, fixed |-> TRUE]
Pooled(n, k)  == [name |-> n, kind |-> k, number |-> SpanFirst, fixed |-> FALSE]
FixedOnly     == {Fixed(n1, 1)}
FixedOrPooled == {Fixed(n1, 1), Pooled(n2, "tcp")}

\* One grant for good.
Granted      == Everyone(Allow({Tcp(1)}, "old"))
OnlyGranted  == {Granted}
\* Reloads take the ports away, change the terms or drop the key.
Reloaded     == {Granted, Everyone(Allow({}, "old")),
                 Everyone(Allow({Tcp(1)}, "new")), Everyone(NoGrant)}
=============================================================================
