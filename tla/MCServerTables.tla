--------------------------- MODULE MCServerTables ---------------------------
(* Two parts of the server that share nothing, checked in one run: a behaviour *)
(* is one of the session table or one of the admission of connections.         *)
EXTENDS SessionTable, Admission, TLC

CONSTANTS va, vb, vc, t1, t2, t3, q1, q2, q3, a1, a2

VARIABLE part

\* The TCP connections share one address, the QUIC connections another.
ByTransport == [x \in Conns |-> IF x \in Tcp THEN a1 ELSE a2]

ConnSymmetry == Permutations(Tcp) \cup Permutations(Quic)

MCInit == part \in {"table", "admission"} /\ TableInit /\ Init
MCNext ==
    \/ part = "table" /\ TableNext /\ UNCHANGED <<part, vars>>
    \/ part = "admission" /\ Next /\ UNCHANGED <<part, tableVars>>
MCSpec == MCInit /\ [][MCNext]_<<part, tableVars, vars>>
=============================================================================
