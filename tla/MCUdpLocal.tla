----------------------------- MODULE MCUdpLocal -----------------------------
(* Two parts of UDP that are joined only by whom a payload is for, checked in  *)
(* one run: a behaviour is one of the client's sessions, or of the two paths   *)
(* that payloads take.                                                         *)
EXTENDS UdpLocal, UdpPath

CONSTANTS i1, i2, Parts

MCOffered == [server |-> 2, client |-> 1]

\* `part': the client's sessions, either with two packets and everything else that can
\* happen, or with three, enough for a session to be evicted and opened again, over
\* datagrams alone; or the paths.
VARIABLE part

ASSUME PartsAssumption == Parts \subseteq {"full", "evict", "path"}

MCInit == /\ part \in Parts /\ Init
          /\ PathInit /\ (part # "path" => mtu = 0)
MCNext ==
    /\ UNCHANGED part
    /\ \/ /\ part # "path" /\ Next /\ UNCHANGED pathVars
          /\ part = "full" => packets' <= 2
          /\ part = "evict" => at'["bulk"] = "unopened" /\ now' = 0
       \/ part = "path" /\ PathNext /\ UNCHANGED vars
       \/ part = "path" /\ ~up /\ UNCHANGED <<pathVars, vars>>
MCSpec == MCInit /\ [][MCNext]_<<vars, pathVars, part>> /\ Fairness /\ PathFairness
=============================================================================
