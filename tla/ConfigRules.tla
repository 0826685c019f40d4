----------------------------- MODULE ConfigRules -----------------------------
(***************************************************************************)
(* What ServerConfig::validate and ClientConfig::validate accept           *)
(* (config.rs), and what a reload may change.  A config is a pair: `live'  *)
(* is what a running process takes up from a reload (the server's          *)
(* [clients.*] with the `bind' their ports default to, the client's        *)
(* [expose.*]), `fixed' is the rest.                                       *)
(*                                                                         *)
(* A name, a host:port and an allow list stand for themselves by whether   *)
(* they are well formed: `named', `local' and `mapped'.                    *)
(***************************************************************************)
EXTENDS Naturals

CONSTANTS MinBuffer, MaxBuffer,     \* 1 KiB and 1 GiB
          WindowEnd                 \* 4 GiB, past what a QUIC stream window can be

ASSUME RulesAssumption == {MinBuffer, MaxBuffer, WindowEnd} \subseteq Nat

\* PortSpan::contains_number, and the overlap of a grant with the pool.
Covers(span, n)  == span.first <= n /\ n <= span.last
Overlaps(a, b)   == a.first <= b.last /\ b.first <= a.last

\* validate_transport
ValidTransport(t) ==
    /\ MinBuffer <= t.buffer /\ t.buffer <= MaxBuffer
    /\ t.idle >= 1
    /\ t.stream # 0 /\ t.stream < WindowEnd
    /\ t.connection # 0 /\ t.stream <= t.connection

\* A client's grants name neither the listen port nor a port of the pool, which any
\* client could take first.
GrantsClear(client, listen, pool) ==
    \A r \in client.ports : ~Covers(r, listen) /\ ~Overlaps(r, pool)

\* ServerConfig::validate; `clients' is a function of the name.
ValidServer(cfg) ==
    LET clients == cfg.live
        fixed   == cfg.fixed
    IN  /\ fixed.listen # 0 /\ ~Covers(fixed.pool, fixed.listen)
        /\ \A n \in DOMAIN clients : GrantsClear(clients[n], fixed.listen, fixed.pool)
        /\ ValidTransport(fixed.transport)
        /\ fixed.streams >= 2 /\ fixed.udpSessions # 0
        /\ \A n \in DOMAIN clients : clients[n].named /\ ~clients[n].mapped
        /\ \A n, m \in DOMAIN clients : clients[n].key = clients[m].key => n = m

\* ClientConfig::validate
ValidClient(cfg) ==
    LET expose == cfg.live
        fixed  == cfg.fixed
    IN  /\ fixed.server /\ fixed.named
        /\ ValidTransport(fixed.transport)
        /\ \A n \in DOMAIN expose : expose[n].named /\ expose[n].local /\ ~expose[n].mapped

\* needs_restart and needs_reconnect: whether anything but the live half differs.
NeedsMore(old, new) == old.fixed # new.fixed
=============================================================================
