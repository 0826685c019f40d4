------------------------------ MODULE AllowList ------------------------------
(***************************************************************************)
(* Which visitor addresses a bound service admits (allow.rs): the client's *)
(* list narrowed by the server's ceiling for that client.  An address is a *)
(* number of Width bits in one of two families; an IPv4 address may also   *)
(* be written in its IPv6-mapped form.  A network has the first `prefix'   *)
(* bits of its address in common.                                          *)
(***************************************************************************)
EXTENDS Integers

CONSTANT Width          \* bits of an address

ASSUME WidthAssumption == Width \in Nat

Values == 0..(2^Width - 1)
Ip     == [family : {"v4", "v6", "mapped"}, value : Values]
Net    == [family : {"v4", "v6"}, value : Values, prefix : 0..Width]

\* to_canonical: what a dual-stack socket reports as ::ffff:a.b.c.d is a.b.c.d.
Canonical(ip) == IF ip.family = "mapped" THEN [ip EXCEPT !.family = "v4"] ELSE ip

HighBits(value, prefix) == value \div 2^(Width - prefix)
Trunc(net) == [net EXCEPT !.value = HighBits(net.value, net.prefix) * 2^(Width - net.prefix)]

\* IpNet::contains, of an address and of a network.
ContainsIp(net, ip) == /\ net.family = ip.family
                       /\ HighBits(net.value, net.prefix) = HighBits(ip.value, net.prefix)
ContainsNet(a, b)   == a.prefix <= b.prefix /\ ContainsIp(a, b)

\* effective's Option, as the set of what it holds.
NoList == {}

Narrower(client, ceiling) ==
    {b \in ceiling : \E a \in client : ContainsNet(a, b)}
        \cup {a \in client : \E b \in ceiling : ContainsNet(b, a)}

\* The vectors as sets: the code sorts and dedups the overlaps.
Effective(clientNets, ceilingNets) ==
    LET client  == {Trunc(n) : n \in clientNets}
        ceiling == {Trunc(n) : n \in ceilingNets}
    IN  IF client = {} THEN {ceiling}
        ELSE IF ceiling = {} THEN {client}
        ELSE IF Narrower(client, ceiling) = {} THEN NoList
        ELSE {Narrower(client, ceiling)}

Permits(list, ip) == list = {} \/ \E net \in list : ContainsIp(net, Canonical(ip))

-----------------------------------------------------------------------------
\* The list admits exactly the addresses both sides admit, and there is none exactly
\* when they share no address: two lists that exclude each other never come out as
\* the empty list, which admits everyone.
NarrowsBoth(client, ceiling) ==
    LET Both(ip) == Permits(client, ip) /\ Permits(ceiling, ip)
    IN  /\ Effective(client, ceiling) = NoList => \A ip \in Ip : ~Both(ip)
        /\ \A list \in Effective(client, ceiling) :
               \A ip \in Ip : Permits(list, ip) <=> Both(ip)
=============================================================================
