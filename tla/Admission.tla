----------------------------- MODULE Admission -----------------------------
(***************************************************************************)
(* How the server lets connections in before it knows whose they are:      *)
(* the accept loop (server/mod.rs), the limiter of failed authentications  *)
(* per address (server/limiter.rs), and the part of a session in which its *)
(* connection is still a stranger's (server/session.rs).                   *)
(*                                                                         *)
(* The limiter is behind a mutex, so each call is one step.  A TCP         *)
(* connection is let in with a token of its address set aside, and holds   *)
(* one of the handshake slots; a QUIC connection is only checked.  Tokens  *)
(* are counted in units, `Window' to a token, so that the refill of a tick *)
(* is a whole number of them.                                              *)
(***************************************************************************)
EXTENDS Integers, FiniteSets

CONSTANTS Tcp, Quic,    \* connections, by the transport they come over
          Addrs,        \* an IPv4 address or an IPv6 /64: what `key' tells apart
          AddrOf,
          NoBucket,
          PerMinute,    \* limits.auth_failures_per_minute
          Window,       \* WINDOW, in ticks
          Handshakes,   \* TCP_HANDSHAKES
          MaxTracked,   \* MAX_TRACKED
          SweepEvery,   \* SWEEP_EVERY, in ticks
          MaxNow        \* bound on the clock

Conns    == Tcp \cup Quic
Capacity == PerMinute * Window
Never    == -1

ASSUME AdmissionAssumption ==
    /\ Tcp \cap Quic = {}
    /\ AddrOf \in [Conns -> Addrs]
    /\ NoBucket \notin [tokens : Nat, at : Nat]
    /\ PerMinute \in Nat \ {0} /\ Window \in Nat \ {0}
    /\ Handshakes \in Nat /\ MaxTracked \in Nat /\ SweepEvery \in Nat /\ MaxNow \in Nat

VARIABLES now,
          bucket,       \* address -> bucket, or none: as good as a full one
          pending,      \* address -> attempts let through by `begin', not over
          lastSweep,
          at,           \* where each connection is
          failures,     \* history: failures charged to each address
          lastFailure   \* history: when the last was

vars == <<now, bucket, pending, lastSweep, at, failures, lastFailure>>
limiter == <<bucket, pending, lastSweep, failures, lastFailure>>

Bucket == [tokens : 0..Capacity, at : 0..MaxNow]

\* "failing": its failure is charged, and what it held not yet let go.
Location == {"absent", "unproven", "failing", "proven", "closed"}
Held(c)  == c \in Tcp /\ at[c] \in {"unproven", "failing"}

TypeOK == /\ now \in 0..MaxNow
          /\ bucket \in [Addrs -> Bucket \cup {NoBucket}]
          /\ pending \in [Addrs -> 0..Cardinality(Tcp)]
          /\ lastSweep \in {Never} \cup 0..MaxNow
          /\ at \in [Conns -> Location]
          /\ failures \in [Addrs -> 0..Cardinality(Conns)]
          /\ lastFailure \in [Addrs -> {Never} \cup 0..MaxNow]

Init == /\ now = 0 /\ lastSweep = Never
        /\ bucket = [a \in Addrs |-> NoBucket]
        /\ pending = [a \in Addrs |-> 0]
        /\ at = [c \in Conns |-> "absent"]
        /\ failures = [a \in Addrs |-> 0]
        /\ lastFailure = [a \in Addrs |-> Never]

-----------------------------------------------------------------------------
(***************************************************************************)
(* The limiter.                                                            *)
(***************************************************************************)
Least(a, b) == IF a <= b THEN a ELSE b
Refill(b) == [tokens |-> Least(b.tokens + PerMinute * (now - b.at), Capacity),
              at     |-> now]
Tokens(a) == IF bucket[a] = NoBucket THEN Capacity ELSE Refill(bucket[a]).tokens

\* A token left over the attempts under way; the look refills the bucket.
Permits(a) == Tokens(a) - Window * pending[a] >= Window
Look(a)    == bucket' = [bucket EXCEPT ![a] = IF @ = NoBucket THEN @ ELSE Refill(@)]

Begin(a) == /\ Permits(a) /\ Look(a)
            /\ pending' = [pending EXCEPT ![a] = @ + 1]

End(a) == pending' = [pending EXCEPT ![a] = IF @ = 0 THEN 0 ELSE @ - 1]

Tracked(b) == {a \in Addrs : b[a] # NoBucket}

\* Mutant: a sweep takes the buckets that are still refilling as well.
Swept_Emptied == [a \in Addrs |-> NoBucket]
\* sweep: a bucket that is full again is dropped, the others are refilled.
Swept == [a \in Addrs |-> IF bucket[a] = NoBucket \/ Tokens(a) = Capacity
                            THEN NoBucket ELSE Refill(bucket[a])]

Crowded(b, a) == b[a] = NoBucket /\ Cardinality(Tracked(b)) >= MaxTracked

SweepDue == lastSweep = Never \/ now - lastSweep >= SweepEvery

Spent(t) == IF t < Window THEN 0 ELSE t - Window
Charged(b, a) ==
    [b EXCEPT ![a] = IF @ = NoBucket THEN [tokens |-> Capacity - Window, at |-> now]
                     ELSE [tokens |-> Spent(Refill(@).tokens), at |-> now]]

\* failed: one token less, in a new bucket if the table has room for it.
Failed(a) ==
    LET sweeps == Crowded(bucket, a) /\ SweepDue
        b      == IF sweeps THEN Swept ELSE bucket
    IN  /\ lastSweep' = IF sweeps THEN now ELSE lastSweep
        /\ \/ /\ Crowded(b, a)
              /\ bucket' = b
              /\ UNCHANGED <<failures, lastFailure>>
           \/ /\ ~Crowded(b, a)
              /\ bucket' = Charged(b, a)
              /\ failures' = [failures EXCEPT ![a] = @ + 1]
              /\ lastFailure' = [lastFailure EXCEPT ![a] = now]

-----------------------------------------------------------------------------
(***************************************************************************)
(* Connections, from the accept until the policy names their key.          *)
(***************************************************************************)
Goto(c, l) == at' = [at EXCEPT ![c] = l]
SlotFree   == Cardinality({c \in Tcp : Held(c)}) < Handshakes

\* A permit is taken, and then the socket: it waits in the backlog until there is one.
AcceptTcp(c) ==
    /\ c \in Tcp /\ at[c] = "absent" /\ SlotFree
    /\ \/ Begin(AddrOf[c]) /\ Goto(c, "unproven")
       \/ /\ ~Permits(AddrOf[c]) /\ Look(AddrOf[c])
          /\ Goto(c, "closed")
          /\ UNCHANGED pending
    /\ UNCHANGED <<now, lastSweep, failures, lastFailure>>

AcceptQuic(c) ==
    /\ c \in Quic /\ at[c] = "absent"
    /\ Look(AddrOf[c])
    /\ Goto(c, IF Permits(AddrOf[c]) THEN "unproven" ELSE "closed")
    /\ UNCHANGED <<now, pending, lastSweep, failures, lastFailure>>

\* A TCP handshake that fails, a QUIC one from a validated address, no key, a
\* stranger's missing or bad Hello, or a key the policy does not know.
Fail(c) ==
    /\ at[c] = "unproven"
    /\ Failed(AddrOf[c])
    /\ Goto(c, "failing")
    /\ UNCHANGED <<now, pending>>

\* A known key whose link drops before its Hello, a QUIC handshake from an address
\* that may be forged, or the shutdown.
Excuse(c) ==
    /\ at[c] = "unproven"
    /\ Goto(c, "failing")
    /\ UNCHANGED <<now, limiter>>

\* Unproven is dropped, with its slot: by a stranger at the very end.
LetGo(c) ==
    /\ at[c] = "failing"
    /\ Goto(c, "closed")
    /\ IF c \in Tcp THEN End(AddrOf[c]) ELSE UNCHANGED pending
    /\ UNCHANGED <<now, bucket, lastSweep, failures, lastFailure>>

\* Mutant: a session keeps what its connection held.
Prove_Kept(c) ==
    /\ at[c] = "unproven"
    /\ Goto(c, "proven")
    /\ UNCHANGED <<now, limiter>>
\* The policy names the key: the session goes on without them.
Prove(c) ==
    /\ at[c] = "unproven"
    /\ Goto(c, "proven")
    /\ IF c \in Tcp THEN End(AddrOf[c]) ELSE UNCHANGED pending
    /\ UNCHANGED <<now, bucket, lastSweep, failures, lastFailure>>

Tick ==
    /\ now < MaxNow
    /\ now' = now + 1
    /\ UNCHANGED <<at, limiter>>

\* Every connection is in or gone, and the clock at its bound.
Over == /\ now = MaxNow
        /\ \A c \in Conns : at[c] \in {"proven", "closed"}
        /\ UNCHANGED vars

Next == \/ \E c \in Conns : \/ AcceptTcp(c) \/ AcceptQuic(c)
                            \/ Fail(c) \/ Excuse(c) \/ LetGo(c) \/ Prove(c)
        \/ Tick
        \/ Over

Spec == Init /\ [][Next]_vars

-----------------------------------------------------------------------------
(***************************************************************************)
(* Properties.                                                             *)
(***************************************************************************)
TcpOnly(a) == \A c \in Quic : AddrOf[c] # a

\* Attempts of an address that may still fail.
AtRisk(a) == {c \in Tcp : AddrOf[c] = a /\ at[c] = "unproven"}

\* Every TCP attempt under way has a token of its own to lose: a failure charged up
\* to a handshake timeout later never finds the bucket short.  QUIC attempts set
\* nothing aside, so the promise is to addresses that make none.  What is set aside
\* is for exactly the connections that hold something: none is leaked on any way out,
\* and none given back twice.
HoldsCovered ==
    \A a \in Addrs :
        /\ TcpOnly(a) => Window * Cardinality(AtRisk(a)) <= Tokens(a)
        /\ pending[a] = Cardinality({c \in Tcp : Held(c) /\ AddrOf[c] = a})

\* However its attempts overlap, an address that comes over TCP is charged at most the
\* limit, and what refills in the meantime, sweeps and dropped buckets included; and an
\* address that is refused is let in again once one token's time has passed since its
\* last failure, however many failed at once, if nothing of it is under way.
LimitExact ==
    \A a \in Addrs :
        /\ TcpOnly(a) => Window * failures[a] <= Capacity + PerMinute * now
        /\ /\ pending[a] = 0 /\ lastFailure[a] # Never
           /\ PerMinute * (now - lastFailure[a]) >= Window
           => Permits(a)
=============================================================================
