# hawse in TLA+

hawse is a reverse tunnel: a client behind a NAT keeps one QUIC or TCP
connection to a server, asks it to bind public ports, and forwards the visitors
of those ports to services on its own network. This directory holds TLA+ models
of the parts of it in which several tasks, two machines or a clock have to agree,
the TLC configurations that check them on small instances, and TLAPS proofs of
the results that matter most.

Paths below are relative to `crates/hawse-core/src/` unless they start with
`crates/`.

## The system

| component | state | operations | talks to |
|---|---|---|---|
| port allocator (`server/ports.rs`) | claimed ports, cursor of the pool | `reserve`, `claim`, `claim_dynamic`, `release`, `holds` | sessions and service tasks, behind a mutex |
| server sessions (`server/session.rs`, `server/policy.rs`) | grant, services, ids, claim on the key, `done`, cancellation | greet, stake, supersede, serve, bind, unbind, regrant, leave | client (control stream), allocator, policy watch, the newer session of the same key |
| service tasks (`server/listener.rs`, `server/udp/mod.rs`) | a public socket, a port, visitors | accept, stop, release the port | session (token), allocator, stream budget |
| UDP session table (`server/udp/table.rs`) | visitor ↔ id ↔ age | `inbound`, `outbound`, `sweep` | UDP service tasks, behind a mutex |
| admission (`server/mod.rs`, `server/limiter.rs`) | token buckets, holds, handshake slots | `permits`, `begin`, `end`, `failed`, `sweep` | accept loops, sessions that are not proven yet |
| client session (`client/mod.rs`) | `Services`, targets, what is yet to be sent | dial, greet, reexpose, hear, forget | server (control stream), reload of its configuration |
| client dialling (`client/mod.rs`, `client/race.rs`, `client/backoff.rs`) | attempt, transport race, delay | dial, race, back off, stop | server, signals |
| client UDP services (`client/udp.rs`) | registry, sessions map, sockets, reader tasks | `insert`, `remove`, `wait_for`, `deliver`, `session`, `read_replies`, `forget` | two delivering tasks, the local service |
| visitor streams (`client/visitor.rs`, `pump.rs`) | two directions, resets, meters | pump, half-close, abort | listener, local service |
| TCP transport (`transport/tcp.rs`, `transport/records.rs`) | record layer, yamux driver task | read, write, shutdown, open, accept | both ends |
| UDP sender (`udp.rs`) | bulk queue, the transport's datagrams | `dispatch`, `drain` | UDP services of both ends |
| traffic (`traffic.rs`, `crates/hawse/src/panel.rs`) | meters by service, activity flag | `meter`, `touch`, `moved`, `take_moved`, sample | pumps, status |
| status (`crates/hawse/src/status/`, `notify.rs`, `socket.rs`) | snapshot built from events, a socket on disk | apply, keep, answer, bind | events of client and server, other processes of the host |
| configuration (`config.rs`, `crates/hawse/src/commands/`) | the file, what was read last, what is in force | watch, look, load, reload | operator, sessions, client |
| upgrade and services (`crates/hawse/src/commands/upgrade.rs`, `service.rs`) | binaries, staging directory, units | replace, restart, install, uninstall | service manager, other runs, the user |

The behaviours that are hard here:

* **Concurrency.** Every session, listener, UDP service, reader and delivery is
  a tokio task on a multi-threaded runtime. They share the allocator, the map of
  sessions, the limiter, the policy watch, the session table and the client's UDP
  map, each behind a lock that is released before the next await. What was read
  under one lock is used under the next.
* **Supersession.** A client that comes back replaces its old session while that
  one is greeting, binding, draining or already gone.
* **Reloads** of either end at any moment, with answers on the wire that carry no
  request id.
* **Ordering at the end** of a session or a service: socket before port, services
  before `done`, `done` before the key.
* **Counters at their edge**: service ids of 16 bits that are never reused,
  session ids of 32 bits that wrap, the cap of a table, the tokens of a bucket.
* **Timeouts** that race with what they wait for: the supersede wait, the unbind
  wait, the drain, the idle time of a UDP session, the wait for `Bound`.
* **Failures in the middle** of a pump, a start, an upgrade or an install: a
  socket, a stream, the connection or the process may go between any two steps.
* **Readers behind writers**: status, panel and reloads follow events, atomics
  and files that move while they are read.

PROJECT.json lists these as hazards, each at its line, with the properties that
catch it.

## Modules

| module | models | checked by |
|---|---|---|
| `PortAllocator` | `server/ports.rs` | through `ServerSessions` |
| `ServerSessions` | `server/session.rs` with the service tasks, the policy and the shutdown | `supersede`, `contend`, `settle` |
| `SessionProofs` | theorems about `ServerSessions` and its `PortAllocator` | TLAPS |
| `ControlProofs` | theorems about `ControlProtocol` | TLAPS |
| `ServerTableProofs` | theorems about `SessionTable`, the refinement of `VisitorRouting` among them, and about `Admission` | TLAPS |
| `TunnelProofs` | theorems about `Tunnel` | TLAPS |
| `UdpProofs` | theorems about `UdpLocal` and `UdpPath` | TLAPS |
| `HostProofs` | theorems about `Upgrade`, `Startup`, `ServiceInstall`, `ClientStatus` and `ServerStatus` | TLAPS |
| `ProcessProofs` | theorems about `ConfigReload` and `ClientRun` | TLAPS |
| `QueueLemmas` | what the proofs about message queues share | TLAPS |
| `ControlProtocol` | the control stream between `client/mod.rs` and `server/session.rs` | `control` |
| `SessionTable` | `server/udp/table.rs` and its use in `server/udp/mod.rs` | `tables` |
| `VisitorRouting` | abstract specification of the session table | `tables` (as a property) |
| `Admission` | `server/mod.rs` accept loops, `server/limiter.rs`, the unproven part of a session | `tables` |
| `Tunnel` | `server/listener.rs`, `client/visitor.rs`, `pump.rs`, streams of `transport/` | `tunnel` |
| `AllowList` | `allow.rs` | `tunnel` (and an `ASSUME` of `MCTunnel`) |
| `RecordCodec` | `transport/records.rs`, `crates/hawse-proto/src/record.rs` | an `ASSUME` of `MCTunnel` |
| `UdpLocal` | `client/udp.rs` for one service | `udp`, `udp_reply` |
| `UdpPath` | `udp.rs` and the bulk tasks of both ends | `udp` |
| `ClientRun` | `client/mod.rs` from dial to stop, `client/race.rs`, `client/backoff.rs` | `process` |
| `ConfigRules` | `validate` of `config.rs` | through `ConfigReload` |
| `ConfigReload` | `crates/hawse/src/commands/mod.rs`, `client.rs`, `server.rs`: the file and what is in force | `process`, `listen_override` |
| `Figures` | `traffic.rs`, `crates/hawse/src/panel.rs` | `process` |
| `TcpDriver` | the driver task of `transport/tcp.rs` | `process` |
| `ServerStatus` | `crates/hawse/src/status/server.rs`, `notify.rs`, the server's events | `host` |
| `ClientStatus` | `crates/hawse/src/status/client.rs`, `commands/client.rs`, `notify.rs`, the rows of `panel.rs` | `host` |
| `Startup` | `identity.rs`, `crates/hawse/src/socket.rs` | `host`, `socket_race` |
| `Upgrade` | `crates/hawse/src/commands/upgrade.rs` | `host` |
| `ServiceInstall` | `crates/hawse/src/commands/service.rs` | `host` |
| `Places` | `crates/hawse/src/paths.rs`, the places of `socket.rs` and `service.rs` | `ASSUME`s of `MCHost` |

Four MC modules check several components in one run: `MCServerTables`,
`MCUdpLocal`, `MCProcess` and `MCHost`. Their components share no variable. A
variable `part` says which of them a behaviour is of; the others stay as they
began (or, where a liveness property is about one, begin at their end). So the
states of a run are the sum of its parts' states and not the product, and a
property of one component holds in the run if and only if it holds of that
component. `ServerSessions` and `Tunnel`, and `UdpLocal` and `UdpPath`, do meet in
the program: a session cancels its listeners, and a payload of `UdpPath` is one
that a session of `UdpLocal` has. There the one takes the other's part as a step
that may come at any time (`Disconnect`, `BulkEnds`, `EndBulk`).

A module `MCx` instantiates module `x` for TLC. Operators whose name has an
underscore (`GiveUpKey_Blind`) are mutants: the definition they precede, changed
as a plausible bug would change it. Each property is broken by one of them, which
shows that it does say something about the code.

### PortAllocator and ServerSessions

`inUse` and `cursor` are the fields of `PortAllocator`; `claim_dynamic` walks the
pool once around from the cursor and stops at the first free port. A port is a
number and a kind (tcp or udp), as `PublicPort` is.

`ServerSessions` has one task per connection. `at` says where it is in `run` and
`serve`; `conn` holds the rest of what the task owns: grant, services, pending
messages, the reply in hand, the `done` token and whether its own token was
cancelled. `held` are the ports a bind has claimed and not bound yet, `tasks` the
listener and UDP tasks with the state of their socket. A step goes from one
await, or one lock, to the next:

* `Connect` … `Stake`, `CancelPrevious`, `PreviousDone`/`SupersedeTimeout`,
  `Welcome`: `run` up to the loop. The subscription to the policy and the lookup
  of the grant are two steps, as they are in the code, so a reload may fall
  between them.
* `Stopped`, `Unresponsive`, `ControlEnds`, `Chatter`, `TakePending`, `Regrant`,
  `Bind`, `Unbind`: the arms of the loop. Their guards on `pending` are the
  conditions of the arms of the select.
* `ClaimFixed`/`ClaimFromPool`, `HostBinds`/`HostRefuses`, `OpenFails`: `open`,
  which takes the allocator's lock once per port and asks the host with the lock
  released. That the host may refuse any port is a choice.
* `SendReply`, `SendFails`, `ReplyOvertaken`: the select around the send.
* `End`, `Leave`, `SignalDone`, `GiveUpKey`, `CloseTransport`: the way out, in the
  code's order. `Unwind` is a panic in the loop: fields drop in declaration order.
* `CloseSocket`, `ReleasePort`: the end of a service task, socket first.
* `Reload`, `ShutDown`: the operator.

Abstractions. The name, address and allow list of a grant are one value, `terms`,
since a session only compares them. Deadlines are steps that may come at any time
during their wait; `overdue` remembers for which keys one came, because what a
late drain promises is less. A failed dynamic bind gives its refused ports back in
one step, where the code takes the lock once per port: nobody can tell, as each
of them may be claimed by another session only after it is given back. Events for
observers and log lines are left out.

### ControlProtocol

Both ends of one control stream. The client's variables are the fields of
`Services` with `pending` and the targets by id; the server's are the services it
has bound, the settings each id was bound with, and what a reload left to tell.
`[expose.*]` settings are opaque values, and the server's grant is the set of
settings it allows. An answer's `asked` is history: the code's own comment on
`answered` says that a `BindFailed` sent unasked may be miscounted, and
`TargetsCurrent` promises exactly what is left then. The server may refuse any
bind (a port that is taken), so the refused and retried paths are reached.

### ClientRun

The loop of `Client::run` around one session after another, for one or several
processes that have the same key. `run[p].at` is where the task is: about to
resolve (`starting`), `dialing`, in the greeting (`hello`, `greeting`,
`binding`), `up`, `hanging` up, at the end of a session (`over`), `waiting` or
`stopped`. A dial keeps the state of both transports and of the addresses left;
TCP starts when `FALLBACK_AFTER` has passed or QUIC has failed, the first to
connect wins, and an address fails when nothing is left trying. A failure is
`"failed"` or `"broken"`, the distinction that `classify` makes (`Config` or
not): a mismatch of versions, which `versioned` singles out, is a failure for now
like any other. A stop interrupts a dial, a session and a wait, and not the
greeting, which the code awaits without looking at the token.

Of the server only `holder` is modelled: the last Hello has the key, and the
session before it is told to end. Time is in ticks that do not pass while a step
is due; `lasted` counts from the Welcome to the end of the hang-up, as
`welcomed.elapsed()` does. `calm` is history: it turns false once a dial or a
session failed on its own, took longer than `DialTime` or `Drain`, or somebody
was stopped. `RunAssumption` relates the code's constants: `CAP` with two dials and
their greetings and two hang-ups stays below `HEALTHY` (30 s and 60 s, and `DRAIN`
is 2 s, so a dial may take 12 s). The comment at `client/backoff.rs:6` counts only
`CAP`; the assumption says how slow the rest may be. One dial is enough for two
rivals that are out of step, and was what the assumption said until the proof: of
two that dial at once, the first may be told to end in its greeting, finish it, hang
up, wait and dial again, while the second is up.

### SessionTable and VisitorRouting

The three indexes of the table (visitor → id, id → entry, set of (time, id)) are
variables, and `Touch`, `Remove`, `MakeRoom`, `Claimable` are the methods that
update them. Ids are counted modulo `IdSpace`, 2^32 in the code. `VisitorRouting`
says what the table is for, without indexes, clock and counter: an id routes to
one visitor and is given to nobody else before that session is dropped. The
refinement maps `route[i]` to the visitor of entry `i`.

### UdpLocal

One UDP service on the client: the registry's entry, the wait of the bulk stream
for `Bound`, the two tasks that deliver packets, and a reader per session. A
session is a handle, as the code's `Arc` is, so a reader or a delivery may hold
one that the map has lost. The first look in the map, the connecting of the
socket, the insert with its eviction, the spawn of the reader, the touch and the
send are separate steps. `Tick` does not pass while a task is between two awaits:
a tick is a large part of a minute.

### Admission

Tokens are counted in units, `Window` to a token, so that a tick refills a whole
number of units where the code uses `f64`. A TCP connection sets a token aside and
takes a handshake slot; a QUIC connection is only checked. `"failing"` is the time
between the charge and the drop of what the connection held. `per_minute = 0`,
which turns the limiter off, is left out: every operation then returns at once.
The warnings that a bucket or the table are full change nothing else.

### Tunnel, AllowList and RecordCodec

A visitor has a task at each end. The server's goes from the accept loop, which
asks the allow list and takes a permit of the session's stream budget, through
`open_bi` and the header to its pump; the client's reads the header, dials the
local service and pumps. `flow[v][d]` is one direction of a visitor's connection,
with a count for each place a byte passes: what the source `sent`, what the near
pump has `read`, what the stream has taken (`out`), what the far pump has `taken`
and `put` in its socket, and what the sink `got`. An end travels the same way:
`fin`, then the stream's `mark` (a finish or a reset) and whether it is `gone`
from the sender, then `shut` and what the sink `saw`. The two transports differ
where the code does: a QUIC reset overtakes data and a finish leaves at once; on
TCP both are records that have to leave, a drop has one poll to write them, and a
stream that ends without either reads as reset.

The applications, their sockets and the connection are environment, and fail
anywhere. A budget of one permit is contended by the visitor and the bulk stream
of a UDP service. `LossEndsTasks` has one exception, which is in the code: a pump
whose far end has finished reads from its own socket only, and notices a lost
connection when that socket next says something. A failure of the call that makes
a close a reset (`set_zero_linger`) is not modelled.

`AllowList` is `effective` and `permits` as functions; `MCTunnel` evaluates
`NarrowsBoth` for every pair of lists of up to two networks before the run.
`RecordCodec` is the writer and the reader of records, byte by byte: for every
sequence of up to three chunks, each end a writer can make of it and every prefix
of that, the reader has handed on exactly the bytes that came and reports the end,
the reset's code or an error. A byte has three values there, so a length can have a
carry. The `ASSUME`s are evaluated by TLC as part of the run.

### UdpPath

Payloads of one UDP session in both directions. `Dispatch` looks at the size of a
datagram and `SendDatagram` sends, with `MtuMoves` in between: what has become too
large goes to the bulk queue. quinn evicts the oldest queued datagrams to make
room. A frame is two pieces, its length and its body, in a window of one piece, so
a reader may be between the two and both ends may be writing into a full window.
What is dropped is not counted: no step reads the counts. (Read against the code,
`queue_full` may count where nothing is evicted, since the space is read before
the send and the MTU may shrink between them, and what is queued when the bulk
task ends is lost and not counted.)

### TcpDriver

The one task that owns the yamux connection, its channel of open requests and the
callers that wait for their answers. A poll of `poll_step` is one step, since the
task does not yield in it. yamux and the peer are external: the limit of
unacknowledged streams, and that it reads acknowledgements only when polled for
inbound streams, is what the comment on `poll_step` says of it.

### Figures

The counters of the pumps and the flag they share with the panel, one atomic
access to a step, in program order. The accesses are relaxed, and an addition may in
principle become visible after the look at the flag that follows it. That does not
freeze the figures: a panel that finds the flag raised draws again after `SAMPLE`,
a second later, and an addition would have to stay invisible for that long. So the
model does not reorder. The gauge of open connections is left out: it moves like the
other counters, but down as well.

### ConfigRules and ConfigReload

`ConfigRules` is what the two `validate` methods accept, with a name, an address or
an allow list reduced to whether it is well formed. `ConfigReload` is one process
and its file: the directory watch, the channel of one wakeup, the look after
`SETTLE`, SIGHUP, the stamp that is taken before the read, and the reload of a
client (live, or by a new client) and of a server (checked against what it started
with). A write may leave any config or a broken one, and a rename is a write.
`--listen` (`Listening`) replaces the listen port of whatever was loaded, after it
was validated, at the start and at each reload. Each write has its own stamp: one
that restores length and modification time to what they were is not seen by the code
either. A signal that comes before its handler is set up, which ends the process, is
left out.

### ServerStatus and ClientStatus

`ServerStatus` has the connections of a few keys, seen from one client name: the
policy, which gives a key to the name (`ours`), to another or to nobody and which
reloads replace; `live`, the map of claims, with the stake, the wait, the Welcome,
the end and the drop of a claim as steps of their own, claims that are dropped before
the Welcome and sessions that panic among them; and the two receivers of the events
(the status keeper and systemd's line), each of which loses the oldest event when it
lags. `Presence` is the answer to a status request: the keeper's record of the name,
for as long as the key that the policy gives it is live. So a session that outlives its
grant, until it takes up the reload, is no longer shown although it runs, and one that
has staked the key and is not welcomed yet is shown with the record of the one before;
`StatusNamesLatest` says when the record is the session's own. `overtaken` marks that
an earlier session spoke after the latest connected: events carry the name and no
session, so the keeper then records an earlier session's bind as the latest's. The
supersession wait makes that rare, and the next `Connected` repairs it; the property
promises nothing in between. The keeper's list of unknown keys, which no property
speaks of, is left out: a `Denied` takes its place in the queues and no more. A reply
reads the live sessions, the record and the policy one after the other, in the model
at once.

`ClientStatus` has the client that runs, the loop that replaces it at a reload,
the watches that tell the readers and the client, and the keeper and the printer
behind two channels. Settings are compared by value, as the code does, so a reload may
undo another or change nothing. `Dialed` is the read of the services before the
greeting; a reload after it reaches the session by `TakeExpose`, which asks again for
what differs and for what was refused. A `BindFailed` may come unasked, and any answer
again. `emit` drops an event that finds the channel full; `missed` remembers it until
the next word on the link, which repairs link and answers. (A dropped `Disconnected`
without a retry is the one that is not repaired: it is the client's last, and the exit
code 2 of `run` depends on it.) Leftover events of a replaced client are shown as the
new one's until that says something, an answer is recorded against the settings in
force when it is read, and `stopped`, once set, outlives the client; all three are in
the model as they are in the code. The second has a consequence that `misread`
remembers: an answer to the settings A that the printer takes in while the config has
B is recorded for B, and if the next reload restores A before the session has seen B,
nothing is asked again, and the service has no row until its next answer or session.

What is counted is counted by tasks, and a task may outlive its client: `hang_up` waits
for them no longer than `DRAIN`. `CountMoves` therefore goes on for every client there
was; `late` is what came after the client's sum was taken. `TotalsExact` says that this
is all that may be missing, and that nothing is there twice. In the code the sum also
takes in the gauge of open connections (`AddAssign` of `Counts`), which such a task
lowers too late; the gauge is not modelled.

### Startup and Places

Processes that start with one key file and one socket path, a step for each access
to the file system, killed anywhere. A bind is two steps, bind(2) and listen(2).
`overlapped` is history: two processes were in `bind_at` at once, which is the case
of `socket_race`. `Places` has the functions that choose paths. Three facts about
them are evaluated before the `host` run, over every environment, directory and
account: install prints the key that the unit will load (`InstallFindsKey`), what is
written where no config was found is found by the next start (`StartFindsConfig`),
and a caller of the status socket tries the place the process chose
(`CallerFindsSocket`).

### Upgrade and ServiceInstall

`Upgrade` has runs of the command at once or after one another, on one binary with
its kept copy. `create_dir` is the lock. A kill leaves the staging directory; the
user removes it or moves the kept binary back, as the messages say. `WayBack` says
that what is replaced has just been kept. It does not say more because the code
does not do more: a run decides before it takes the lock, so a second run that
waited may replace the new version with itself, and the kept binary is then the
new one too. The services to restart are those found before the download.

`ServiceInstall` has one service under systemd or launchd, with a request as an
index into `Requests` and the file as that index, `0` for one install did not
write. Each command of the manager may fail, and a run may be killed anywhere.
`sure` is history: what the last run that ended well was asked. A write that fails
or is killed may leave a truncated file without the marker, which the next install
refuses as not its own. Two runs at once are not modelled.

## Runs

| run | instance | shows |
|---|---|---|
| `supersede` | three connections of one key, one service, one port | the key has one session at any moment, `done` follows the stop of the services, and a welcomed client finds its ports free |
| `contend` | two clients, a fixed and a pooled service each, a span of three numbers of which one is the listen port, two ids | no port has two owners, the allocator's books are exact, a session gives no id twice, a rebind is not refused for its own old listener |
| `settle` | two connections of one key without reloads, or one with two reloads out of four policies; a shutdown at any time | a session holds nothing a reload it has taken up does not grant; a claim on a key is settled, a revoked key ends up with no port, a shutdown ends everything |
| `control` | one service with two settings, three reloads of the client, two of the server, two sessions | the ends agree whenever the stream falls quiet, targets are current, and the stream does fall quiet |
| `tables` | three visitors, a cap of two, four ids, eight openings; three TCP connections of one address and three QUIC ones of another, a limit of two, two slots, room for one bucket | the indexes agree, ids wrap safely and the table implements `VisitorRouting`; holds are covered and failures stay within the limit |
| `tunnel` | one place for visitors, a bulk stream, one permit, a byte each way, both transports | a clean end has every byte, permits are exact, a lost connection ends the tasks |
| `udp` | two session ids, a cap of one, two packets with everything or three with evictions; three sizes, room for two small datagrams, a queue of one | map and readers match, no wakeup is lost, a service's sessions end with it; packets come whole and once, and a bulk stream flows |
| `process` | one client with two addresses, or two that share a key, with waits of 1, 2, 4 and 5 ticks and `HEALTHY` of 10; two writes of a config, of one or two clients, with and without `--listen`; two pumps; two callers and one unacknowledged stream | a stop ends the client, it dials again after every failure that is not hopeless, rivals never start their waits over; the last save is in force and sound; the panel draws the last totals; every open is answered |
| `host` | two connections of two keys, a reload of the policy, receivers of two; two clients, two reloads of which one undoes the other and two sessions, with channels of one; two clients whose tasks outlive them; three processes; two upgrades among three versions; four runs of install or uninstall | the status names the latest session, or agrees with the client; totals count nothing twice and lack only what came late; processes have one identity and the path leads to the one that serves; there is always a way back; a service runs as it was last asked |
| `udp_reply` | one id, two packets | *violation*, see below |
| `listen_override` | a server with `--listen`, one write | *violation*, see below |
| `socket_race` | two processes | *violation*, see below |

Why the bounds are enough. Supersession is a relation between a session, the one
before it and the one after it: three connections make a chain with a middle.
Two sessions suffice for a conflict over a port, and a span of three numbers with
the listen port in the middle has a walk that wraps and skips. Two ids per session
reach the exhaustion of ids. Three client reloads put two replaced binds before
the last one on the wire, with a server reload between them. The rivals keep the
code's ratio of `HEALTHY` to `CAP`, and a wait that grows three times. The table's four ids
with a cap of two and eight openings take the counter around twice with sessions
alive. A cap of one and two ids make every new session an eviction. Six
connections against a limit of two overlap beyond the limit on both transports,
and room for one bucket makes the second address meet a crowded table. In `tunnel`
a byte each way can be at every place of the pipe when something fails, and the
places are refilled by the next visitor; visitors meet each other only through the
budget, which the bulk stream contends for. In `udp` two payloads of one end can be
on both paths at once, and a queue and a window of one are full at once. Two writes
put a save between the look, the stamp and the read of the one before it. Two
callers and a limit of one make the second wait for an acknowledgement. Channels of
one and receivers of two lose events. Three processes have one that is killed, and
two that find what it left. Two upgrades overlap at every step.

`host` checks the client's status twice over, without counting (`client`) and without
sessions (`totals`): what is counted and what is said share only the loop of `run`, and
neither reads the other's state. In `client` the second reload is one that undoes the
first within the first session, with the panel (`Restores`): a second reload of another
kind is a first one from a state the run has anyway. In the server's part the first
connection has the key that has the name at first, and a reload does not give that key
to another name (`Gives`): the events of other names only fill the queues, which those
of the second key do. The proofs have none of these restrictions.

`settle` has an action constraint, `ReloadsAlone`: after a reload the second
connection stays away, and after it there is no reload. Both are free not to happen,
and neither is under fairness, so the constraint drops behaviours and bends none.

A run that may stop says so (`CHECK_DEADLOCK FALSE` in `process`, `host`,
`listen_override` and `socket_race`): their bounds on writes, runs and processes are
used up, or the process has ended. In the others a state without a successor is an
error. The end of a lost connection in `udp` stutters by a disjunct of `MCNext`.

### Fairness

`settle`, `control`, `udp`, `tunnel` and `process` check liveness. Weak fairness
says that a task that can go on is scheduled; tokio polls every woken task, and the
panel, the pumps' threads and the watcher's thread run. Strong fairness is used only
for arms of a `tokio::select!` without `biased`: it polls its arms in random order,
so an arm that is ready turn after turn is taken in one of them, whatever else is
ready (`Stopped`, `Regrant`, `TakePending` in `ServerSessions`, `ReaderCancelled` in
`UdpLocal`). In `ClientRun` the clock goes on, and dials and greetings come to an
end, in success or failure: the client sets no deadline of its own for them and
relies on the idle timeout of QUIC, on the timeouts of the kernel's TCP and on the
server, which drops a connection that is not greeted in time. So `StopEnds` says
that a stop takes effect, and not how soon: one that falls in a greeting waits for
it. A session that is up may stay up. In `Tunnel` the applications read what they
are sent, or the pump that writes to a socket nobody reads waits for ever; they need
not write, finish or reset. In `TcpDriver` a peer that is up acknowledges streams,
as yamux does, and one that has fallen silent is noticed by the session's deadline.
Otherwise nothing is assumed of clients, visitors, operators, the clock or the local
service, and no property relies on `SUPERSEDE_WAIT`: the wait for the previous
session ends because that session does.

### Findings

`udp_reply` violates `TouchedHasReader`. The comment in `read_replies`
(`client/udp.rs:320`) gives as the reason for the re-check under the lock that
`deliver` "can take the session in between and touch it, and that packet's reply
would be lost". The lock covers the reader's re-check and removal, but `deliver`
takes the session under the lock (235) and touches it after the lock is released
(187). A reader whose re-check falls between the two still finds the session idle
and removes it; the packet then goes out on a socket that nobody reads. The window
is a few instructions wide and what is lost is one datagram, after which the
visitor's next packet opens a new session. What the re-check does guarantee is
`MapAndReaders`: a session that it removes leaves no reader behind, and one that it
keeps has its own.

`listen_override` violates `GrantsSpareListen`. "client `{0}` is granted the listen
port {1}; a grant cannot name it" (`config.rs:243`) is checked when the file is loaded
(`crates/hawse/src/config_file.rs:117`); `--listen`, which "overrides `listen` for that
run" (`site/src/content/docs/configuration.md:31`), is put in after that
(`crates/hawse/src/commands/server.rs:27`) and nothing validates again. A server started
on a port that its file grants runs with that grant. Little follows: the allocator has
reserved the port, so a bind of it is refused; but every reload of a file that still has
the grant is refused too, since `reloaded` does check against the port that runs.
`InForceSound` says what holds: only the policy of the start can be so.

`socket_race` violates `SocketKept`. "Only a refused connection proves the socket is
stale: a bind over a live one would steal its callers"
(`crates/hawse/src/socket.rs:226`). A refused connection does not prove it: the bind of a
listener is bind(2) and listen(2), and between the two its socket refuses. Of two
processes that start at once the second may connect in that window, and then remove the
socket (235), which by that time may be the one the first serves on: the refusal and the
removal are two steps without a lock. It takes two processes of one role and account
that start within that moment; a server's second process fails at its port first unless
it has another. Otherwise the path leads to the one that serves, which is part of
`StartsAgree`.

## Proofs

The theorems hold for every value of the constants: any sets of connections, keys,
names, visitors, addresses and processes, any caps and spans, and any of the bounds
that keep a run finite. They rest on the named assumptions of the modules and on
nothing else. These are the types of the constants, values like `NoConn`, `None` or
`NoBucket` outside the sets they stand beside, and where the code's constants have
to fit each other, that they do: `SpanAssumption` (a span that is not empty),
`AdmissionAssumption` (a limit and a window of at least one), `ReloadAssumption`
(ports are numbers), `ProtocolAssumption` (the services a config names are finitely
many, being the keys of a map) and `RunAssumption` (above). Each is stated in the
module it is about, and TLC evaluates it in every run of that module.

Each theorem `Spec => []P` has an inductive invariant: it holds at first, every step
keeps it and it implies `P`. What is said of an invariant below is what `P` alone
lacks for that.

### SessionProofs

* `TypeCorrect`: `Spec => []TypeOK`, which no run repeats. `TypeOK` alone is not
  inductive: `HostBinds` makes a record out of the request in hand and the next id.
  `RequestInv` adds that a bind in progress has its request and an id left to give.
* `PortsExclusive` (`PortExclusive`) and `AllocatorAccounts` (`AllocatorExact`). Both
  follow from `PortInv`, which adds to exclusivity what a bind holds between the
  claim and the bind (`HeldInv`: in use, not reserved, held by one session, no task's
  port, and the port being bound is among them) and both directions of the books
  (`InUseInv`). A port enters `inUse` only when it was not there, moves from `held`
  to a task in one step, and leaves `inUse` only with its last owner.

The proof has one step per action. Actions that move a connection without
touching ports go through the lemmas `MoveTyped`, `GotoTyped`, `PortsUntouched`
and `MoveKeepsPorts`; `ClaimDynamicFree` says what the walk through the pool
returns, and `StopKeepsPorts` that stopping services changes no task's port.

`SessionInv` adds to `TypeInv` and `PortInv` what the life of a session needs:

* `LifeInv`: a task with an open socket is that of a service its session lists, ids
  are given in order, and only a session in its loop has services. It gives
  `DoneIsStopped` (`DoneMeansStopped`) and, with `GivenInv`, `IdsAreUnique`
  (`IdsNameOneService`): `given` is history, every id of the session in order, and none
  in it is beyond the last, which only grows.
* `GrantInv`: from the lookup of its grant on, a session that no change waits for
  has the policy's grant or is ending, and a bind in progress asks for a port of the
  grant. It gives `ReloadsHonoured` (`GrantHonoured`).
* `QueueInv`: there is a rank, the order of the stakes, by which the sessions that
  hold a claim on a key stand in a queue, as long as no wait of the key ran out. One
  with another before it waits, for one that stands no further ahead than that, and
  the map names the last. The rank is neither in the code nor in the state: the
  invariant says that there is one, and a stake takes the next. With `LeftInv` (a
  session outside its claim has left no task) it gives `PortsFreeOnWelcome`
  (`WelcomeFindsPortsFree`): a session leaves its wait when the one it waits for is
  gone, and then nobody is left before it. Without the rank the property would need
  induction along the chain of waits.
* `OneSessionPerKey` is inductive beside the types, and is `KeyHasOneSession`.
* `FreeingInv`: without reloads, a task that is closing belongs to a session that
  waits for that very port, or that has left its loop, or whose key saw a wait run
  out. It gives `PortFreeOnRebind` (`RebindFindsPortFree`).

### ControlProofs

`EndsAgree` (`QuietAgree`) and `TargetsAreCurrent` (`TargetsCurrent`). Both speak of
what has arrived, so the invariant speaks of what is on its way. The client's messages,
the sent and the unsent, are one queue `Out`: sending changes nothing of it, the server
takes its head, a reload of the client adds to its end. For each service, while the
session is up:

* `AskInv`: the last message about it in `Out` asks for what the client now wants, or
  there is none and what is bound is what it wants.
* `Free`: every bind in `Out` has an unbind before it with no bind between, or its
  service is free and no bind is before it. So the server never refuses a service
  because of its own predecessor.
* `CountInv`: `unanswered` is the number of binds in `Out` and of answers in
  `toClient`; less than that only after a `BindFailed` sent unasked was counted. So an
  answer taken for the last is the last, or the service is in `miscounted`; and the
  last answer is never passed over, miscounted or not.
* `WordInv`, `GoodInv`: with no bind in `Out`, the last the client is to hear is how the
  service stands at the server, or the client knows already; and the last answer to a
  bind is for the settings the client now has.
* `HeldInv`, `OwnInv`, `TargetInv`: an id the client holds is one service's, with the
  settings it was bound with, and ids and targets say the same.

When the stream is quiet the queues are empty: `AskInv`, `WordInv` and `HeldInv` then
say what `Agree` does. The proof has a lemma per action, and for the two that take a
message one for the service it is about and one for every other. `ControlTypesHold` is
`Spec => []TypeOK`, which no run repeats.

`QueueLemmas` has the two notions this needs, the last message of a kind (`Lasts`) and
how many there are (`HowMany`), and what appending, taking the head and joining two
queues do to them. With these no proof about a queue needs induction along it.

### ServerTableProofs


`TableIndexesAgree` (`IndexesAgree`): `Agreed` says of one table that its three
indexes are one relation. The operators that make tables (`Remove`, `Touch`,
`Insert`, `MakeRoom`) each have a lemma that they keep it and what it does to the
sessions alive, and the front of the order exists because a set of numbers has a least
one. `TableRoutes` (`ImplementsRouting`): under the mapping of `SessionTable`
the first state is one of `VisitorRouting`'s, and each action is one of its steps or
leaves it alone. The refinement needs the invariant, since what `Remove` takes out of
one index must be what the others have.

`LateRepliesAreLost` (`LateReplyLost`): for each session opened there is a set of ids,
fewer than the cap, that others held at that time. Until the id counter has been
around, every id between the session's own and where it stands was given out since or
is in that set (`Covered`): the counter passes over an id only when it gives it out or
finds it held. An id that leads to another visitor was given again, so all ids were
given out but those in the set, and a set is no larger than the sequence it is made of.
Distance on the circle of ids is an offset that grows by one with the counter, which is
what spares the induction along the arc.

`HoldsAreCovered` (`HoldsCovered`): what is pending for an address is the cardinality
of the connections that hold something for it. `LimitIsExact` (`LimitExact`): with
tokens in units of `1 / Window`, what an address has been charged and what is left are
never more than the limit and what time has refilled (`ChargedInv`); a bucket that is
swept is full, so forgetting it changes neither side. Products with the clock are
given names, and the arithmetic around them is linear.

### TunnelProofs

`EndsAreClean` (`CleanEndIsWhole`): a flow is in order,
`got <= put <= taken <= out <= read <= sent`, and each mark (a finish, a half-close, an
end that was read) comes after the last byte of what it follows. `EndInv` adds that a
pump that is over without having reset its socket has half-closed it, which is where a
failure could pass for an end. `BudgetIsExact` (`BudgetExact`) needs the holders to be
finite, and one lemma per way a task starts and ends. `TunnelTypeCorrect` comes last:
that the permits stay within the budget is a consequence of the count, not a premise.

### UdpProofs

`MapKeepsItsReaders` (`MapAndReaders`): the invariant follows a session from before
its reader is spawned. While a deliverer is between the two, the session is in the
map or was evicted, and no other task will spawn for it; a reader that has decided to
go is the only one that may leave the map's entry to another. `WakeupsReach`
(`NoLostWakeup`): the property speaks of a task that sleeps, the invariant of one that
has looked and found nothing, since that is when the permit must already be kept.

`PacketsStayIntact` (`PacketsIntact`): each payload of an end has one place at a time
(unsent, in hand, in quinn, in the air, in the queue, being written, on the wire, with
the receiver, gone) and only moves on. The invariant says that there is a map `place`
from payloads to places that fits the contents of all of them; by the bulk stream, a
later payload is never further along than an earlier one, and the wire holds parts of
one frame at most. Sending, evicting and delivering move one payload or a prefix of
quinn's queue in that map. `Left` and `Frees` of `UdpPath` say which prefix quinn
drops without recursion, for the sake of this proof.

### HostProofs

* `WayBackKept` (`WayBack`): the staging directory is the lock. A run between making
  and dropping it is the one that made it, and what it copied and kept is the binary
  that is installed.
* `StartsDoAgree` (`StartsAgree`): one process at most writes the key file, to which
  nobody has an identity by then; and while no two were in `bind_at` at once, the path
  is that of the process that listens or is about to.
* `ServiceIsAsAsked` (`ServiceAsAsked`): each step of an install or uninstall has its
  own account of what is in place by then, on systemd and on launchd.
* `TotalsAreExact` (`TotalsExact`): what was counted is what was carried, what the
  running client has counted and what came late (`TotalsInv`). From a client's end to
  the next one's start the shown sum lags behind `carried` by that client's count, and
  exceeds the rest by no more than what came late; no later client has counted.
* `LatestIsNamed` (`StatusNamesLatest`): between what a receiver holds and what is
  true lie the events in its queue. The invariant says that there is a trace, one
  record or count after each event, that begins with what the receiver holds and ends
  with what is true. Sending makes the trace longer at its end, taking in shortens it
  at its start, and with an empty queue both ends are one. So the queue needs no
  induction. `LiveInv` says that a key is live for the last session to stake it, until
  that gives it up, and for no other; with the policy's one key to a name this is
  when the name is shown as connected.
* `StatusReallyAgrees` (`StatusAgrees`): two readers in a row, the keeper of the status
  and the printer behind it, whose unread events are those in its own queue, the one
  held between the queues, and those the keeper has not read (`Tape`). For the link and
  for each service `AgreeInv` says that the last event about it in a reader's queue says
  how the client stands, or there is none and the reader has it already, from the
  client that is shown; for the printer, that it recorded the answer for the settings
  the client asked with, or the service is in `misread`. A new client has said nothing
  yet, and readers who have not yet been told of it know that there is a change
  (`ReadersTold`).

### ProcessProofs

* `InForceIsSound` (`InForceSound`): what is in force is what the server started with,
  or validated together with the fixed half of it. What it started with validated too,
  but for the port of `--listen`.
* `RivalsBackOff` (`RivalsNeverReset`), an action property. Every rival without the
  key has a time by which its next Hello comes, bounded by where it is (`Back`), and
  the session that has the key lasted no longer than what is left of the longest such
  time. A tick moves both by one, a Hello starts over. When it ends, a session has
  lasted for `CAP`, two dials and two hang-ups at most.

### What stays with TLC

* Liveness (`ShutdownCompletes`, `ClaimSettles`, `RevocationReaches`, `Settles`,
  `LastSaveInForce`, `FiguresSettle`, `OpensAnswered`, `StopEnds`, `KeepsTrying`,
  `Drains`, `BulkFlows`, `LossEndsTasks`): the prover has no rules for fairness and
  ENABLED.
* `AllowList`, `RecordCodec` and `Places` are evaluated over small domains: what
  their functions compute for every input needs induction.

## Not modelled

* Encodings (frames, messages, packets, PROXY headers) and host sockets
  (`net.rs`): functions around libraries and system calls, without state.
* Keys and TLS: cryptography behind pure functions. A connection's key is taken as
  proved.
* QUIC: quinn behind a thin adapter. `Tunnel` and `UdpPath` have what the program
  relies on of its streams and datagrams.
* The parsing of configuration files.
* Terminal output beyond when the panel samples and which answers its rows show:
  layout, wording, escape codes, logging; the output of `hawse status`.
* `join`, `check`, `keygen`, `main.rs` and `install.sh`: one process that prompts,
  reads and writes in sequence. The places they write to are in `Places`.
* Of the server: `refuse_streams` (streams a client may not open are reset), the
  pause of the accept loops after an error, QUIC's stateless retry, and how long
  deadlines are; the shared deadline of drain and linger (`server/session.rs:427`)
  is the one hazard without a property.
* Relaxed atomics out of program order, the gauge of open connections, and the list of
  unknown keys in the server's status (see above).
* Drop counters, warnings and log lines everywhere.

PROJECT.json gives the reason for each component.

## Plan

The models cover the components in which tasks, machines or processes have to agree.
Every safety invariant and every safety property of actions that a run checks is a
theorem; what is left to TLC is listed above. What may be added:

1. The shared deadline of drain and linger, with a clock in `ServerSessions`.
2. The encodings, when TLC's small domains say enough about them: frames and messages
   of `hawse-proto`.
