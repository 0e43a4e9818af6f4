# A TLA+ model of rathole-ng

rathole-ng exposes a service behind a NAT through a server with a public
address. The client keeps one *control channel* per service to the server; the
server asks over it for *data channels*, and each data channel carries a visitor
of the service. Client and server talk over TCP, Noise, or a UDP transport with
a reliability layer of its own. Services can be added and removed by editing the
configuration file of a running process.

Nearly everything that can go wrong in it is between tasks: tokio tasks that
share maps under locks, bounded channels, shutdown signals, and datagrams that
get lost. That is what is modelled here.

- [The system](#the-system)
- [The modules](#the-modules)
- [The runs](#the-runs)
- [Where code and documentation disagree](#where-code-and-documentation-disagree)
- [The theorems](#the-theorems)
- [What is not modelled](#what-is-not-modelled)
- [Plan](#plan)

Paths are relative to the repository (`src/server.rs` stands for the server
module of the crate).

## The system

### Components, their state and their operations

| Component | State | Operations |
|---|---|---|
| Server main loop (`server.rs`: `Server::run`, `handle_connection`) | listener socket, `services`, `control_channels`, subscription to the shutdown signal | accept a connection and spawn its handshake; hot reload; shutdown and `clear` |
| Server handshakes (`do_control_channel_handshake`, `do_visitor_channel_handshake`, `do_data_channel_handshake`) | per connection: nonce, copied service configuration, lock guards | look a service up, authenticate, replace the handle in the map, look a data channel's session up |
| Control channel map (`multi_map.rs`) | two hash maps of pointers to shared boxes, by digest and by nonce | `insert`, `get1`, `get2`, `remove1`, `remove2`, `clear` |
| TCP service (`ControlChannelHandle::new`, `tcp_listen_and_send`, `run_tcp_connection_pool`, `ControlChannel::run`) | three tasks, `data_ch_req`, `data_ch`, the channel of visitors | accept a visitor, request a data channel, pair the two, replace a broken data channel, end |
| UDP service (`run_udp_connection_pool`) | one socket, one data channel in use of the two requested | bind, take a data channel, forward datagrams both ways, end when it breaks |
| Client main loop (`client.rs`: `Client::run`, `handle_hot_reload`) | a handle per service | start, replace and stop services |
| Client control channel (`ControlChannel`, `VisitorControlChannel`) | connection, backoff | connect, authenticate, answer `CreateDataChannel`, retry |
| Heartbeats (`ControlChannel::run` of both sides) | a timer at either end | write a `HeartBeat`, give up |
| Client data channel (`run_data_channel`, `..._for_tcp`, `..._for_udp`, `run_udp_forwarder`) | port map under an `RwLock`, forwarders, bounded channels | copy both ways; look a visitor's forwarder up, create it, send to it, time out |
| UDP transport (`transport/udp.rs`, `transport/reliability.rs`) | per stream: `StreamState`, wakers, one task; per listener: the active streams | connect, `poll_read`, `poll_write`, `poll_shutdown`, incoming packets, the 50 ms tick |
| Watcher and main loop (`config_watcher.rs`, `lib.rs`) | old configuration, events, the running instance | read the changed file, compute events, restart the instance or pass service changes on |
| Configuration (`config.rs`, `determine_run_mode`) | none | parse, validate, fill options in, choose the role, `is_port_allowed` |
| Wire protocol (`protocol.rs`) | none | framing, (de)serialisation, digests |
| TCP and Noise transports, helpers, command line | none of interest | wrappers |

### What makes it hard

- A handshake holds the write lock of the control channel map over the write of
  its `Ack`; a hot reload holds the lock of `services` while it waits for the map;
  a data channel is sent into a bounded queue under the map's read lock.
- A handshake uses what it read before an `await` after it.
- A session's tasks run, and its client knows of it, before its handle is in the
  map.
- The port map of a UDP data channel is read twice for a packet, with the first
  guard alive, under a lock that serves requests in order.
- Every task can be cancelled at any `await`, and several return early by `?`.
- Datagrams are lost, repeated and reordered; acknowledgements overtake each
  other; the two ends of a stream change mode at different times; a reader or
  writer that nobody wakes sleeps for ever.
- An instance is restarted with changes in its channel that it has not read.
- A client task that was told to stop looks there only in its `select!` and after a
  failure; it can connect once more and displace the session of its successor.
- The server does not watch its sessions. One that is gone is found by a failed
  write, by a successor, or never.
- A UDP pool does not see the shutdown in the body of a `select!` branch, and a data
  channel that stays open without carrying anything is noticed by neither side.
- Both hash maps of the multi map point to the same boxes, and either may free one.

`PROJECT.json` lists each as a hazard at the line where it bites, with the
properties that cover it or the reason why none does.

### What should hold

No data channel is requested too often or forgotten; locks are always released;
an acknowledged session is in the map; a removed service is not served; bytes
arrive in order and once; nobody parked is forgotten; a live forwarder is
reachable; after a reload the instance has the services of the file, with every
option that validation knows filled in; a service is served again after the last fault; a server that is
there is not given up; tasks end when they are told to.

## The modules

| Module | Models | Extends |
|---|---|---|
| `ConnectionPool` | a TCP service on the server, its data channel handshakes, the client as far as it answers `CreateDataChannel` | |
| `MultiMap` | the map with two keys: pointers, boxes, every operation | |
| `SessionRegistry` | what the server promises of its sessions, abstractly | |
| `ControlChannels` | the map of control channels, the handshakes, hot reload and shutdown of the server, and both locks | `MultiMap`; instantiates `SessionRegistry` |
| `SessionLinks` | what client and server share for a UDP service: control connections, data channels | |
| `ClientService` | a service of the client: start, replace, stop, the retry loop, control and visitor channels | `SessionLinks` |
| `UdpPool` | a UDP service of the server: both handshakes, the control task, `run_udp_connection_pool` | `SessionLinks` |
| `Session` | the two composed, with reloads, faults and restarts of either side | `ClientService`, `UdpPool` |
| `Heartbeat` | the timers at the two ends of a control channel, in discrete time | |
| `ReliableStream` | what the UDP transport promises: an abstract two-way stream | |
| `UdpStream` | both ends of one stream of the UDP transport, the listener for its id, the network | instantiates `ReliableStream` |
| `UdpForwarder` | the client's end of a UDP data channel | |
| `Config` | parsing and validation of the file, the role it selects | |
| `ConfigWatcher` | the file, the watcher, the main loop, the services of the instance | `Config` |
| `ChannelTaskProofs` | theorems about the tasks at the ends of the channels: pool and heartbeats of a control channel, forwarders of a data channel | `ConnectionPool`, `Heartbeat`, `UdpForwarder`, `TLAPS` |
| `SessionStepProofs` | theorems about `Session`: its invariants, what they say, what a step makes of one session | `Session`, `TLAPS` |
| `SessionProofs` | that every step of `Session` keeps them | `SessionStepProofs`, `TLAPS` |
| `...Proofs` | theorems about the module of that name (`UdpStream` and `ConfigWatcher` have two; `UdpStreamFlowProofs` and `ConfigAppliedProofs` build on the other) | the module, `TLAPS` |
| `MC...` | the instances TLC checks | the module |

Operators named `...Unbounded`, `...NoWake`, `...KeepsLock` and so on, each marked
`Mutant`, are variants of an action with a plausible mistake. No specification
uses them. They show that the properties depend on the code: with the variant in
place of the action TLC reports the property violated.

### ConnectionPool

The queues hold interchangeable items, so `reqs` (`data_ch_req`), `cmds`, `opening`,
`sending`, `data_ch` and `visitors` are counters. `sending` counts handshakes in
`data_ch_tx.send(conn).await`, which hold the read lock of the map; `DropHandle`,
which needs the write lock, waits for `sending = 0`. `ctrl`, `listener` and `pool` are the
program counters of the three tasks. `lost` counts commands that never yield a
data channel. It exists to state `Conservation`. Guards follow the channels: a send
waits for room and fails when the receiver is gone, a receive ends when all
senders are.

`PoolAssumption` asks for `PoolSize + 2 <= ChanSize`; the code has
`TCP_POOL_SIZE` = 8 and `CHAN_SIZE` = 2048.

### ControlChannels

A connection stands for its handshake task and the nonce it draws; a key is a
service digest. `pc` has a place for each `await` at which others can run: the
lookup, the reply `ServiceNotExist` (written under the read lock of `services`), the
authentication, the map's lock, the `Ack`, the insertion. `lock` is the set of
holders of the map's write lock, a set so that a broken variant can show two.
`ServicesReadable` and `ServicesWritable` are the lock of `services`. A task accepted
after the shutdown signal does not see it (`watching`). There is no abort between
the `Ack` and the insertion: the code has no `await` there.

The map is a `MultiMap`. An item is a box that both hash maps point to, with keys
that point into it; `boxes` are those allocated. `remove1` finds the item in one map
and removes it from the other by its other key, as the code does. `Sound` says
that no pointer dangles and no box leaks. `MapSound` is that for the server's map, in
every state a sequence of handshakes, reloads and shutdowns can reach.

`SessionRegistry` is the server without locks, handshakes and pointers: a service
has one session at most, a session enters once, and one that has left never comes
back. The mapping: `owner` is what data channels can look up, the entries of the
second map; `over` are the sessions whose handle was dropped (`displaced`). A step is
`Enter` when a handshake inserts its handle, `Leave` when a handshake or a reload removes
one, `LeaveAll` at shutdown, and a stutter otherwise.

### SessionLinks, ClientService, UdpPool and Session

A session is a control connection with the data channels and server tasks that
belong to it: one record of `conns`. A control connection delivers in order; it can
break, which both ends notice, or fall silent, which only timers notice. Data
channels are counted: those the client is `opening`, those `queued` in the server's
`data_ch`, those queued but dead (`stale`), those that never got there (`lost`), and
the one in use. `Forget` drops what no task can see any more, so that a small number of
records serves any number of sessions, one after the other.

`ClientService` has the handle of the service (`current`), the tasks whose
`shutdown_rx` has something to say (`told`), and the program counter of each task.
A task looks at `shutdown_rx` in the
`select!` of an established channel and after a failure, not while it connects or
sleeps: that is where told tasks go on.

`UdpPool` has the session whose handle is in the map (`map`) and the one whose pool has
the address (`addr`). `Bind` retries until the address is free. The pool takes one data
channel and ends when that breaks. `BodyBlocks` is the body of a `select!` branch that does
not end while the data channel lives, and in which the pool does not see the shutdown:
`write_slice`, when the client does not read or the writer of the UDP transport is not woken
(the first disagreement below), and `UdpTraffic::read`, when the rest of a frame does not
come. It may happen on any data channel that is open. A body that ends is not a step: it
leaves the state as it is. `ReloadService` is the server's hot reload, which drops the handle;
visitor channels have none.

`Session` adds what goes wrong: a refused or failed connection, a failed open, a
control connection that breaks or falls silent, a data channel that breaks, a
crash and restart of the client or of the server. `ChunkForgotten` is a data channel over
the UDP transport that loses a chunk for good: it is in Udp mode before `StartForwardUdp` is
written, so nobody acknowledges, and after 30 s the sender forgets. What follows the chunk is
never read; the client waits, in `read_data_cmd` perhaps, on a data channel that stays open.
It is then `stalled`. `Event` counts the faults and the reloads of either side together.

### Heartbeat

Time passes in ticks. A timer that is due fires before the next tick (`Due`), and a
working connection delivers a command, and lets its write return, within `MaxDelay`.
Each turn of either loop creates its `sleep` anew, so `since` and `quiet` restart. The
server's sleep starts after its write has returned: that is why `NoFalseTimeout` asks
for room for two delays. `HBInit`, `HBNext` and the like carry the prefix because
`ChannelTaskProofs` extends this module together with `ConnectionPool`; so do
`FwdInit` and its neighbours in `UdpForwarder`.

### UdpStream and ReliableStream

`st[e]` is the `StreamState`, the `UdpStreamInner` and the task of end `e`. `net` is
the set of all datagrams ever sent. A datagram is received by reading it from the
set, so it may come any number of times, in any order, or never. The queue
between socket and task belongs to the network. Time is a choice: `Elapse` makes
what is in `write_queue` older than the timeout of the mode. The queue is a set of
packets, and its length the number of its keys (`Keys`), as it is in the code's map. One `poll_write` is one
chunk. `MayWrite` and `MayRead` are the framing of `run_data_channel`: for a Udp
service the client writes its hello, changes to Nack mode and reads, the server
reads and changes. The acknowledgement fields of packets that are neither Sack nor
Nack are never read by the code and are left out, as are encryption and encoding.

`ReliableStream` says what users of the transport rely on: each end reads a prefix
of what the other wrote. The refinement mapping is the identity on `written` and
`got`, which record what `poll_write` accepted and `poll_read` returned.

### UdpForwarder

`main` is the program counter of `run_data_channel_for_udp`, with a place for each
`await`; `guard` says that the guard of its first lookup is alive. The lock is
tokio's `RwLock`, which grants requests in order, so it is a queue, `waiters`; the
head gets the lock when the holder lets it. `fwd[f]` is a forwarder with the length of
its inbound channel, `writer` the task that writes to the server. A write succeeds, fails
(`Write`), or hangs (`WriteParks`) and may go on later, or never (`WriteResumes`). A forwarder
returns by `?` without removing its entry (`Return` alone), or after a timeout or a
socket error by way of the write lock (`Leave`, `Remove`). The end of the connection
and cancellation by the control channel are `MainEnds`, possible at any place.

### Config and ConfigWatcher

A file is `Garbage` or a record of two blocks, either of which may be missing; a block
has its options and a set of services with distinct names. `from_str` gives `Invalid`,
or the configuration with the options filled in as the validators do: a server's
service without a user gets `default`, one without a token that of its user, a
client's service takes user, token and interval from its block.
`determine_run_mode` chooses the role.

`Edit` changes the file; the notification counts only if the watcher is already
watching (`noticed`). `CalculateEvents` gives the event lists that `calculate_events`
may produce: one General change, or deletions followed by additions, in any order
a hash map may be iterated in. The main loop, `run` of `lib.rs`, waits for room in the
instance's channel, and for the old instance to end before it starts the next. An
instance fails when it has no role or no block for it, and `InstanceFail` is any other
error; the main loop then ends with the next General change. `Key` is the difference
between the roles: the server files services by digest of user and name, the
client by name.

## The runs

Deadlock checking is off in all of them: every model comes to rest when its
bounds are used up or its tasks have ended. State counts are distinct states.

| Run | Configuration | States | Checks |
|---|---|---|---|
| `pool` | `ConnectionPool.cfg` | 82,918 | `TypeOK`, `Conservation`, `NeverFullUnderLock`, `VisitorsServed`, `DropEndsTasks` |
| `udp_stream` | `UdpStream.cfg` | 670,137 | `InOrder`, `AckedIsReceived` |
| `udp_wakers` | `UdpStreamWakers.cfg` | 84,212 | `ParkedReader`, `ParkedWriter`, `ChunksSettle`, `CloseWakesReader` |
| `udp_datagram` | `UdpStreamDatagram.cfg` | 535,767 | `TypeOK`, `StreamSpec` |
| `udp_parked_writer` | `UdpStreamParked.cfg` | violation | `ParkedWriter` |
| `channels` | `ControlChannels.cfg` | 30,823 | `TypeOK`, `MapSound`, `InsertSucceeds`, `RefusedOnlyIfDisplaced`, `ImplementsRegistry`, `LockGranted`, `ShutdownCompletes` |
| `channels_reload` | `ControlChannelsReload.cfg` | violation | `RemovedNotServed` |
| `forwarder` | `UdpForwarder.cfg` | 214,518 | `FwdTypeOK`, `OwnEntry`, `FoundStays`, `EntryReceives`, `AllEnd` |
| `forwarder_blocked` | `UdpForwarderBlocked.cfg` | violation | `PacketHandedOver` |
| `reload` | `ConfigWatcher.cfg` | 196,370 | `TypeOK`, `Applied`, `OptionsFilled`, `EditsHandled`, `ShutdownEnds` |
| `session` | `Session.cfg` | 315,737 | `Accounted`, `DataChannelsOwned`, `Settled`, `OneMoreSession`, `Recovers`, `ToldEnds`, `ComesToRest` |
| `heartbeat` | `Heartbeat.cfg` | 6,941 | `NoFalseTimeout`, `SilenceNoticed` |

To repeat one: `tlc -config ConnectionPool.cfg MCConnectionPool`.

**pool.** Every data channel asked for is somewhere on its way, in the pool or
lost, and their number is the pool size plus one per waiting visitor
(`Conservation`), also when data channels break. From it follows that the send
under the map's read lock never waits (`NeverFullUnderLock`). Visitors are served
as long as fewer data channels were lost than are kept in advance
(`VisitorsServed`): a data channel that the client fails to open is never asked for
again, and each one lost leaves the pool one short. Dropping the handle ends
all tasks (`DropEndsTasks`). Bounds: a pool of one and a visitor channel of three,
the smallest the assumption allows, with six visitors so that the channel fills
while one visitor is held by the listener and one by the pool, and two broken
data channels so that one breaks after another was lost.

**udp_stream.** Two chunks go one way through a window of two. Their contents differ
(`DifferentSpec`), since chunks that were mixed up show only then. `MaxRetransmits`
is 0: chunks are sent again because of a Sack, and the timer, whose retransmissions
`udp_wakers` has, ends the stream. Both chunks can be overtaken, repeated and
acknowledged by any old Sack. The listener creates a stream twice: a delayed
`StreamOpen` finds the first one gone, and the second meets the chunks of the first.
It reads them from the beginning, in order (`InOrder`). What the connecting end then
reads of the second stream is not covered: it does not notice the change and counts
on from where the first stream was. The two values are symmetric.

**udp_wakers.** A write queue of one, so that the second write parks. The
invariants say that whoever is parked has a reason and somebody left to wake it.
`ChunksSettle` and `CloseWakesReader` are liveness.

**udp_datagram.** A Udp service whose hello is one chunk, a reply of two, and
keepalives from the server. Covers the change of mode at different times, Nacks,
and the tick that forgets. Data goes both ways, so this run has the refinement
of `ReliableStream`, which with one stream says what `InOrder` says.

**channels.** Two connections compete for a service or for its visitor key, with
two hot reloads and a shutdown. `ImplementsRegistry` is the refinement of
`SessionRegistry`. The theorems below remove the bounds for everything but the two
liveness properties.

**forwarder.** Channels of one, three packets of two visitors, two replies, three
forwarders, so one visitor gets a second forwarder after its first left.
`EntryReceives` is what the comment at `src/client.rs:429` promises, with the exception
the code has: a forwarder that returned by `?` leaves its entry behind, and its
visitor's packets are dropped from then on. `AllEnd` says that every task ends after the
data channel, unless a write to the server hangs: then the writing task and the forwarders
that wait for room in its channel stay, and nobody else. Writes do hang: in Udp mode by the
first disagreement below, and over any transport when the server's pool hangs.

**reload.** Two edits among sixteen files, started with each of the four
combinations of flags, and a channel of one. The files differ in several services,
in one service's user, in the table of users (a restart that overtakes changes not
yet read), in the blocks they have; seven are refused, each for another reason.
`Applied` excepts a server whose reload gave a service another user: that change is
reported as an addition only, the server adds the service under a new digest, and
the old digest stays valid. `OptionsFilled` is the comment at `src/config.rs:59`, which
says that every `Option` is `Some` at run time, for the options that validation fills in and
the code relies on: user, token and retry interval. `nodelay`, `proxy_protocol` and
`remote_bind_addr` stay `None` when the file has none, which the code expects, and the service
that a visitor handshake makes has the token of its user, `None` perhaps
(`src/server.rs:488`).

**session.** Two tasks of a service, one in the place of the other, three session
records, so that both tasks have a session while a third is being wound up, and
two events at any time; one in visitor mode, whose handshake has more steps.
`Recovers` says that after the last event the service is served for good, with three
exceptions that are the code's: `Starved`, where the pool waits for a data channel that
nobody will open because every one of the session was lost and they are requested
only when it starts; `Stalled`, where the data channel in use is open and carries
nothing, for a chunk of it was lost for good; and `Held`, where a pool, of this session or
of one that is over, hangs in the body of a branch with the address bound. Served means that a
data channel is in use whose two ends read; whether the client hands the packets on is
`UdpForwarder`'s. `UDP_POOL_SIZE` is 2 in the code and 1 here, so that every loss
is that of the last and one event starves the pool; with 2 it takes two.
`OneMoreSession` bounds what a told task may still do: it never goes back, so it makes one
more connection at most. `Accounted` says that the data
channels requested when a session starts, not yet written, on their way, being opened,
queued, lost or in use, are `UDP_POOL_SIZE` as long as the client has its end and the
pool runs: a pool that waits in vain has lost them all. `DataChannelsOwned` says that
`cancel_tx` reaches every data channel, whichever way `run` returns: one that has a
client's end belongs to a task in its established channel.

`Busy` says, in terms of the state, that a task of either side can take a step of its
own or that a silent connection is yet to end. `ComesToRest` is
that after the last event the steps die out: tasks that displace each other, or
retry, do not go on for ever. It keeps `Busy` honest: were `Busy` to hold where nobody has a
step, the two sides would stay there and `ComesToRest` fail. Were it to miss a step, `Settled`
would only say more. `Settled` is what rest looks like: what `Recovers` and
`ToldEnds` say, and that the end of a pool has ended its control channel (`PoolEndSeen`),
that the drop of a handle has ended its pool and freed the address (`DropSeen`), and that
nothing else is left of a session without a client (`NoLeftovers`).

**heartbeat.** Intervals and timeouts with 0 (off), pairs that satisfy the condition of
`NoFalseTimeout` by one tick and pairs that miss it. The defaults of 30 and 40 seconds
satisfy it for delays below 5 seconds. `SilenceNoticed` is a bound, not a liveness
property: with discrete time it says how soon.

Bounds in general: channels are small enough to fill, retries few enough to run
out, and there is at least one more actor than a mistake needs.

### Fairness

Safety holds for `Spec`. Liveness is checked for `FairSpec`:

- `ConnectionPool`, `UdpForwarder`, `ConfigWatcher`: weak fairness of each task's
  steps. tokio polls a woken task again, and a channel wakes who waits for it. A
  `select!` is fair as a whole, not per branch (the pool's steps, the main loop's).
  An open of a data channel ends because the client gives up after 10 seconds;
  a forwarder without traffic times out after `UDP_TIMEOUT`. No fairness for visitors,
  packets, replies, edits, breaking connections, or shutdowns. A write of the client's
  writing task that does not hang comes to its end; whether one hangs, and whether it then
  goes on, is free.
- `ControlChannels`: weak fairness of a handshake that holds or waits for a
  lock. The lock is tokio's fair one. None for `ReadAuth`: that read has no
  timeout. Strong fairness of `ShutdownReceived`, since each turn of the loop may
  start a reload instead; `select!` picks its branch at random.
- `Session`: weak fairness of one action, any step of a task of either side or the
  end of a silent connection. It says that one of the tasks that can go on does,
  which is less than fairness of each; every task comes to rest when the others do.
  A silent connection ends because of TCP keepalive, of the heartbeat timeout, or of
  the UDP transport's timer. Nothing about reloads, faults, `BodyBlocks` (the
  traffic) and `ForwardersEnd` (the local service's).
- `Heartbeat`: none, its properties are safety.
- `UdpStream`: weak fairness of `Elapse` and strong fairness of `HandleTick`. Nothing
  about the network, so it may drop everything. The tick needs strong fairness
  because a Sack makes a packet young again; a network that repeats one Sack for
  ever, faster than 200 ms, is excluded.

`AllEnd` has the service fall silent: replies are bounded. A service that never
stops talking keeps its forwarder, and so the write half of the connection, until
a write fails. `PacketHandedOver` leaves out the behaviours in which a write hangs for ever,
so that its violation is the lock's.

## Where code and documentation disagree

Three runs end in a violation of what a comment or the repository's README says.

1. **A parked writer is not woken in Udp mode** (`udp_parked_writer`).
   `get_retransmissions` drops entries older than 30 s from `write_queue` and wakes
   nobody (`src/transport/reliability.rs:263`). The comment at
   `src/transport/reliability.rs:172` says that the wake matters when `write_queue` was
   modified in Udp mode.
2. **A removed service is served** (`channels_reload`). A handshake copies the
   configuration of its service (`src/server.rs:341`), waits for the client, and inserts its
   handle without looking again. `README.md:36` says services can be removed by hot
   reload.
3. **A UDP data channel blocks** (`forwarder_blocked`). The second `read()` of an
   iteration (`src/client.rs:430`) waits behind a forwarder's `write()`, which waits for the
   guard of the first. The two lookups follow each other without an `await`
   that has to wait, so this needs a forwarder on another thread, which
   `#[tokio::main]` provides. The variant in which the forwarder leaves while the
   reading task waits for room in its channel needs no second thread. The comment
   at `src/client.rs:405` says no other thread takes the writer lock.
Two more differences are written into properties that hold, as exceptions: an entry
without a forwarder (`EntryReceives`, comment at `src/client.rs:429`) and a service under
two users (`Applied`, `src/server.rs:260`).

## The theorems

Each is proved for every value of the constants that the named assumption of its
module allows. All but one have the same form: an inductive invariant `IInv` that holds
initially (`Flow` and `Parked` for `UdpStream`, `Linked` and `Attended` for `Session`), is
preserved by every step, and implies the property. The one is `RestRecovers`, which derives
liveness from liveness.

| Module | Theorem | Property |
|---|---|---|
| `ChannelTaskProofs` | `TypeCorrect` | `TypeOK` of `ConnectionPool` |
| | `ConservationHolds` | `Conservation` |
| | `NeverFullUnderLockHolds` | `NeverFullUnderLock` |
| | `NoFalseTimeoutHolds` | `NoFalseTimeout` |
| | `SilenceNoticedHolds` | `SilenceNoticed` |
| | `FwdTypeCorrect` | `FwdTypeOK` |
| | `OwnEntryHolds` | `OwnEntry` |
| | `FoundStaysHolds` | `FoundStays` |
| | `EntryReceivesHolds` | `EntryReceives` |
| `ControlChannelsProofs` | `TypeCorrect` | `TypeOK` |
| | `MapSoundHolds` | `MapSound` |
| | `InsertSucceedsHolds` | `InsertSucceeds` |
| | `RefusedOnlyIfDisplacedHolds` | `RefusedOnlyIfDisplaced` |
| | `RegistryImplemented` | `ImplementsRegistry` |
| `UdpStreamProofs` | `TypeCorrect` | `TypeOK` |
| | `ParkedReaderHolds` | `ParkedReader` |
| | `ParkedWriterHolds` | `ParkedWriter`, if `Service = "Tcp"` |
| `UdpStreamFlowProofs` | `InOrderHolds` | `InOrder` |
| | `AckedIsReceivedHolds` | `AckedIsReceived` |
| | `StreamImplemented` | `StreamSpec`, if `MaxStreams <= 1` |
| `ConfigWatcherProofs` | `TypeCorrect` | `TypeOK` |
| | `OptionsFilledHolds` | `OptionsFilled` |
| `ConfigAppliedProofs` | `AppliedHolds` | `Applied` |
| `SessionStepProofs` | `OneMoreSessionHolds` | `OneMoreSession` |
| `SessionProofs` | `TypeCorrect` | `TypeOK` (no run lists it; `Accounted` bounds the same counters) |
| | `AccountedHolds` | `Accounted` |
| | `DataChannelsOwnedHolds` | `DataChannelsOwned` |
| | `SettledHolds` | `Settled` |
| | `RestRecovers` | `Recovers` and `ToldEnds`, from `ComesToRest` and `<>[](Unused # {})` |

**ConnectionPool.** `IInv` is `TypeOK /\ Conservation`: the balance is inductive
with the types. At most `ChanSize + 2` visitors wait, so at most
`PoolSize + ChanSize + 2` data channels exist, and one of them is the one being
sent. With `PoolSize + 2 <= ChanSize` the channel of `2 * ChanSize` has room.

**ControlChannels.** The lemmas about `MultiMap` come first: on a sound map each
operation gives a sound map and changes `boxes` as its name says. `InsertSucceeds`
is not inductive: it needs that the lock is held exactly from the removal to the
insertion, by one handshake (`LockInv`), and that no handle in the map is in the way
of the holder (`HandleInv`). `RefusedOnlyIfDisplaced` needs that an open session has
its handle or was displaced (`OpenInv`); a session that is not yet open holds the
lock, so no data channel can look it up. It is stated for control channels only. A
visitor channel starts its tasks before it takes the lock and can be refused.
`RegistryImplemented` is proved action by action: `InsertEnters`, `RemoveLeaves` and
`ClearLeavesAll` turn what happens to the boxes into steps of the registry (by
`EntriesAt` and its neighbours, entries stand for boxes), and `IInv` supplies that
the map is sound, so that its second half says the same as its boxes, and that a
handle that enters was never displaced.

**UdpStream.** The invariant is `Flow`. It says what a sequence number means at each
place a chunk can be: in `write_queue` and `write_rx` (`Sender`), on the network
(`Wire`) and in `read_buffer` (`Reader`), number `n` stands for the `n`-th chunk
that the sending end accepted, whatever was lost or repeated on the way. `InLine`
joins the reading end to it: `got` followed by `read_buf` is the prefix that ends
before `next_read_seq`. `Acks` says that a Sack, however old, names only what its
sender has received, and `Queued` is `AckedIsReceived` itself. None of these is
inductive alone: `Reader` is kept by a new chunk because of `Wire`, `Wire` by a
retransmission because of `Sender`, and `Queued` by a Sack because of `Acks`. Most
steps neither accept a chunk nor hand one over; one lemma (`CalmKeeps`) covers those
that keep an end's place (`Steady`) and send nothing false (`Honest`); these are in
`UdpStreamProofs`. In `UdpStreamFlowProofs` only `poll_write`, `poll_read`, a new
chunk and the creation of a stream have proofs of their own. With a second stream
`Flow` keeps what concerns the listening end. `StreamImplemented` then takes each
step of `poll_write` and `poll_read` to one of the abstract stream.
`ParkedReaderHolds` and `ParkedWriterHolds` need none of this, but `Parked`: the task
of a stream that is open and not closed still runs, which is where `poll_read` and
`poll_write` park, and in Tcp mode the queue of a parked writer is full. What could
break the last part are the steps that change `write_queue`. A retransmission
replaces packets by packets of the same numbers (`KeysKept`), so the queue, a map by
number, keeps its length; an ack, a Sack or a Nack that makes room takes the waker
in the same step. In Udp mode a tick makes room and takes no waker, so the theorem
is about Tcp services, and a run shows the violation in the others.

**UdpForwarder.** `OwnEntry` needs that nobody fills the entry of a visitor between
the reading task's dropping of the read guard and its insertion (`MainInv`), and that
only forwarders that are leaving wait for the lock, each once (`QueueInv`).
`FoundStays` needs that a guard excludes the removal. `EntryReceives` is a conjunct of
the invariant: an entry that is left behind can only be one of a failed forwarder.
The queue lemmas (`AppendQueue`,
`TailQueue`, `CancelQueue`) say how requests join, leave and give up.

**ConfigWatcher.** `TypeOK` is inductive, and says more than types: an instance runs
in a role, with a block that some valid file has, and knows only services of valid
files; the bounded channel carries service changes alone. The work is in what
`CalculateEvents` can report (`BlockEventsType`, `EventsType`, from `OrderSeq`).
`OptionsFilled` then follows from `ReadFile`: what `from_str` accepts has
its options filled in. It rests on `Default # None` and on the interval having a default.

`Applied` speaks of a moment when nothing is under way; the invariant behind it says
at every moment where the changes under way lead. A queue *tracks* a set of services
to another (`Tracks`) when the last change about each name says what the second set
has, and a name without a change is the same in both. It *leads* from a configuration
to another (`Leads`) when it does so in each role and the general parts agree.
`RunInv` says that, as long as no restart is queued, the instance has the role and the
general part of `old`, the configuration the watcher last read, and `updates` followed
by `events` tracks from its services to those of `old`, but for the names that
`Applied` excepts. If a restart is queued, the queue behind the last General event leads from that event's
configuration to `old` (`GeneralInv`), whatever the instance in front of it does;
while the main loop waits for an instance to stop, the queue leads from the
configuration it is about to start (`StoppingInv`). `FileInv` joins `old` to the file.
A rescan extends a leading queue (`BlockReports`, `EventsReport`, `LeadsConcat`), the
main loop moves its head into the bounded channel (`Moved`), the instance applies it
(`UpdateEffect`), and a restart throws away what was in the channel and starts from
the event, behind which the queue leads again (`StartRuns`). `calculate_events` goes through hash maps in any order, so of a report
the lemmas use only that each of its changes says what the new block has, and that a
name it leaves out is the same in both (`Reports`).

**Session.** `OneMoreSession` is an action property: the places of a task have an order
(`Rank`), asleep, connecting, waiting for the ack, established, ended, and no step takes a
told task back, because a failure after being told ends it. The invariant it needs is that
the current task is not told: a restart would start it again. The proof needs
nothing of the server, the connections or the number of faults.

`Accounted`, `DataChannelsOwned` and `TypeOK` rest on an invariant of each session (`Sound`) and one of their owners
(`Owned`). `Sound` has, besides the sum of `Accounted`, that the sum never exceeds
`PoolSize` (which bounds every counter, and without which `TypeOK` is not inductive),
that nothing happens to a session before its auth is read (`Early`), that the commands
behind the first answer are all CreateDataChannel, and that without a client no data
channel has a client's end (`Waiting`). There is one lemma per record that a step
can make of a session. `Owned` says that an open session belongs to one task, which
waits for its ack or is established, and that before the ack no data channel exists: so
no step of the server may give one to a client that has not asked (`Good`).
`DataChannelsOwned` then follows: a data channel with a client's end is in an open
session, its owner exists, and is past the ack. `PoolSize`, the number of tasks, of
sessions and of faults are arbitrary, and the restarts of both sides are among the steps.

`Settled` needs more, for a session must not be left where nobody would see that it is
over. `Attended` says that the two ends of every session agree on how far it has come: the
server's end is open while its control task runs, its tasks start with the handshake, and a
client without an answer still has its auth under way (`Paired`); what nobody can see any
more was forgotten (`Kept`); a task that waits for its ack finds an answer before any
command, and finds one if the session runs (`Unanswered`); one that is established finds only
commands (`Answered`); and the pool that has the address runs. It is inductive together with
`IInv` and `Linked`. At rest no disjunct of `Busy` holds, and the lemmas go through the parts one
by one: the sessions that are over (`PoolEndAtRest`, `DropAtRest`, `LeftAtRest`), the tasks,
which have ended or sit in an established channel with nothing to read (`TaskAtRest`), the
session of the current task, which is the one in the map (`CurrentAtRest`), and its pool,
which serves unless the sum of `Accounted` says that all data channels are lost, the one in use
has stalled, or a pool is held, this one or another that keeps the address (`ServiceAtRest`). `RestRecovers` turns this into the liveness
properties: a service that does not recover would have to be busy for ever. It assumes that
some session record stays free in the end (`<>[](Unused # {})`): the code allocates a
connection when it needs one, the model has a fixed number.

**Heartbeat.** `Awaited` relates the timers: while the server is there, the client's
wait is bounded by the interval, a delay and the age of the oldest command, or, with
nothing on the wire, by what the server's timer shows. `Leftover` bounds what is on the
wire after the server fell silent; `Ordered` says the oldest command comes first.

Only model-checked: liveness, which under fairness is beyond what TLAPS can prove
(`VisitorsServed`, `DropEndsTasks`, `ChunksSettle`, `CloseWakesReader`, `LockGranted`,
`ShutdownCompletes`, `AllEnd`, `EditsHandled`, `ShutdownEnds`, `ComesToRest`; `Recovers`
and `ToldEnds` are proved from it). Every other property of a passing run is proved.

## What is not modelled

- Contents: packets, tokens, digests, encryption. Authentication succeeds or
  fails. Framing (`protocol.rs`) is sequential code over bytes; a message is read
  whole, fails, or is written.
- TOML syntax, which is the toml crate's, and `is_port_allowed`, which compares
  numbers: the visitor handshake is modelled with either answer.
- Datagrams in `UdpPool`: it is about tasks and sessions. A datagram matters there when a
  read or write of it does not end (`BodyBlocks`), or is lost for good (`ChunkForgotten`). `UdpForwarder` has the
  datagrams of the client's end.
- Several streams of one UDP listener. They share the socket and nothing else of
  interest: each packet goes to the stream of its id.
- TCP and Noise transports, proxies, socket options, the command line: wrappers.
- Delete in the server searches its services by name; `ConfigWatcher` models that,
  `ControlChannels`, whose services are digests, does not.
- An edit between the first read of the file and the start of the watch is not
  seen until the next edit; `Applied` excepts it.

## Plan

Every component with state of its own is modelled. Left, in order:

1. `ControlChannels` with services that have a name and a user, so that Delete's
   search by name is in the same module as the locks.
2. What the connecting end reads when the listener has created a second stream
   under its id. It would need an identity for streams in `written` and `got`.
