------------------------------- MODULE Session -------------------------------
(***************************************************************************)
(* A UDP service from end to end: the client of ClientService, the server  *)
(* of UdpPool, and what may go wrong between them and on either side.      *)
(***************************************************************************)
EXTENDS ClientService, UdpPool

CONSTANT MaxEvents  \* bound: reloads and faults, one less in visitor mode

ASSUME EventsAssumption == MaxEvents \in Nat \ {0}

VARIABLE events

vars == <<visitor, conns, client, server, events>>

TypeOK ==
  /\ LinksTypeOK
  /\ ClientTypeOK
  /\ PoolTypeOK
  /\ events \in 0..MaxEvents

Init ==
  /\ LinksInit
  /\ ClientInit
  /\ PoolInit
  /\ events = IF visitor THEN 1 ELSE 0

\* Where a new connection goes.
Unused == {c \in Conns : conns[c] = Blank}
-----------------------------------------------------------------------------
(* Faults *)

\* A control connection breaks, or falls silent.
LinkFails(c) ==
  /\ conns[c].cend = "open" /\ conns[c].link = "ok"
  /\ \E l \in {"broken", "silent"} : Becomes(c, [conns[c] EXCEPT !.link = l])
  /\ UNCHANGED <<visitor, client, server>>

\* A data channel breaks, or is silent for too long.
DataLinkFails(c) ==
  /\ \/ /\ conns[c].queued > 0
        /\ Becomes(c, [conns[c] EXCEPT !.queued = @ - 1, !.stale = @ + 1])
     \/ /\ conns[c].used \in {"live", "stalled", "deaf"}
        /\ Becomes(c, [conns[c] EXCEPT !.used = "dead"])
  /\ UNCHANGED <<visitor, client, server>>

\* The sender of a chunk that was lost forgets it (get_retransmissions, Udp
\* mode), and what follows it is never read, on a data channel that stays open:
\* the client that waits for StartForwardUdp in read_data_cmd, or for a packet,
\* waits for ever.
ChunkForgotten(c) ==
  /\ conns[c].used = "live"
  /\ Becomes(c, [conns[c] EXCEPT !.used = "stalled"])
  /\ UNCHANGED <<visitor, client, server>>

\* The client's process ends and is started again.
ClientCrashes ==
  /\ pc' = [t \in Tasks |-> IF t = current THEN "connect"
                            ELSE IF t > spawned THEN "none" ELSE "ended"]
  /\ conn' = [t \in Tasks |-> 0]
  /\ conns' = [c \in Conns |->
       IF conns[c].cend = "none" THEN conns[c]
       ELSE Forget([Abandoned(conns[c], "dead") EXCEPT
                      !.used = IF @ = "deaf" THEN "dead" ELSE @])]
  /\ UNCHANGED <<visitor, handles, server>>

\* The server's process ends and is started again.
ServerCrashes ==
  /\ conns' = [c \in Conns |->
       Forget([Blank EXCEPT
                 !.link = IF conns[c].cend = "open" THEN "broken" ELSE "ok",
                 !.cend = conns[c].cend,
                 !.send = "closed",
                 !.opening = conns[c].opening])]
  /\ map' = 0
  /\ addr' = 0
  /\ UNCHANGED <<visitor, client>>

\* A reload or a fault.
Event ==
  /\ events < MaxEvents
  /\ events' = events + 1
  /\ \/ UNCHANGED server /\ (AddService \/ RemoveService)
     \/ \E t \in Tasks : UNCHANGED server /\ ConnectFails(t)
     \/ \E c \in Conns : UNCHANGED server /\ OpenFails(c)
     \/ \E c \in Conns : UNCHANGED client /\ (Refuse(c) \/ SocketFails(c))
     \/ UNCHANGED client /\ ReloadService
     \/ \E c \in Conns : LinkFails(c) \/ DataLinkFails(c) \/ ChunkForgotten(c)
     \/ ClientCrashes
     \/ ServerCrashes

\* TCP keepalive, or the timers of UdpStream, end a silent connection.
SilenceEnds(c) ==
  /\ conns[c].link = "silent"
  /\ Becomes(c, [conns[c] EXCEPT !.link = "broken"])
  /\ UNCHANGED <<visitor, client, server, events>>
-----------------------------------------------------------------------------
(* The steps of the two sides *)

\* What either side does as soon as it can.
ClientStep ==
  /\ UNCHANGED <<server, events>>
  /\ \/ \E t \in Tasks : TaskStep(t)
     \/ \E t \in Tasks : Unused # {} /\ Connect(t, CHOOSE c \in Unused : TRUE)

ServerStep ==
  /\ UNCHANGED <<client, events>>
  /\ \E c \in Conns :
       \/ ReadAuth(c) \/ ReadVisitorAuth(c) \/ InsertVisitor(c)
       \/ ReadDataHello(c)
       \/ WriteCreate(c) \/ WriteCmdFails(c) \/ RequestsEnd(c)
       \/ CtrlShutdown(c)
       \/ Bind(c) \/ BindShutdown(c) \/ TakeDataChannel(c) \/ TakeStale(c)
       \/ NoDataChannel(c) \/ DataChannelFails(c) \/ PoolShutdown(c)

\* What depends on the traffic of the visitors and of the local service.
Traffic ==
  /\ \E c \in Conns :
       \/ UNCHANGED client /\ BodyBlocks(c)
       \/ UNCHANGED server /\ ForwardersEnd(c)
  /\ UNCHANGED events

Next ==
  \/ ClientStep
  \/ ServerStep
  \/ Traffic
  \/ Event
  \/ \E c \in Conns : SilenceEnds(c)

Spec == Init /\ [][Next]_vars

\* One of the tasks that can go on does, and a silent connection ends.
FairSpec ==
  /\ Spec
  /\ WF_vars(ClientStep \/ ServerStep \/ \E c \in Conns : SilenceEnds(c))
-----------------------------------------------------------------------------
(* Properties *)

\* The way of a task through one attempt.
Rank == [none |-> 0, backoff |-> 1, connect |-> 2, ack |-> 3, serve |-> 4, ended |-> 5]

\* A task whose handle was dropped or told never goes back: whatever the server,
\* the network, a reload or a restart does, it makes one more connection at
\* most, for the attempt it was about to make, since after it try_recv or the
\* select sees the signal (client.rs, ControlChannelHandle::new).  That
\* connection can still displace the session of the task that replaced it.
OneMoreSession == [][\A t \in told : Rank[pc[t]] <= Rank[pc'[t]]]_vars

\* The data channels that a session's first requests have come to: not yet
\* written, written as CreateDataChannel and not read, being opened, waiting in
\* data_ch with or without a client's end, lost, or in use.
Coming(s) ==
  IF s.down = <<>> \/ Head(s.down) = "create" THEN Len(s.down) ELSE Len(s.down) - 1

InUse(s) == IF s.pool \in {"serve", "body"} THEN 1 ELSE 0

Requested(s) ==
  s.reqs + Coming(s) + s.opening + s.queued + s.stale + s.lost + InUse(s)

\* While the client has its end and the pool runs, the data channels are
\* UDP_POOL_SIZE, whatever was lost, refused or broken on the way: none is
\* requested twice and none disappears (ControlChannelHandle::new requests
\* them, run_udp_connection_pool asks for no other).  So a pool waits in vain
\* only if every one of them was lost.
Accounted ==
  \A c \in Conns :
    conns[c].cend = "open" /\ conns[c].pool \notin {"none", "done"} =>
      Requested(conns[c]) = PoolSize

\* Data channels end with the control channel that opened them, whatever ends
\* it (client.rs, cancel_tx): one that is being opened, waits in the server's
\* data_ch or carries datagrams belongs to a task in its established channel.
DataChannelsOwned ==
  \A c \in Conns :
    (\/ conns[c].opening > 0 \/ conns[c].queued > 0
     \/ conns[c].used \in {"live", "stalled"}) =>
      \E t \in Tasks : conn[t] = c /\ pc[t] = "serve"

\* The pool waits for a data channel that no one will open: the session lost
\* them all, and nobody asks for another.
Starved ==
  /\ map # 0
  /\ conns[map].cend = "open" /\ conns[map].link = "ok"
  /\ conns[map].pool = "recv" /\ conns[map].lost = PoolSize

\* The data channel in use is open and carries nothing: a chunk of it was lost
\* for good, StartForwardUdp perhaps.
Stalled ==
  /\ map # 0
  /\ conns[map].cend = "open" /\ conns[map].link = "ok"
  /\ conns[map].pool = "serve" /\ conns[map].used = "stalled"

\* A pool hangs in the body of a branch of its select, on a data channel that
\* has not failed, with the address bound.
Held(c) == conns[c].pool = "body" /\ conns[c].used # "dead"

Served ==
  /\ current # 0
  /\ pc[current] = "serve"
  /\ conn[current] = map
  /\ conns[map].pool = "serve"
  /\ conns[map].used = "live"

\* After the last fault and the last reload, a service that is configured is
\* served for good, whatever happened, in which order and to whom: the client
\* retries, the server replaces the handle.  The exceptions are the code's: it asks
\* for no second data channel, and looks after none that stays open.
Recovers == <>[](Served \/ current = 0 \/ Starved \/ Stalled \/ \E c \in Conns : Held(c))

\* A task that is told ends (client.rs, "Dropping it will also drop the actual
\* control channel").
ToldEnds == <>[](\A t \in told : pc[t] = "ended")

\* What lets a task of the client, and the server's tasks for a session, take
\* a step.
TaskCan(t) ==
  \/ pc[t] = "connect" /\ Unused # {}
  \/ pc[t] = "backoff"
  \/ pc[t] \in {"ack", "serve"} /\ ReadFails(Mine(t))
  \/ pc[t] = "ack" /\ \E m \in {"ack", "refused"} : Arrives(Mine(t), Mine(t).down, m)
  \/ pc[t] = "serve" /\ Arrives(Mine(t), Mine(t).down, "create")
  \/ pc[t] = "serve" /\ (t \in told \/ Mine(t).link = "silent")

CtrlCan(c) ==
  /\ conns[c].ctrl = "run"
  /\ \/ conns[c].reqs > 0 /\ conns[c].link # "broken"
     \/ conns[c].reqs = 0 /\ conns[c].pool = "done"
     \/ WriteFails(conns[c])
     \/ HandleDropped(c)

PoolCan(c) ==
  \/ conns[c].pool = "bind" /\ addr = 0
  \/ conns[c].pool = "recv" /\ (conns[c].queued > 0 \/ conns[c].stale > 0)
  \/ conns[c].pool \in {"serve", "body"} /\ conns[c].used = "dead"
  \/ conns[c].pool \in {"bind", "recv", "serve"} /\ HandleDropped(c)

Busy ==
  \/ \E t \in Tasks : TaskCan(t)
  \/ \E c \in Conns :
       \/ AuthArrives(c) \/ conns[c].handshake = "insert" \/ conns[c].opening > 0
       \/ CtrlCan(c) \/ PoolCan(c)
       \/ conns[c].link = "silent"

\* The two sides come to rest: no retry, and no replaced handle, leads to the
\* next one for ever.
ComesToRest == <>[]~Busy

\* The end of a UDP pool has ended the control channel of its session, so that
\* the client hears of it: the pool owns the last data_ch_req_tx (server.rs).
PoolEndSeen(c) == conns[c].pool = "done" => conns[c].ctrl # "run"

\* The drop of a handle has ended the pool of its session and freed its address
\* (server.rs, "Shutdown the control channel by dropping it"), unless the pool
\* is held by a data channel.
DropSeen(c) == HandleDropped(c) => conns[c].pool \in {"none", "done"} \/ Held(c)

\* Nothing is left of a session without a client, but what keeps its place in
\* control_channels or is held.
NoLeftovers(c) == conns[c] # Blank => conns[c].cend = "open" \/ c = map \/ Held(c)

\* What rest looks like, whatever happened before: the service is served or one
\* of the exceptions of Recovers is met, the tasks that were told have ended,
\* and so have the server's tasks for the sessions that are over.
Settled ==
  ~Busy =>
    /\ \A c \in Conns : PoolEndSeen(c) /\ DropSeen(c) /\ NoLeftovers(c)
    /\ Unused # {} =>
         /\ current = 0 \/ Served \/ Starved \/ Stalled \/ \E c \in Conns : Held(c)
         /\ \A t \in told : pc[t] = "ended"
=============================================================================
