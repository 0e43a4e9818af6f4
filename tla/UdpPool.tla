------------------------------- MODULE UdpPool -------------------------------
(***************************************************************************)
(* The server's side of a UDP service (server.rs): the control and visitor *)
(* handshakes, the place of the service in control_channels, and the two   *)
(* tasks ControlChannelHandle::new spawns for each session, the control    *)
(* channel and run_udp_connection_pool.                                    *)
(*                                                                         *)
(* Nothing watches the sessions: the control channel of a session ends by  *)
(* a failed write, by the drop of its handle or by the end of its pool,    *)
(* which holds the only sender of data channel requests.                   *)
(***************************************************************************)
EXTENDS SessionLinks

VARIABLES
  map,   \* the session whose handle control_channels holds, or 0
  addr   \* the session whose pool has bound bind_addr, or 0

server == <<map, addr>>

PoolTypeOK ==
  /\ map \in Conns \cup {0}
  /\ addr \in Conns \cup {0}

PoolInit ==
  /\ map = 0
  /\ addr = 0

\* The handle was made, and dropped again.
HandleDropped(c) == conns[c].handshake = "done" /\ map # c
-----------------------------------------------------------------------------
(* The handshake *)

\* The auth has come; read_auth waits for it without a limit.
AuthArrives(c) ==
  /\ conns[c].handshake = "none"
  /\ Arrives(conns[c], conns[c].up, "auth")

\* handle_hot_reload: Add and Delete drop the handle of the service; as long as
\* it is deleted its handshakes are refused.  No change names the digest of a
\* visitor channel.
ReloadService ==
  /\ ~visitor /\ map # 0
  /\ map' = 0
  /\ UNCHANGED <<visitor, conns, addr>>

\* The handshake fails: the connection is dropped.
Failing(s) == [s EXCEPT !.up = <<>>, !.send = "closed", !.handshake = "failed"]

\* Mutant: the loop that requests data channels stops one early.
NewHandleOneLess(s, handshake) ==
  [s EXCEPT !.up = <<>>, !.send = "open", !.handshake = handshake,
            !.ctrl = "run", !.reqs = PoolSize - 1, !.pool = "bind"]

\* ControlChannelHandle::new
NewHandle(s, handshake) ==
  [s EXCEPT !.up = <<>>, !.send = "open", !.handshake = handshake,
            !.ctrl = "run", !.reqs = PoolSize, !.pool = "bind"]

\* Mutant: a service that has a handle is not taken over.
ReadAuthOnce(c) ==
  /\ ~visitor
  /\ AuthArrives(c)
  /\ \/ /\ map = 0
        /\ Becomes(c, ToClient(NewHandle(conns[c], "done"), <<"ack">>))
        /\ map' = c
     \/ /\ map # 0 \/ WriteFails(conns[c])
        /\ Becomes(c, Failing(conns[c]))
        /\ UNCHANGED map
  /\ UNCHANGED <<visitor, addr>>

\* do_control_channel_handshake: the old handle goes, the ack is sent, the
\* new handle comes, all under the write lock.
ReadAuth(c) ==
  /\ ~visitor
  /\ AuthArrives(c)
  /\ \/ /\ Becomes(c, ToClient(NewHandle(conns[c], "done"), <<"ack">>))
        /\ map' = c
     \/ /\ WriteFails(conns[c])
        /\ Becomes(c, Failing(conns[c]))
        /\ map' = 0
  /\ UNCHANGED <<visitor, addr>>

\* do_visitor_channel_handshake: the tasks start before the lock is asked.
ReadVisitorAuth(c) ==
  /\ visitor
  /\ AuthArrives(c)
  /\ \/ Becomes(c, ToClient(NewHandle(conns[c], "insert"), <<"ack">>))
     \/ /\ WriteFails(conns[c])
        /\ Becomes(c, Failing(conns[c]))
  /\ UNCHANGED <<visitor, server>>

InsertVisitor(c) ==
  /\ conns[c].handshake = "insert"
  /\ Becomes(c, [conns[c] EXCEPT !.handshake = "done"])
  /\ map' = c
  /\ UNCHANGED <<visitor, addr>>

\* ServiceNotExist, AuthFailed, PortDenied or BindError.
Refuse(c) ==
  /\ AuthArrives(c)
  /\ Becomes(c, Failing(ToClient(conns[c], <<"refused">>)))
  /\ UNCHANGED <<visitor, server>>

\* get2 finds the handle of the session, and its pool still receives.
Known(c) ==
  /\ map = c /\ conns[c].handshake = "done"
  /\ conns[c].pool # "done"

\* do_data_channel_handshake: a data channel without a session is dropped.
ReadDataHello(c) ==
  /\ conns[c].opening > 0
  /\ \/ /\ Known(c)
        /\ Becomes(c, [conns[c] EXCEPT !.opening = @ - 1, !.queued = @ + 1])
     \/ /\ ~Known(c)
        /\ Becomes(c, [conns[c] EXCEPT !.opening = @ - 1, !.lost = @ + 1])
  /\ UNCHANGED <<visitor, server>>
-----------------------------------------------------------------------------
(* ControlChannel::run *)

\* The task ends and drops the connection and the requests.
CtrlEnd(c) ==
  /\ Becomes(c, [conns[c] EXCEPT !.ctrl = "done", !.send = "closed",
                                 !.reqs = 0, !.lost = @ + conns[c].reqs])
  /\ UNCHANGED <<visitor, server>>

\* A request is written as CreateDataChannel.
WriteCreate(c) ==
  /\ conns[c].ctrl = "run" /\ conns[c].reqs > 0
  /\ conns[c].link # "broken"
  /\ LET taken == [conns[c] EXCEPT !.reqs = @ - 1]
     IN Becomes(c, IF Heard(taken) THEN ToClient(taken, <<"create">>)
                   ELSE [taken EXCEPT !.lost = @ + 1])
  /\ UNCHANGED <<visitor, server>>

\* A request or a heartbeat cannot be written.
WriteCmdFails(c) ==
  /\ conns[c].ctrl = "run"
  /\ WriteFails(conns[c])
  /\ CtrlEnd(c)

\* data_ch_req_rx.recv() is None: the pool has dropped its sender.
RequestsEnd(c) ==
  /\ conns[c].ctrl = "run" /\ conns[c].reqs = 0
  /\ conns[c].pool = "done"
  /\ CtrlEnd(c)

\* shutdown_rx: the handle was dropped.
CtrlShutdown(c) ==
  /\ conns[c].ctrl = "run"
  /\ HandleDropped(c)
  /\ CtrlEnd(c)
-----------------------------------------------------------------------------
(* run_udp_connection_pool *)

\* The task ends: the socket, data_ch_rx and the data channel are dropped.
PoolEnd(c) ==
  /\ Becomes(c, [conns[c] EXCEPT !.pool = "done", !.queued = 0, !.stale = 0,
                                 !.used = "none"])
  /\ addr' = IF addr = c THEN 0 ELSE addr
  /\ UNCHANGED <<visitor, map>>

\* retry_notify_with_deadline: bind succeeds once the address is free.
Bind(c) ==
  /\ conns[c].pool = "bind" /\ addr = 0
  /\ Becomes(c, [conns[c] EXCEPT !.pool = "recv"])
  /\ addr' = c
  /\ UNCHANGED <<visitor, map>>

\* ... or the shutdown is seen between two attempts.
BindShutdown(c) ==
  /\ conns[c].pool = "bind" /\ HandleDropped(c)
  /\ PoolEnd(c)

\* data_ch_rx gives a data channel and StartForwardUdp is written.  Whether the
\* client ever reads it is the transport's matter: ChunkForgotten of Session.
TakeDataChannel(c) ==
  /\ conns[c].pool = "recv"
  /\ \/ /\ conns[c].queued > 0
        /\ Becomes(c, [conns[c] EXCEPT !.pool = "serve", !.queued = @ - 1,
                                       !.used = "live"])
     \/ /\ conns[c].stale > 0
        /\ Becomes(c, [conns[c] EXCEPT !.pool = "serve", !.stale = @ - 1,
                                       !.used = "dead"])
  /\ UNCHANGED <<visitor, server>>

\* ... the write of the command fails,
TakeStale(c) ==
  /\ conns[c].pool = "recv" /\ conns[c].stale > 0
  /\ PoolEnd(c)

\* ... or data_ch_rx is closed: the handle, which has its sender, is gone.
NoDataChannel(c) ==
  /\ conns[c].pool = "recv" /\ conns[c].queued = 0 /\ conns[c].stale = 0
  /\ HandleDropped(c)
  /\ PoolEnd(c)

\* The loop forwards datagrams, which leaves this state as it is.  The body of a
\* branch does not see the shutdown, and may never end while the data channel
\* lives: write_slice when the client does not read, or when the writer of the
\* UDP transport is not woken (UdpStream, ParkedWriter); UdpTraffic::read when
\* the rest of a frame does not come.
BodyBlocks(c) ==
  /\ conns[c].pool = "serve" /\ conns[c].used \in {"live", "stalled", "deaf"}
  /\ Becomes(c, [conns[c] EXCEPT !.pool = "body"])
  /\ UNCHANGED <<visitor, server>>

\* A read or a write of the data channel fails.
DataChannelFails(c) ==
  /\ conns[c].pool \in {"serve", "body"} /\ conns[c].used = "dead"
  /\ PoolEnd(c)

\* recv_from or send_to of the bound socket fails.
SocketFails(c) ==
  /\ conns[c].pool = "serve"
  /\ PoolEnd(c)

\* The select sees the shutdown.
PoolShutdown(c) ==
  /\ conns[c].pool = "serve" /\ HandleDropped(c)
  /\ PoolEnd(c)
=============================================================================
