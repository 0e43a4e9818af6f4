--------------------------- MODULE ConnectionPool ---------------------------
(***************************************************************************)
(* One TCP service of the server, from ControlChannelHandle::new to the    *)
(* end of its tasks (server.rs): the listener task that accepts visitors   *)
(* (tcp_listen_and_send), the pool task that pairs each visitor with a     *)
(* data channel (run_tcp_connection_pool), the control task that turns     *)
(* requests into CreateDataChannel commands (ControlChannel::run), the     *)
(* handshakes that put data channels into data_ch, and the client as far   *)
(* as it answers commands.                                                 *)
(*                                                                         *)
(* Queues hold interchangeable items, so each is a counter.                *)
(***************************************************************************)
EXTENDS Naturals

CONSTANTS
  PoolSize,     \* TCP_POOL_SIZE, data channels requested in advance
  ChanSize,     \* CHAN_SIZE, capacity of the visitor channel
  MaxVisitors,  \* bound: visitors that connect to the service
  MaxBroken     \* bound: data channels found broken by the pool

ASSUME PoolAssumption ==
  /\ PoolSize \in Nat \ {0}
  /\ ChanSize \in Nat \ {0}
  /\ PoolSize + 2 <= ChanSize
  /\ MaxVisitors \in Nat
  /\ MaxBroken \in Nat

VARIABLES
  handle,     \* the ControlChannelHandle is in the map, or was dropped from it
  ctrl,       \* the control task
  listener,   \* the listener task
  pool,       \* the pool task
  reqs,       \* the unbounded channel data_ch_req
  cmds,       \* CreateDataChannel commands on the control connection
  opening,    \* data channels the client is opening
  sending,    \* handshakes in data_ch_tx.send, holding the map's read lock
  data_ch,    \* the channel of data channels, capacity 2 * CHAN_SIZE
  visitors,   \* the channel of visitors, capacity CHAN_SIZE
  client,     \* the client's end of the control connection
  accepted,   \* visitors accepted so far
  broken,     \* data channels found broken so far
  lost        \* commands that will never yield a data channel

tasks == <<ctrl, listener, pool>>
vars == <<handle, tasks, reqs, cmds, opening, sending, data_ch, visitors,
          client, accepted, broken, lost>>

DataChanSize == 2 * ChanSize

TypeOK ==
  /\ handle \in {"live", "dropped"}
  /\ ctrl \in {"run", "done"}
  /\ listener \in {"bind", "accept", "send", "done"}
  /\ pool \in {"recv", "take", "done"}
  /\ reqs \in Nat
  /\ cmds \in Nat
  /\ opening \in Nat
  /\ sending \in Nat
  /\ data_ch \in 0..DataChanSize
  /\ visitors \in 0..ChanSize
  /\ client \in {"up", "down"}
  /\ accepted \in 0..MaxVisitors
  /\ broken \in 0..MaxBroken
  /\ lost \in Nat

\* ControlChannelHandle::new has queued the requests that fill the pool and
\* spawned the tasks; the handle is in the map.
Init ==
  /\ handle = "live"
  /\ ctrl = "run"
  /\ listener = "bind"
  /\ pool = "recv"
  /\ reqs = PoolSize
  /\ cmds = 0
  /\ opening = 0
  /\ sending = 0
  /\ data_ch = 0
  /\ visitors = 0
  /\ client = "up"
  /\ accepted = 0
  /\ broken = 0
  /\ lost = 0
-----------------------------------------------------------------------------
(* The listener task.  A failed bind or accept is retried after a sleep and *)
(* changes nothing.                                                         *)

Bind ==
  /\ listener = "bind"
  /\ listener' = "accept"
  /\ UNCHANGED <<handle, ctrl, pool, reqs, cmds, opening, sending, data_ch,
                 visitors, client, accepted, broken, lost>>

\* Mutant: two data channels are requested for a visitor.
AcceptTwice ==
  /\ listener = "accept"
  /\ ctrl = "run"
  /\ accepted < MaxVisitors
  /\ accepted' = accepted + 1
  /\ reqs' = reqs + 2
  /\ listener' = "send"
  /\ UNCHANGED <<handle, ctrl, pool, cmds, opening, sending, data_ch,
                 visitors, client, broken, lost>>

\* A visitor connects.  Its data channel is requested before the visitor is
\* queued; the request fails when the control task is gone.
Accept ==
  /\ listener = "accept"
  /\ accepted < MaxVisitors
  /\ accepted' = accepted + 1
  /\ \/ /\ ctrl = "run"
        /\ reqs' = reqs + 1
        /\ listener' = "send"
     \/ /\ ctrl = "done"
        /\ listener' = "done"
        /\ UNCHANGED reqs
  /\ UNCHANGED <<handle, ctrl, pool, cmds, opening, sending, data_ch,
                 visitors, client, broken, lost>>

\* Mutant: the queue of visitors has no limit.
SendVisitorUnbounded ==
  /\ listener = "send"
  /\ visitors' = IF pool # "done" THEN visitors + 1 ELSE visitors
  /\ listener' = "accept"
  /\ UNCHANGED <<handle, ctrl, pool, reqs, cmds, opening, sending, data_ch,
                 client, accepted, broken, lost>>

\* tx.send(incoming).await: waits for room, and fails once the pool is gone.
SendVisitor ==
  /\ listener = "send"
  /\ \/ /\ pool # "done"
        /\ visitors < ChanSize
        /\ visitors' = visitors + 1
     \/ /\ pool = "done"
        /\ UNCHANGED visitors
  /\ listener' = "accept"
  /\ UNCHANGED <<handle, ctrl, pool, reqs, cmds, opening, sending, data_ch,
                 client, accepted, broken, lost>>

\* Mutant: the shutdown channel is watched while binding only.
ListenerShutdownBinding ==
  /\ listener = "bind"
  /\ handle = "dropped"
  /\ listener' = "done"
  /\ UNCHANGED <<handle, ctrl, pool, reqs, cmds, opening, sending, data_ch,
                 visitors, client, accepted, broken, lost>>

\* The shutdown channel is watched while binding and while accepting, not
\* while a visitor is being queued.
ListenerShutdown ==
  /\ listener \in {"bind", "accept"}
  /\ handle = "dropped"
  /\ listener' = "done"
  /\ UNCHANGED <<handle, ctrl, pool, reqs, cmds, opening, sending, data_ch,
                 visitors, client, accepted, broken, lost>>
-----------------------------------------------------------------------------
(* The pool task *)

\* The task ends and drops both receivers with what they hold.
PoolEnd ==
  /\ pool' = "done"
  /\ visitors' = 0
  /\ data_ch' = 0

\* visitor_rx.recv(): a visitor, or None once the listener is gone.
PoolRecv ==
  /\ pool = "recv"
  /\ \/ /\ visitors > 0
        /\ visitors' = visitors - 1
        /\ pool' = "take"
        /\ UNCHANGED data_ch
     \/ /\ visitors = 0
        /\ listener = "done"
        /\ PoolEnd
  /\ UNCHANGED <<handle, ctrl, listener, reqs, cmds, opening, sending,
                 client, accepted, broken, lost>>

\* The StartForwardTcp command is written: the pair is forwarded.
PoolForward ==
  /\ pool = "take"
  /\ data_ch > 0
  /\ data_ch' = data_ch - 1
  /\ pool' = "recv"
  /\ UNCHANGED <<handle, ctrl, listener, reqs, cmds, opening, sending,
                 visitors, client, accepted, broken, lost>>

\* Mutant: a broken data channel is not replaced.
PoolBrokenNoRequest ==
  /\ pool = "take"
  /\ data_ch > 0
  /\ broken < MaxBroken
  /\ broken' = broken + 1
  /\ data_ch' = data_ch - 1
  /\ UNCHANGED <<handle, tasks, reqs, visitors, cmds, opening, sending, client,
                 accepted, lost>>

\* The write fails: another data channel is requested for the same visitor,
\* or the pool ends when the control task is gone.
PoolBroken ==
  /\ pool = "take"
  /\ data_ch > 0
  /\ broken < MaxBroken
  /\ broken' = broken + 1
  /\ \/ /\ ctrl = "run"
        /\ reqs' = reqs + 1
        /\ data_ch' = data_ch - 1
        /\ UNCHANGED <<pool, visitors>>
     \/ /\ ctrl = "done"
        /\ PoolEnd
        /\ UNCHANGED reqs
  /\ UNCHANGED <<handle, ctrl, listener, cmds, opening, sending, client,
                 accepted, lost>>

\* data_ch_rx.recv() is None: the handle, the only sender, is gone and the
\* channel is drained.
PoolClosed ==
  /\ pool = "take"
  /\ data_ch = 0
  /\ handle = "dropped"
  /\ PoolEnd
  /\ UNCHANGED <<handle, ctrl, listener, reqs, cmds, opening, sending,
                 client, accepted, broken, lost>>
-----------------------------------------------------------------------------
(* The control task.  A write to a client that is gone fails sooner or      *)
(* later; until then it succeeds and the command is lost.                   *)

CtrlRequest ==
  /\ ctrl = "run"
  /\ reqs > 0
  /\ reqs' = reqs - 1
  /\ \/ /\ client = "up"
        /\ cmds' = cmds + 1
        /\ UNCHANGED lost
     \/ /\ client = "down"
        /\ lost' = lost + 1
        /\ UNCHANGED cmds
  /\ UNCHANGED <<handle, tasks, opening, sending, data_ch, visitors, client,
                 accepted, broken>>

\* The task ends and drops the requests it has not read.
CtrlDone ==
  /\ ctrl' = "done"
  /\ reqs' = 0
  /\ lost' = lost + reqs
  /\ UNCHANGED <<handle, listener, pool, cmds, opening, sending, data_ch,
                 visitors, client, accepted, broken>>

\* A command or a heartbeat cannot be written.
CtrlBroken ==
  /\ ctrl = "run"
  /\ client = "down"
  /\ CtrlDone

\* No request can come any more, or the handle was dropped.
CtrlShutdown ==
  /\ ctrl = "run"
  /\ \/ reqs = 0 /\ listener = "done" /\ pool = "done"
     \/ handle = "dropped"
  /\ CtrlDone
-----------------------------------------------------------------------------
(* The client and the data channel handshakes *)

\* ControlChannel::run of the client spawns run_data_channel.
ClientCreate ==
  /\ client = "up"
  /\ cmds > 0
  /\ cmds' = cmds - 1
  /\ opening' = opening + 1
  /\ UNCHANGED <<handle, tasks, reqs, sending, data_ch, visitors, client,
                 accepted, broken, lost>>

\* The client cannot connect within its 10 seconds, or the connection dies
\* before its hello is read.  Nobody asks for another one.
OpenFails ==
  /\ opening > 0
  /\ opening' = opening - 1
  /\ lost' = lost + 1
  /\ UNCHANGED <<handle, tasks, reqs, cmds, sending, data_ch, visitors,
                 client, accepted, broken>>

\* do_data_channel_handshake finds the nonce in the map and starts to send
\* the connection with the read lock held; or the nonce is gone.
HandshakeData ==
  /\ opening > 0
  /\ opening' = opening - 1
  /\ \/ /\ handle = "live"
        /\ sending' = sending + 1
        /\ UNCHANGED lost
     \/ /\ handle = "dropped"
        /\ lost' = lost + 1
        /\ UNCHANGED sending
  /\ UNCHANGED <<handle, tasks, reqs, cmds, data_ch, visitors, client,
                 accepted, broken>>

\* data_ch_tx.send(conn).await completes and the read lock is released.  It
\* fails when the pool is gone.
SendData ==
  /\ sending > 0
  /\ sending' = sending - 1
  /\ \/ /\ pool # "done"
        /\ data_ch < DataChanSize
        /\ data_ch' = data_ch + 1
        /\ UNCHANGED lost
     \/ /\ pool = "done"
        /\ lost' = lost + 1
        /\ UNCHANGED data_ch
  /\ UNCHANGED <<handle, tasks, reqs, cmds, opening, visitors, client,
                 accepted, broken>>

\* The client crashes, is shut down, or gives up on a missing heartbeat; the
\* commands it has not read are lost.
ClientDown ==
  /\ client = "up"
  /\ client' = "down"
  /\ cmds' = 0
  /\ lost' = lost + cmds
  /\ UNCHANGED <<handle, tasks, reqs, opening, sending, data_ch, visitors,
                 accepted, broken>>

\* The server removes the handle (a new control channel for the service, a
\* hot reload, a shutdown), which takes the map's write lock.
DropHandle ==
  /\ handle = "live"
  /\ sending = 0
  /\ handle' = "dropped"
  /\ UNCHANGED <<tasks, reqs, cmds, opening, sending, data_ch, visitors,
                 client, accepted, broken, lost>>
-----------------------------------------------------------------------------
Next ==
  \/ Bind \/ Accept \/ SendVisitor \/ ListenerShutdown
  \/ PoolRecv \/ PoolForward \/ PoolBroken \/ PoolClosed
  \/ CtrlRequest \/ CtrlBroken \/ CtrlShutdown
  \/ ClientCreate \/ OpenFails \/ HandshakeData \/ SendData
  \/ ClientDown \/ DropHandle

Spec == Init /\ [][Next]_vars

\* Every task that can go on does.  A data channel that is being opened is
\* either handed over or given up.  Nothing makes visitors arrive, clients
\* fail, data channels break or handles disappear.
FairSpec ==
  /\ Spec
  /\ WF_vars(SendVisitor) /\ WF_vars(ListenerShutdown)
  /\ WF_vars(PoolRecv \/ PoolForward \/ PoolBroken \/ PoolClosed)
  /\ WF_vars(CtrlRequest) /\ WF_vars(CtrlShutdown)
  /\ WF_vars(ClientCreate)
  /\ WF_vars(HandshakeData \/ OpenFails)
  /\ WF_vars(SendData)
-----------------------------------------------------------------------------
(* Properties *)

\* Visitors accepted by the listener and not yet paired with a data channel.
Waiting ==
  visitors + (IF listener = "send" THEN 1 ELSE 0)
           + (IF pool = "take" THEN 1 ELSE 0)

\* Data channels on their way to the pool, or in it.
Promised == reqs + cmds + opening + sending + data_ch

\* While the pool runs, the data channels requested in advance and one per
\* waiting visitor are all accounted for: queued, being created, pooled, or
\* lost on the way.  Neither a broken data channel (run_tcp_connection_pool)
\* nor a visitor accepted while others wait (tcp_listen_and_send) changes
\* the balance.
Conservation ==
  pool # "done" => Promised + lost = PoolSize + Waiting

\* do_data_channel_handshake holds the read lock of the control channel map
\* across data_ch_tx.send(conn).await.  That send never finds the channel
\* full, so no handshake and no hot reload waits behind it for the lock.
NeverFullUnderLock ==
  sending > 0 /\ pool # "done" => data_ch < DataChanSize

\* As long as the client and the handle live and fewer data channels were
\* lost than are kept in advance, every visitor the listener accepted is
\* paired with a data channel.
VisitorsServed ==
  Waiting > 0 ~> \/ Waiting = 0
                 \/ client = "down"
                 \/ handle = "dropped"
                 \/ lost >= PoolSize

\* Dropping the handle ends the three tasks, whatever each was waiting for:
\* "Shutdown the control channel by dropping it" (ControlChannelHandle).
DropEndsTasks ==
  handle = "dropped" ~> tasks = <<"done", "done", "done">>
=============================================================================
