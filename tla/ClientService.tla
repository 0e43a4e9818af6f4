---------------------------- MODULE ClientService ----------------------------
(***************************************************************************)
(* A service of the client (client.rs): Client::run and handle_hot_reload  *)
(* as far as they start and stop it, the task that                         *)
(* ControlChannelHandle::new spawns, which runs the control channel again  *)
(* and again, and ControlChannel::run or VisitorControlChannel::run with   *)
(* the data channels it opens.                                             *)
(*                                                                         *)
(* A task is told to stop by a oneshot channel: by a message, or by the    *)
(* drop of its handle.  It looks there in the select of an established     *)
(* channel and after a failure, not while it connects or sleeps.           *)
(***************************************************************************)
EXTENDS SessionLinks

CONSTANT MaxTasks  \* bound: tasks started for the service

ASSUME TasksAssumption == MaxTasks \in Nat \ {0}

Tasks == 1..MaxTasks
Places == {"none", "connect", "ack", "serve", "backoff", "ended"}

VARIABLES
  spawned,  \* tasks started so far
  current,  \* the task whose handle is in service_handles, or 0
  told,     \* tasks whose shutdown_rx has something to say
  pc,       \* where each task is
  conn      \* its connection, or 0

handles == <<spawned, current, told>>
client == <<handles, pc, conn>>

ClientTypeOK ==
  /\ spawned \in Tasks
  /\ current \in 0..spawned
  /\ told \subseteq 1..spawned
  /\ pc \in [Tasks -> Places]
  /\ conn \in [Tasks -> Conns \cup {0}]

\* Client::run starts every service of the configuration.
ClientInit ==
  /\ spawned = 1
  /\ current = 1
  /\ told = {}
  /\ pc = [t \in Tasks |-> IF t = 1 THEN "connect" ELSE "none"]
  /\ conn = [t \in Tasks |-> 0]

\* The handle that leaves service_handles is dropped or sent the signal.
DropHandle == told' = told \cup ({current} \ {0})
-----------------------------------------------------------------------------
(* The main loop *)

\* ClientServiceChange::Add: a new task, in the place of an old one.
AddService ==
  /\ spawned < MaxTasks
  /\ spawned' = spawned + 1
  /\ current' = spawned'
  /\ DropHandle
  /\ pc' = [pc EXCEPT ![spawned'] = "connect"]
  /\ UNCHANGED <<visitor, conns, conn>>

\* ClientServiceChange::Delete, and the end of Client::run.
RemoveService ==
  /\ current # 0
  /\ current' = 0
  /\ DropHandle
  /\ UNCHANGED <<visitor, conns, spawned, pc, conn>>
-----------------------------------------------------------------------------
(* The task: connect and authenticate *)

Goto(t, to) == pc' = [pc EXCEPT ![t] = to]
Mine(t) == conns[conn[t]]

\* resolve and connect, over a new connection, the exchange of hellos, or the
\* challenge of a visitor channel, and the auth.
Connect(t, c) ==
  /\ pc[t] = "connect"
  /\ Goto(t, "ack")
  /\ conn' = [conn EXCEPT ![t] = c]
  /\ Becomes(c, [Blank EXCEPT !.cend = "open", !.up = <<"auth">>])
  /\ UNCHANGED <<visitor, handles>>

\* read_ack, or read_visitor_ack and the session key.
ReadAck(t) ==
  /\ pc[t] = "ack"
  /\ Arrives(Mine(t), Mine(t).down, "ack")
  /\ Becomes(conn[t], [Mine(t) EXCEPT !.down = Tail(@)])
  /\ Goto(t, "serve")
  /\ UNCHANGED <<visitor, handles, conn>>
-----------------------------------------------------------------------------
(* The task: the established channel *)

\* CreateDataChannel: run_data_channel is spawned.
CreateDataChannel(t) ==
  /\ pc[t] = "serve"
  /\ Arrives(Mine(t), Mine(t).down, "create")
  /\ Becomes(conn[t], [Mine(t) EXCEPT !.down = Tail(@), !.opening = @ + 1])
  /\ UNCHANGED <<visitor, client>>

\* Mutant: a data channel is not cancelled while it is being opened.
AbandonedKeepsOpening(s, carrying) ==
  [s EXCEPT !.cend = "closed", !.queued = 0, !.stale = @ + s.queued,
            !.used = IF @ \in {"live", "stalled"} THEN carrying ELSE @]

\* The client's end of a session is gone: nothing is opened any more, and what
\* waits in data_ch has no one behind it.
Abandoned(s, carrying) ==
  [s EXCEPT !.cend = "closed", !.opening = 0, !.lost = @ + s.opening,
            !.queued = 0, !.stale = @ + s.queued,
            !.used = IF @ \in {"live", "stalled"} THEN carrying ELSE @]

\* run returns: the connection is dropped and cancel_tx ends the data channels.
\* One whose forwarders live on is read no longer, but stays open for writing.
Return(t, to) ==
  /\ Goto(t, to)
  /\ \E carrying \in {"deaf", "dead"} :
       Becomes(conn[t], Abandoned(Mine(t), carrying))
  /\ conn' = [conn EXCEPT ![t] = 0]
  /\ UNCHANGED <<visitor, handles>>

\* Mutant: a failure is retried whatever the handle says.
FailedUnasked(t) == "backoff"

\* Mutant: a failure ends the task.
FailedGivesUp(t) == "ended"

\* run returned an error: the loop of ControlChannelHandle::new asks
\* shutdown_rx before it sleeps.
Failed(t) == IF t \in told THEN "ended" ELSE "backoff"

\* A read or a write fails.
RunFails(t) ==
  /\ pc[t] \in {"ack", "serve"}
  /\ ReadFails(Mine(t))
  /\ Return(t, Failed(t))

\* Any other Ack or VisitorAck is an error of run.
ReadRefusal(t) ==
  /\ pc[t] = "ack"
  /\ Arrives(Mine(t), Mine(t).down, "refused")
  /\ Return(t, Failed(t))

\* No command comes for heartbeat_timeout; Heartbeat says when this is.
HeartbeatTimeout(t) ==
  /\ pc[t] = "serve"
  /\ Mine(t).link = "silent"
  /\ Return(t, Failed(t))

\* Mutant: the signal is seen by a task that fails only.
StopDeaf(t) == FALSE /\ Return(t, "ended")

\* The select sees the shutdown signal.
Stop(t) ==
  /\ pc[t] = "serve"
  /\ t \in told
  /\ Return(t, "ended")

\* transport.connect fails.
ConnectFails(t) ==
  /\ pc[t] = "connect"
  /\ Goto(t, Failed(t))
  /\ UNCHANGED <<visitor, conns, handles, conn>>

\* The sleep of the backoff is over.
Retry(t) ==
  /\ pc[t] = "backoff"
  /\ Goto(t, "connect")
  /\ UNCHANGED <<visitor, conns, handles, conn>>
-----------------------------------------------------------------------------
(* The data channels of a session *)

\* do_data_channel_handshake of the client gives up after 10 seconds.
OpenFails(c) ==
  /\ conns[c].opening > 0
  /\ Becomes(c, [conns[c] EXCEPT !.opening = @ - 1, !.lost = @ + 1])
  /\ UNCHANGED <<visitor, client>>

\* The last forwarder of such a data channel ends.  Nothing says it will: a
\* local service that keeps sending keeps its forwarder.
ForwardersEnd(c) ==
  /\ conns[c].used = "deaf"
  /\ Becomes(c, [conns[c] EXCEPT !.used = "dead"])
  /\ UNCHANGED <<visitor, client>>

TaskStep(t) ==
  \/ ReadAck(t) \/ CreateDataChannel(t) \/ Stop(t) \/ Retry(t)
  \/ ReadRefusal(t) \/ RunFails(t) \/ HeartbeatTimeout(t)
=============================================================================
