---------------------------- MODULE SessionLinks ----------------------------
(***************************************************************************)
(* What a client and a server share for one UDP service: its sessions,     *)
(* each a control connection with the data channels and the server tasks   *)
(* that belong to it, over any of the transports.  ClientService and       *)
(* UdpPool are the two ends; Session puts them together.                   *)
(*                                                                         *)
(* A connection delivers in order.  It can break, which both ends notice,  *)
(* or fall silent, which is noticed only by timers.  Of the handshake only  *)
(* the auth and its answer are messages: the hellos before them, and the   *)
(* session key that follows the answer to a visitor, change nothing at     *)
(* either end, and when they fail the wait for the answer fails.           *)
(***************************************************************************)
EXTENDS Naturals, Sequences

CONSTANTS
  Conns,     \* bound: sessions that exist at a time
  PoolSize   \* UDP_POOL_SIZE, data channels requested in advance

ASSUME LinksAssumption ==
  /\ 0 \notin Conns
  /\ PoolSize \in Nat \ {0}

VARIABLES
  visitor,   \* the service is in visitor mode
  conns      \* the sessions

Sessions ==
  [link : {"ok", "silent", "broken"},          \* the control connection
   cend : {"none", "open", "closed"},          \* the client's end of it
   send : {"none", "open", "closed"},          \* the server's end of it
   up : Seq({"auth"}),                         \* messages to the server
   down : Seq({"ack", "refused", "create"}),   \* messages to the client
   opening : 0..PoolSize,  \* data channels the client is opening
   queued : 0..PoolSize,   \* data channels in the server's data_ch
   stale : 0..PoolSize,    \* the same, without a client's end
   lost : 0..PoolSize,     \* data channels that never reached data_ch
   used : {"none", "live", "stalled", "deaf", "dead"},  \* the pool's data channel
   handshake : {"none", "insert", "done", "failed"},
   ctrl : {"none", "run", "done"},             \* the control channel task
   reqs : 0..PoolSize,     \* data channel requests the task has not taken
   pool : {"none", "bind", "recv", "serve", "body", "done"}]

LinksTypeOK ==
  /\ visitor \in BOOLEAN
  /\ conns \in [Conns -> Sessions]

Blank ==
  [link |-> "ok", cend |-> "none", send |-> "none", up |-> <<>>, down |-> <<>>,
   opening |-> 0, queued |-> 0, stale |-> 0, lost |-> 0, used |-> "none",
   handshake |-> "none", ctrl |-> "none", reqs |-> 0, pool |-> "none"]

LinksInit ==
  /\ visitor \in BOOLEAN
  /\ conns = [c \in Conns |-> Blank]

\* No task of either side is left, and no auth is on its way.
Finished(s) ==
  /\ s.cend # "open" /\ s.opening = 0
  /\ s.up = <<>> \/ s.link # "ok"
  /\ s.handshake \in {"none", "done", "failed"}
  /\ s.ctrl # "run" /\ s.pool \in {"none", "done"}

\* What no task can see any more is forgotten: a session without tasks, and
\* the messages to a client that has closed its end.
Forget(s) ==
  IF Finished(s) THEN Blank
  ELSE IF s.cend = "closed" /\ s.up = <<>>
       THEN [s EXCEPT !.link = "broken", !.down = <<>>, !.lost = 0]
       ELSE s

Becomes(c, s) == conns' = [conns EXCEPT ![c] = Forget(s)]

\* A write that succeeds is read in time, or never when the connection is
\* silent or the reader gone.
Heard(s) == s.link = "ok" /\ s.cend = "open"
ToClient(s, msgs) == IF Heard(s) THEN [s EXCEPT !.down = @ \o msgs] ELSE s

\* A read of a message, and a read that fails: nothing more will come.
Arrives(s, queue, msg) == s.link = "ok" /\ queue # <<>> /\ Head(queue) = msg

ReadFails(s) ==
  \/ s.link = "broken"
  \/ s.link = "ok" /\ s.down = <<>> /\ s.send = "closed"

\* A write to the client may fail once its end is gone.
WriteFails(s) == s.link = "broken" \/ s.cend = "closed"
=============================================================================
