-------------------------- MODULE SessionStepProofs --------------------------
(***************************************************************************)
(* Proofs about Session, for any number of tasks, sessions, data channels  *)
(* and faults; the first part.  A task that is told to stop never goes     *)
(* back.  Then the invariants of the sessions and what they say,           *)
(* above all what the system looks like when neither side has a step to    *)
(* take.  Last, what the steps make of one session, a record: its data     *)
(* channels are counted right and its parts agree.                         *)
(***************************************************************************)
EXTENDS Session, TLAPS
-----------------------------------------------------------------------------
(* The tasks of the client *)

\* A task that was started goes on until it is told.
Going(t) ==
  /\ t <= spawned => pc[t] # "none"
  /\ t = current => pc[t] # "ended"

Shape ==
  /\ spawned \in Tasks
  /\ current \in 0..spawned
  /\ told \subseteq 1..spawned
  /\ current \notin told
  /\ pc \in [Tasks -> Places]

\* The handles name tasks that exist, the current one is not told, and every
\* task is as Going says.
IInv == Shape /\ \A t \in Tasks : Going(t)

\* No told task goes back.
Onward == \A t \in told : Rank[pc[t]] <= Rank[pc'[t]]

\* Nothing is told yet, and one task is about to connect.
LEMMA InitIInv == Init => IInv
<1> SUFFICES ASSUME ClientInit PROVE IInv
  BY Zenon DEF Init
<1>1. Shape
  BY TasksAssumption DEF ClientInit, Shape, Tasks, Places
<1>2. ASSUME NEW t \in Tasks PROVE Going(t)
  BY DEF ClientInit, Going, Tasks
<1> QED BY <1>1, <1>2 DEF IInv

\* A place has a rank.
LEMMA RankType ==
  ASSUME NEW p \in Places
  PROVE  Rank[p] \in 0..5
BY DEF Places, Rank

\* A step that leaves the places of the tasks alone.
LEMMA StayOnward ==
  ASSUME IInv, UNCHANGED pc
  PROVE  Onward
<1> SUFFICES ASSUME NEW t \in told PROVE Rank[pc[t]] <= Rank[pc'[t]]
  BY DEF Onward
<1>1. pc[t] \in Places
  BY TasksAssumption DEF IInv, Shape, Tasks
<1> QED BY <1>1, RankType

\* A step of one task, which goes on, and back only if it is not told.
LEMMA GotoKeeps ==
  ASSUME IInv, NEW t \in Tasks, NEW to \in Places, Goto(t, to),
         UNCHANGED handles,
         t \in told => Rank[pc[t]] <= Rank[to],
         to # "none", to = "ended" => t \in told
  PROVE  IInv' /\ Onward
<1>1. Shape'
  BY DEF IInv, Shape, Goto, handles
<1>2. ASSUME NEW u \in Tasks PROVE Going(u)'
  BY DEF IInv, Shape, Going, Goto, handles
<1>3. ASSUME NEW u \in told PROVE Rank[pc[u]] <= Rank[pc'[u]]
  <2>1. u \in Tasks /\ pc[u] \in Places
    BY TasksAssumption DEF IInv, Shape, Tasks
  <2>2. pc'[u] = IF u = t THEN to ELSE pc[u]
    BY <2>1 DEF IInv, Shape, Goto
  <2> QED BY <2>1, <2>2, RankType
<1> QED BY <1>1, <1>2, <1>3 DEF IInv, Onward

\* A told task that fails ends; another may sleep.
LEMMA FailedKeeps ==
  ASSUME IInv, NEW t \in Tasks
  PROVE  /\ Failed(t) \in Places \ {"none"}
         /\ Failed(t) = "ended" => t \in told
         /\ t \in told => Rank[pc[t]] <= Rank[Failed(t)]
<1>1. pc[t] \in Places
  BY DEF IInv, Shape
<1>2. Rank["ended"] = 5
  BY DEF Rank
<1> QED BY <1>1, <1>2, RankType DEF Failed, Places

\* Every step of a task but CreateDataChannel is a Goto.
LEMMA TaskKeeps ==
  ASSUME IInv, NEW t \in Tasks,
         TaskStep(t) \/ ConnectFails(t) \/ \E c \in Conns : Connect(t, c)
  PROVE  IInv' /\ Onward
<1>1. CASE ReadAck(t)
  <2>1. Goto(t, "serve") /\ UNCHANGED handles /\ pc[t] = "ack"
    BY <1>1, Zenon DEF ReadAck
  <2>2. Rank["ack"] <= Rank["serve"]
    BY DEF Rank
  <2> QED BY <2>1, <2>2, GotoKeeps DEF Places
<1>2. CASE CreateDataChannel(t)
  <2>1. UNCHANGED client
    BY <1>2, Zenon DEF CreateDataChannel
  <2> QED BY <2>1, StayOnward DEF client, handles, IInv, Shape, Going
<1>3. CASE Stop(t)
  <2>1. Goto(t, "ended") /\ UNCHANGED handles /\ t \in told /\ pc[t] = "serve"
    BY <1>3, Zenon DEF Stop, Return
  <2>2. Rank["serve"] <= Rank["ended"]
    BY DEF Rank
  <2> QED BY <2>1, <2>2, GotoKeeps DEF Places
<1>4. CASE Retry(t)
  <2>1. Goto(t, "connect") /\ UNCHANGED handles /\ pc[t] = "backoff"
    BY <1>4, Zenon DEF Retry
  <2>2. Rank["backoff"] <= Rank["connect"]
    BY DEF Rank
  <2> QED BY <2>1, <2>2, GotoKeeps DEF Places
<1>5. CASE ReadRefusal(t) \/ RunFails(t) \/ HeartbeatTimeout(t) \/ ConnectFails(t)
  <2>1. Goto(t, Failed(t)) /\ UNCHANGED handles
    BY <1>5, Zenon DEF ReadRefusal, RunFails, HeartbeatTimeout, ConnectFails,
                       Return
  <2> QED BY <2>1, FailedKeeps, GotoKeeps
<1>6. CASE \E c \in Conns : Connect(t, c)
  <2>1. Goto(t, "ack") /\ UNCHANGED handles /\ pc[t] = "connect"
    BY <1>6, Zenon DEF Connect
  <2>2. Rank["connect"] <= Rank["ack"]
    BY DEF Rank
  <2> QED BY <2>1, <2>2, GotoKeeps DEF Places
<1> QED BY <1>1, <1>2, <1>3, <1>4, <1>5, <1>6 DEF TaskStep

\* A reload tells the current task, and starts one that was not told.
LEMMA ReloadKeeps ==
  ASSUME IInv, AddService \/ RemoveService
  PROVE  IInv' /\ Onward
<1>1. CASE AddService
  <2>1. spawned + 1 \in Tasks /\ spawned \in Nat
    BY <1>1, TasksAssumption DEF AddService, IInv, Shape, Tasks
  <2>2. Shape'
    BY <1>1, <2>1 DEF AddService, DropHandle, IInv, Shape, Tasks, Places
  <2>3. ASSUME NEW u \in Tasks
        PROVE  /\ u # spawned + 1 => pc'[u] = pc[u]
               /\ u = spawned + 1 => pc'[u] = "connect"
    BY <1>1, <2>1 DEF AddService, IInv, Shape
  <2>4. ASSUME NEW u \in Tasks PROVE Going(u)'
    <3>1. /\ u <= spawned' => u <= spawned \/ u = spawned + 1
          /\ u = current' => u = spawned + 1
      BY <1>1, <2>1 DEF AddService, Tasks
    <3> QED BY <2>3, <3>1 DEF IInv, Going
  <2>5. ASSUME NEW u \in told PROVE Rank[pc[u]] <= Rank[pc'[u]]
    <3>1. u \in Tasks /\ pc[u] \in Places /\ u # spawned + 1
      BY <2>1, TasksAssumption DEF IInv, Shape, Tasks
    <3>2. pc'[u] = pc[u]
      BY <2>3, <3>1
    <3> QED BY <3>1, <3>2, RankType
  <2> QED BY <2>2, <2>4, <2>5 DEF IInv, Onward
<1>2. CASE RemoveService
  <2>1. Shape'
    BY <1>2 DEF RemoveService, DropHandle, IInv, Shape, Tasks
  <2>2. ASSUME NEW u \in Tasks PROVE Going(u)'
    <3>1. u # current'
      BY <1>2 DEF RemoveService, Tasks
    <3> QED BY <1>2, <3>1, SMTT(30) DEF RemoveService, DropHandle, IInv, Shape, Going
  <2>3. UNCHANGED pc
    BY <1>2 DEF RemoveService
  <2> QED BY <2>1, <2>2, <2>3, StayOnward DEF IInv
<1> QED BY <1>1, <1>2

\* A restart leaves the current task only, which is not told.
LEMMA CrashKeeps ==
  ASSUME IInv, ClientCrashes
  PROVE  IInv' /\ Onward
<1>0. /\ UNCHANGED handles
      /\ pc' = [t \in Tasks |-> IF t = current THEN "connect"
                               ELSE IF t > spawned THEN "none" ELSE "ended"]
  BY Zenon DEF ClientCrashes
<1>1. Shape'
  BY <1>0 DEF handles, IInv, Shape, Places
<1>2. ASSUME NEW u \in Tasks PROVE Going(u)'
  BY <1>0, SMTT(30) DEF handles, IInv, Shape, Tasks, Going
<1>3. ASSUME NEW u \in told PROVE Rank[pc[u]] <= Rank[pc'[u]]
  <2>1. u \in Tasks /\ pc[u] \in Places /\ u # current /\ ~(u > spawned)
    BY TasksAssumption DEF IInv, Shape, Tasks
  <2>2. pc'[u] = "ended"
    BY <1>0, <2>1
  <2>3. Rank["ended"] = 5
    BY DEF Rank
  <2> QED BY <2>1, <2>2, <2>3, RankType
<1> QED BY <1>1, <1>2, <1>3 DEF IInv, Onward

\* IInv is inductive and no step takes a told task back; a step that leaves the
\* client alone does neither.
LEMMA NextOnward ==
  ASSUME IInv, [Next]_vars
  PROVE  IInv' /\ Onward
<1>0. CASE UNCHANGED client
  BY <1>0, StayOnward DEF client, handles, IInv, Shape, Going
<1>1. CASE ClientStep
  <2>1. CASE \E t \in Tasks : TaskStep(t)
    BY <2>1, TaskKeeps
  <2>2. CASE \E t \in Tasks : Unused # {} /\ Connect(t, CHOOSE c \in Unused : TRUE)
    <3>1. Unused # {} => (CHOOSE c \in Unused : TRUE) \in Conns
      BY DEF Unused
    <3> QED BY <2>2, <3>1, TaskKeeps
  <2> QED BY <1>1, <2>1, <2>2 DEF ClientStep
<1>2. CASE ServerStep
  BY <1>0, <1>2 DEF ServerStep
<1>3. CASE Traffic
  BY <1>0, <1>3, SMTT(30) DEF Traffic, ForwardersEnd
<1>4. CASE Event
  <2>1. CASE AddService \/ RemoveService
    BY <2>1, ReloadKeeps
  <2>2. CASE \E t \in Tasks : ConnectFails(t)
    BY <2>2, TaskKeeps
  <2>3. CASE ClientCrashes
    BY <2>3, CrashKeeps
  <2>4. CASE UNCHANGED client
    BY <1>0, <2>4
  <2> QED BY <1>4, <2>1, <2>2, <2>3, <2>4, ZenonT(30)
          DEF Event, OpenFails, LinkFails, DataLinkFails, ChunkForgotten, ServerCrashes
<1>5. CASE \E c \in Conns : SilenceEnds(c)
  BY <1>0, <1>5 DEF SilenceEnds
<1>6. CASE UNCHANGED vars
  BY <1>0, <1>6 DEF vars
<1> QED BY <1>1, <1>2, <1>3, <1>4, <1>5, <1>6 DEF Next

LEMMA NextIInv == IInv /\ [Next]_vars => IInv'
BY NextOnward

\* A task of ControlChannelHandle::new (client.rs) whose shutdown_rx has fired
\* never goes back to where it could make a second connection, whatever the
\* server, the network and the reloads do.
THEOREM OneMoreSessionHolds == Spec => OneMoreSession
<1>1. IInv /\ [Next]_vars => [\A t \in told : Rank[pc[t]] <= Rank[pc'[t]]]_vars
  BY NextOnward, SMTT(30) DEF Onward
<1> QED BY InitIInv, NextIInv, <1>1, PTL DEF Spec, OneMoreSession

-----------------------------------------------------------------------------
(* The invariants of the sessions *)

\* No data channel has a client's end.
Waiting(s) == s.opening = 0 /\ s.queued = 0 /\ s.used \notin {"live", "stalled"}

\* A session before its auth was read.
Early(s) ==
  /\ s.handshake = "none" /\ s.send = "none" /\ s.down = <<>>
  /\ s.opening = 0 /\ s.queued = 0 /\ s.stale = 0 /\ s.lost = 0 /\ s.reqs = 0
  /\ s.used = "none" /\ s.ctrl = "none" /\ s.pool = "none"

\* The first answer is followed by nothing but CreateDataChannel; nothing
\* happens before the auth is read; the requests are as Accounted says, and
\* never more than PoolSize; a data channel is in use while the pool says so;
\* and without a client there is no data channel with a client's end.
Sound(s) ==
  /\ s \in Sessions
  /\ \A i \in 2..Len(s.down) : s.down[i] = "create"
  /\ s.up # <<>> => Early(s)
  /\ Requested(s) <= PoolSize
  /\ s.cend = "open" /\ s.pool \notin {"none", "done"} => Requested(s) = PoolSize
  /\ s.pool \in {"serve", "body"} <=> s.used # "none"
  /\ s.cend # "open" => Waiting(s)

\* The server keeps its end of the connection as long as the control channel
\* runs; the two tasks start together, with the handshake; the client reads the
\* data channels of a channel it has; and the server has ended or will read the
\* auth of a client that waits.
Paired(s) ==
  /\ s.send = "open" <=> s.ctrl = "run"
  /\ s.ctrl = "run" => s.pool # "none"
  /\ s.pool # "none" => s.handshake \in {"insert", "done"}
  /\ s.cend = "open" => s.used # "deaf"
  /\ s.cend = "open" /\ s.send = "none" => s.up # <<>>

\* A task that waits for its ack finds an answer first, and finds one if the
\* session runs.
Unanswered(s) ==
  /\ s.down # <<>> => Head(s.down) # "create"
  /\ s.link = "ok" /\ s.send = "open" => s.down # <<>>

\* A task that has its ack finds commands only.
Answered(s) ==
  /\ s.send # "none"
  /\ s.down # <<>> => Head(s.down) = "create"

Using == {"recv", "serve", "body"}

\* What a session's place holds when nothing is left to forget.
Kept(s) == Paired(s) /\ (Finished(s) => s = Blank)

\* Who has the sessions: an open one belongs to one task, which waits for its
\* ack or is in its established channel; before the ack there is no data
\* channel.
Owned ==
  /\ \A t \in Tasks : conn[t] # 0 <=> pc[t] \in {"ack", "serve"}
  /\ \A t \in Tasks : conn[t] # 0 => conns[conn[t]].cend = "open"
  /\ \A c \in Conns : conns[c].cend = "open" => \E t \in Tasks : conn[t] = c
  /\ \A t, u \in Tasks : conn[t] # 0 /\ conn[t] = conn[u] => t = u
  /\ \A t \in Tasks : pc[t] = "ack" => Waiting(conns[conn[t]])
  /\ \A t \in Tasks : t > spawned => pc[t] = "none"

Linked ==
  /\ conns \in [Conns -> Sessions]
  /\ conn \in [Tasks -> Conns \cup {0}]
  /\ \A c \in Conns : Sound(conns[c])
  /\ Owned

\* What is left of TypeOK.
Rest ==
  /\ visitor \in BOOLEAN
  /\ PoolTypeOK
  /\ events \in 0..MaxEvents

\* The parts of every session agree and nothing is left to forget; a task that
\* waits for its ack will have an answer, one that has it finds commands; and the
\* pool that has the address runs.
Attended ==
  /\ \A c \in Conns : Kept(conns[c])
  /\ \A t \in Tasks : pc[t] = "ack" => Unanswered(conns[conn[t]])
  /\ \A t \in Tasks : pc[t] = "serve" => Answered(conns[conn[t]])
  /\ addr # 0 => addr \in Conns /\ conns[addr].pool \in Using

-----------------------------------------------------------------------------
(* What they say, and what rest looks like *)

\* The task of an open session, and the session.
LEMMA MineOpen ==
  ASSUME Linked, NEW t \in Tasks, pc[t] \in {"ack", "serve"}
  PROVE  conn[t] \in Conns /\ Mine(t).cend = "open" /\ Sound(Mine(t))
<1>1. conn[t] # 0 /\ conn[t] \in Conns
  BY DEF Linked, Owned
<1> QED
  BY <1>1 DEF Linked, Owned, Mine

\* What a task with a session knows of it.
LEMMA MineAttended ==
  ASSUME Linked, Attended, NEW t \in Tasks, pc[t] \in {"ack", "serve"}
  PROVE  /\ conn[t] \in Conns /\ Mine(t).cend = "open" /\ Sound(Mine(t))
         /\ Mine(t) \in Sessions /\ Paired(Mine(t))
         /\ addr = conn[t] => Mine(t).pool \in Using
         /\ \A u \in Tasks : u # t => conn[u] # conn[t]
<1>1. conn[t] \in Conns /\ Mine(t).cend = "open" /\ Sound(Mine(t))
  BY MineOpen, Zenon
<1>2. conn[t] # 0
  BY <1>1, LinksAssumption
<1>3. \A u \in Tasks : u # t => conn[u] # conn[t]
  BY <1>2, Zenon DEF Linked, Owned
<1> QED
  BY <1>1, <1>2, <1>3, ZenonT(30) DEF Sound, Attended, Kept, Mine

\* What Sound says of the requests is Accounted, and of the sessions without a
\* task DataChannelsOwned.
LEMMA SaysAccounted ==
  ASSUME Linked
  PROVE  Accounted
BY Zenon DEF Linked, Sound, Accounted

LEMMA SaysOwned ==
  ASSUME Linked
  PROVE  DataChannelsOwned
<1> SUFFICES ASSUME NEW c \in Conns,
                    conns[c].opening > 0 \/ conns[c].queued > 0 \/ conns[c].used \in {"live", "stalled"}
             PROVE  \E t \in Tasks : conn[t] = c /\ pc[t] = "serve"
  BY DEF DataChannelsOwned
<1>1. ~Waiting(conns[c])
  BY DEF Waiting
<1>2. conns[c].cend = "open"
  BY <1>1 DEF Linked, Sound
<1>3. PICK t \in Tasks : conn[t] = c
  BY <1>2 DEF Linked, Owned
<1>4. c # 0
  BY LinksAssumption
<1> QED BY <1>1, <1>3, <1>4 DEF Linked, Owned

\* What the records of the sessions are known to be.
LEMMA RecordAttended ==
  ASSUME Linked, Attended, NEW c \in Conns
  PROVE  conns[c] \in Sessions /\ Sound(conns[c]) /\ Paired(conns[c]) /\ Kept(conns[c])
BY Zenon DEF Linked, Sound, Attended, Kept

\* A session nobody has anything to do for.
LEMMA Quiet ==
  ASSUME ~Busy, NEW c \in Conns
  PROVE  /\ ~AuthArrives(c) /\ conns[c].handshake # "insert" /\ ~(conns[c].opening > 0)
         /\ ~CtrlCan(c) /\ ~PoolCan(c) /\ conns[c].link # "silent"
BY Zenon DEF Busy

\* An auth that is on its way is read.
LEMMA UpArrives ==
  ASSUME Linked, NEW c \in Conns, conns[c].up # <<>>, conns[c].link = "ok"
  PROVE  AuthArrives(c)
<1>1. Sound(conns[c]) /\ conns[c].up \in Seq({"auth"})
  BY DEF Linked, Sessions
<1>2. conns[c].handshake = "none"
  BY <1>1, ZenonT(30) DEF Sound, Early
<1>3. Head(conns[c].up) = "auth"
  <2> DEFINE u == conns[c].up
  <2>1. u \in Seq({"auth"}) /\ u # <<>>
    BY <1>1
  <2> HIDE DEF u
  <2>2. Head(u) = "auth"
    BY <2>1
  <2> QED BY <2>2 DEF u
<1> QED BY <1>2, <1>3, Zenon DEF AuthArrives, Arrives

\* The end of a pool was seen,
LEMMA PoolEndAtRest ==
  ASSUME Linked, Attended, ~Busy, NEW c \in Conns
  PROVE  PoolEndSeen(c)
<1>1. conns[c].reqs \in Nat
  BY LinksAssumption DEF Linked, Sessions
<1>2. ~CtrlCan(c)
  BY Quiet
<1> QED BY <1>1, <1>2 DEF CtrlCan, PoolEndSeen, WriteFails

\* ... the drop of a handle,
LEMMA DropAtRest ==
  ASSUME Linked, Attended, ~Busy, NEW c \in Conns
  PROVE  DropSeen(c)
<1> DEFINE s == conns[c]
<1>1. s.pool \in {"none", "bind", "recv", "serve", "body", "done"}
  BY RecordAttended, SMTT(30) DEF Sessions
<1>2. ~PoolCan(c)
  BY Quiet
<1> QED BY <1>1, <1>2 DEF PoolCan, DropSeen, Held

\* ... and what is over has left no task behind.
LEMMA LeftAtRest ==
  ASSUME Linked, Attended, ~Busy, NEW c \in Conns
  PROVE  NoLeftovers(c)
<1> SUFFICES ASSUME conns[c].cend # "open", c # map, ~Held(c) PROVE conns[c] = Blank
  BY Zenon DEF NoLeftovers
<1> DEFINE s == conns[c]
<1>1. Sound(s) /\ Paired(s) /\ Kept(s)
  BY RecordAttended
<1>2. s.opening = 0
  BY <1>1, ZenonT(30) DEF Sound, Waiting
<1>3. s.up = <<>> \/ s.link # "ok"
  BY UpArrives, Quiet, Zenon
<1>4. s.handshake \in {"none", "done", "failed"}
  <2>1. s.handshake \in {"none", "insert", "done", "failed"}
    BY RecordAttended, SMTT(30) DEF Sessions
  <2> QED BY <2>1, Quiet
<1>5. s.ctrl # "run" /\ s.pool \in {"none", "done"}
  <2>1. CASE s.handshake = "done"
    <3>1. HandleDropped(c)
      BY <2>1 DEF HandleDropped
    <3>2. s.pool \in {"none", "done"}
      BY <3>1, DropAtRest DEF DropSeen
    <3>3. s.ctrl # "run"
      BY <3>1, Quiet, Zenon DEF CtrlCan
    <3> QED BY <3>2, <3>3
  <2>2. CASE s.handshake # "done"
    BY <1>1, <1>4, <2>2, SMTT(30) DEF Paired
  <2> QED BY <2>1, <2>2
<1>6. Finished(s)
  BY <1>2, <1>3, <1>4, <1>5 DEF Finished
<1> QED BY <1>1, <1>6, Zenon DEF Kept

\* A task at rest has ended, or has its channel and no command to read.
LEMMA TaskAtRest ==
  ASSUME IInv, Linked, Attended, ~Busy, Unused # {}, NEW t \in Tasks
  PROVE  \/ pc[t] \in {"none", "ended"}
         \/ /\ pc[t] = "serve" /\ t \notin told
            /\ Mine(t).link = "ok" /\ Mine(t).down = <<>> /\ Mine(t).send = "open"
<1>1. ~TaskCan(t)
  BY Zenon DEF Busy
<1>2. pc[t] \in Places
  BY SMTT(30) DEF IInv, Shape
<1>3. pc[t] # "connect" /\ pc[t] # "backoff"
  BY <1>1 DEF TaskCan
<1>4. ASSUME pc[t] \in {"ack", "serve"}
      PROVE  /\ Mine(t).link = "ok"
             /\ Mine(t).send \in {"none", "open", "closed"}
             /\ Mine(t).down \in Seq({"ack", "refused", "create"})
             /\ Mine(t).down = <<>> => Mine(t).send # "closed"
  <2>1. conn[t] \in Conns /\ Mine(t) \in Sessions
    BY <1>4, MineAttended, Zenon
  <2>2. /\ Mine(t).link \in {"ok", "silent", "broken"}
        /\ Mine(t).send \in {"none", "open", "closed"}
        /\ Mine(t).down \in Seq({"ack", "refused", "create"})
    BY <2>1, SMTT(30) DEF Sessions
  <2>3. Mine(t).link # "silent"
    BY <2>1, Quiet, Zenon DEF Mine
  <2>4. ~ReadFails(Mine(t))
    BY <1>1, <1>4, Zenon DEF TaskCan
  <2> QED BY <2>2, <2>3, <2>4 DEF ReadFails
<1>5. ASSUME pc[t] = "ack" PROVE FALSE
  <2>1. Unanswered(Mine(t))
    BY <1>5, Zenon DEF Attended, Mine
  <2>2. Mine(t).down = <<>>
    <3> DEFINE d == Mine(t).down
    <3>1. /\ d \in Seq({"ack", "refused", "create"})
          /\ d # <<>> => Head(d) # "create"
      BY <1>4, <1>5, <2>1 DEF Unanswered
    <3>2. d # <<>> => Head(d) # "ack" /\ Head(d) # "refused"
      BY <1>1, <1>4, <1>5 DEF TaskCan, Arrives
    <3> HIDE DEF d
    <3>3. d = <<>>
      BY <3>1, <3>2
    <3> QED BY <3>3 DEF d
  <2>3. Mine(t).send = "none"
    BY <1>4, <1>5, <2>1, <2>2 DEF Unanswered
  <2>4. conn[t] \in Conns /\ Mine(t).cend = "open" /\ Paired(Mine(t))
    BY <1>5, MineAttended
  <2>5. conns[conn[t]].up # <<>>
    BY <2>3, <2>4, ZenonT(30) DEF Paired, Mine
  <2>6. conns[conn[t]].link = "ok"
    BY <1>4, <1>5 DEF Mine
  <2> QED BY <2>4, <2>5, <2>6, UpArrives, Quiet, Zenon
<1>6. ASSUME pc[t] = "serve"
      PROVE  t \notin told /\ Mine(t).down = <<>> /\ Mine(t).send = "open"
  <2>1. Answered(Mine(t))
    BY <1>6, Zenon DEF Attended, Mine
  <2>2. t \notin told
    BY <1>1, <1>6, Zenon DEF TaskCan
  <2>3. Mine(t).down = <<>>
    BY <1>1, <1>4, <1>6, <2>1, SMTT(30) DEF TaskCan, Arrives, Answered
  <2> QED BY <1>4, <1>6, <2>1, <2>2, <2>3 DEF Answered
<1> QED BY <1>2, <1>3, <1>4, <1>5, <1>6 DEF Places

\* The session of the current task at rest: it has its place, and everything the
\* client was asked for was done.
LEMMA CurrentAtRest ==
  ASSUME IInv, Linked, Attended, ~Busy, Unused # {}, current # 0
  PROVE  /\ current \in Tasks /\ pc[current] = "serve" /\ conn[current] = map /\ map \in Conns
         /\ conns[map].cend = "open" /\ conns[map].link = "ok" /\ conns[map].down = <<>>
         /\ conns[map].reqs = 0 /\ conns[map].opening = 0
         /\ conns[map].pool \in {"bind", "recv", "serve", "body"}
<1> DEFINE c == conn[current]
           s == Mine(current)
<1>1. current \in Tasks /\ current <= spawned
  <2>1. current \in 0..spawned /\ spawned \in Tasks
    BY Zenon DEF IInv, Shape
  <2> QED BY <2>1, TasksAssumption DEF Tasks
<1>2. pc[current] \notin {"none", "ended"}
  BY <1>1, SMTT(30) DEF IInv, Going
<1>3. /\ pc[current] = "serve" /\ s.link = "ok" /\ s.down = <<>> /\ s.send = "open"
  BY <1>1, <1>2, TaskAtRest, Zenon
<1>4. c \in Conns /\ s.cend = "open" /\ s \in Sessions /\ Paired(s)
  BY <1>1, <1>3, MineAttended
<1>5. s = conns[c]
  BY DEF Mine
<1>6. /\ s.reqs \in Nat /\ s.opening \in Nat
      /\ s.pool \in {"none", "bind", "recv", "serve", "body", "done"}
  BY <1>4, LinksAssumption, SMTT(30) DEF Sessions
<1> HIDE DEF s, c
<1>7. s.ctrl = "run" /\ s.pool # "none" /\ s.handshake \in {"insert", "done"}
  BY <1>3, <1>4, ZenonT(30) DEF Paired
<1>8. s.handshake # "insert" /\ ~(s.opening > 0) /\ ~CtrlCan(c)
  BY <1>4, <1>5, Quiet, ZenonT(30)
<1>9. s.reqs = 0 /\ s.pool # "done" /\ ~HandleDropped(c)
  BY <1>3, <1>5, <1>6, <1>7, <1>8, SMTT(30) DEF CtrlCan
<1>10. map = c
  BY <1>5, <1>7, <1>8, <1>9 DEF HandleDropped
<1> QED
  BY <1>1, <1>3, <1>4, <1>5, <1>6, <1>7, <1>8, <1>9, <1>10, SMTT(30) DEF c

\* A configured service at rest is served, unless its data channels are lost, the
\* one in use has stalled or a pool is held.
LEMMA ServiceAtRest ==
  ASSUME IInv, Linked, Attended, ~Busy, Unused # {}
  PROVE  current = 0 \/ Served \/ Starved \/ Stalled \/ \E c \in Conns : Held(c)
<1> SUFFICES ASSUME current # 0, \A c \in Conns : ~Held(c)
             PROVE  Served \/ Starved \/ Stalled
  OBVIOUS
<1>1. /\ current \in Tasks /\ pc[current] = "serve" /\ conn[current] = map /\ map \in Conns
      /\ conns[map].cend = "open" /\ conns[map].link = "ok" /\ conns[map].down = <<>>
      /\ conns[map].reqs = 0 /\ conns[map].opening = 0
      /\ conns[map].pool \in {"bind", "recv", "serve", "body"}
  BY CurrentAtRest, Zenon
<1>2. /\ conns[map] \in Sessions /\ Sound(conns[map]) /\ Paired(conns[map])
      /\ ~PoolCan(map)
  BY <1>1, RecordAttended, Quiet, ZenonT(30)
<1>3. ASSUME conns[map].pool = "bind" PROVE FALSE
  <2>1. addr # 0
    BY <1>2, <1>3 DEF PoolCan
  <2>2. addr \in Conns /\ conns[addr].pool \in Using
    BY <2>1, Zenon DEF Attended
  <2>3. addr # map /\ conns[addr].pool \notin {"none", "done"}
    BY <1>3, <2>2, SMTT(30) DEF Using
  <2>4. conns[addr].handshake \in {"insert", "done"} /\ conns[addr].handshake # "insert"
    BY <2>2, <2>3, RecordAttended, Quiet, SMTT(30) DEF Paired
  <2>5. HandleDropped(addr)
    BY <2>3, <2>4 DEF HandleDropped
  <2> QED BY <2>2, <2>3, <2>5, DropAtRest, Zenon DEF DropSeen
<1>4. ASSUME conns[map].pool = "recv" PROVE Starved
  <2> DEFINE s == conns[map]
  <2>1. s.queued \in Nat /\ s.stale \in Nat /\ s.lost \in Nat /\ PoolSize \in Nat
    BY <1>2, LinksAssumption, SMTT(30) DEF Sessions
  <2>2. s.queued = 0 /\ s.stale = 0
    BY <1>2, <1>4, <2>1 DEF PoolCan
  <2>3. Requested(s) = PoolSize
    BY <1>1, <1>2, <1>4, SMTT(30) DEF Sound
  <2>4. Coming(s) = 0 /\ InUse(s) = 0
    BY <1>1, <1>4, SMTT(30) DEF Coming, InUse
  <2>5. s.lost = PoolSize
    BY <1>1, <2>1, <2>2, <2>3, <2>4, SMTT(30) DEF Requested
  <2>6. map # 0
    BY <1>1, LinksAssumption
  <2> QED BY <1>1, <1>4, <2>5, <2>6, SMTT(30) DEF Starved
<1>5. ASSUME conns[map].pool \in {"serve", "body"} PROVE Served \/ Stalled
  <2> DEFINE s == conns[map]
  <2>1. s.used \in {"none", "live", "stalled", "deaf", "dead"}
    BY <1>2, SMTT(30) DEF Sessions
  <2>2. s.used # "none" /\ s.used # "deaf"
    BY <1>1, <1>2, <1>5, Zenon DEF Sound, Paired
  <2>3. s.used # "dead"
    BY <1>2, <1>5, Zenon DEF PoolCan
  <2>4. s.used \in {"live", "stalled"}
    BY <2>1, <2>2, <2>3, SMTT(30)
  <2>5. s.pool = "serve"
    BY <1>1, <1>5, <2>3, Zenon DEF Held
  <2>6. map # 0
    BY <1>1, LinksAssumption
  <2> QED BY <1>1, <2>4, <2>5, <2>6, SMTT(30) DEF Served, Stalled
<1> QED BY <1>1, <1>3, <1>4, <1>5

\* All of it together.
LEMMA SaysSettled ==
  ASSUME IInv, Linked, Attended
  PROVE  Settled
<1> SUFFICES ASSUME ~Busy
             PROVE  /\ \A c \in Conns : PoolEndSeen(c) /\ DropSeen(c) /\ NoLeftovers(c)
                    /\ Unused # {} =>
                         /\ current = 0 \/ Served \/ Starved \/ Stalled \/ \E c \in Conns : Held(c)
                         /\ \A t \in told : pc[t] = "ended"
  BY ZenonT(30) DEF Settled
<1>1. \A c \in Conns : PoolEndSeen(c) /\ DropSeen(c) /\ NoLeftovers(c)
  BY PoolEndAtRest, DropAtRest, LeftAtRest, Zenon
<1>2. ASSUME Unused # {}, NEW t \in told PROVE pc[t] = "ended"
  <2>1. t \in Tasks /\ t <= spawned
    <3>1. t \in 1..spawned /\ spawned \in Tasks
      BY DEF IInv, Shape
    <3> QED BY <3>1, TasksAssumption DEF Tasks
  <2>2. pc[t] # "none"
    BY <2>1, SMTT(30) DEF IInv, Going
  <2>3. \/ pc[t] \in {"none", "ended"}
        \/ pc[t] = "serve" /\ t \notin told
    BY <1>2, <2>1, TaskAtRest, ZenonT(30)
  <2> QED BY <2>2, <2>3
<1> QED BY <1>1, <1>2, ServiceAtRest, Zenon
-----------------------------------------------------------------------------
(* One session: Sound holds of every record a step can make of it *)

\* A place for a session that is not taken.
LEMMA BlankSound == Sound(Blank)
<1>1. Blank \in Sessions
  BY LinksAssumption, SMTT(30) DEF Blank, Sessions
<1> QED
  BY <1>1, LinksAssumption, SMTT(30) DEF Sound, Blank, Requested, Coming, InUse, Waiting, Early

\* Nothing of an open session is forgotten.
LEMMA ForgetOpen ==
  ASSUME NEW s
  PROVE  /\ s.cend = "open" => Forget(s) = s
         /\ Forget(s).cend = "open" => s.cend = "open"
BY DEF Forget, Finished, Blank

\* The numbers of a session's data channels, place by place.
Amounts(s, q, c, o, w, t, l, u) ==
  /\ s.reqs = q /\ Coming(s) = c /\ s.opening = o /\ s.queued = w
  /\ s.stale = t /\ s.lost = l /\ InUse(s) = u

\* Each of these is a natural number.
LEMMA Counts ==
  ASSUME NEW s \in Sessions
  PROVE  \E q, c, o, w, t, l, u \in Nat : Amounts(s, q, c, o, w, t, l, u)
<1>1. /\ s.opening \in Nat /\ s.queued \in Nat /\ s.stale \in Nat /\ s.lost \in Nat
      /\ s.reqs \in Nat
  BY LinksAssumption DEF Sessions
<1>2. Coming(s) \in Nat
  <2>1. s.down \in Seq({"ack", "refused", "create"})
    BY DEF Sessions
  <2>2. Len(s.down) \in Nat /\ (s.down # <<>> => Len(s.down) - 1 \in Nat)
    BY <2>1
  <2> QED
    BY <2>2, Zenon DEF Coming
<1>3. InUse(s) \in Nat
  BY DEF InUse
<1> QED
  BY <1>1, <1>2, <1>3, Zenon DEF Amounts

\* The messages to a client that is gone are dropped.
LEMMA ForgetType ==
  ASSUME NEW s \in Sessions
  PROVE  [s EXCEPT !.link = "broken", !.down = <<>>, !.lost = 0] \in Sessions
<1>1. <<>> \in Seq({"ack", "refused", "create"}) /\ 0 \in 0..PoolSize
  BY LinksAssumption
<1> QED
  BY <1>1, ZenonT(30) DEF Sessions

\* Forget keeps Sound.
LEMMA ForgetSound ==
  ASSUME NEW s, Sound(s)
  PROVE  Sound(Forget(s))
<1> DEFINE r == [s EXCEPT !.link = "broken", !.down = <<>>, !.lost = 0]
<1>0. s \in Sessions
  BY DEF Sound
<1>1. ASSUME s.cend = "closed", s.up = <<>> PROVE Sound(r)
  <2>1. r \in Sessions
    BY <1>0, ForgetType, ZenonT(30)
  <2>2. /\ r.cend = s.cend /\ r.up = s.up /\ r.down = <<>> /\ r.opening = s.opening
        /\ r.queued = s.queued /\ r.stale = s.stale /\ r.lost = 0
        /\ r.used = s.used /\ r.reqs = s.reqs /\ r.pool = s.pool
    BY <1>0, SMTT(30) DEF Sessions
  <2> HIDE DEF r
  <2>3. PICK q, c, o, w, t, l, u \in Nat : Amounts(s, q, c, o, w, t, l, u)
    BY <1>0, Counts, ZenonT(30)
  <2>4. Coming(r) = 0 /\ InUse(r) = u
    BY <2>2, <2>3, SMTT(30) DEF Coming, InUse, Amounts
  <2>9. Requested(s) <= PoolSize
    BY SMTT(30) DEF Sound
  <2>5. Requested(r) <= PoolSize
    BY <2>2, <2>3, <2>4, <2>9, LinksAssumption DEF Requested, Amounts
  <2>6. \A i \in 2..Len(r.down) : r.down[i] = "create"
    BY <2>2
  <2>7. s.pool \in {"serve", "body"} <=> s.used # "none"
    BY SMTT(30) DEF Sound
  <2>8. Waiting(r)
    BY <1>1, <2>2 DEF Sound, Waiting
  <2> QED
    BY <1>1, <2>1, <2>2, <2>5, <2>6, <2>7, <2>8, SMTT(30) DEF Sound
<1> QED
  BY <1>1, BlankSound, Zenon DEF Forget

\* Two sessions that differ in where their data channels are, at most.
Same(r, s) ==
  /\ r.cend = s.cend /\ r.up = s.up /\ r.down = s.down
  /\ r.used = s.used /\ r.pool = s.pool

\* A data channel that changes its place keeps Sound.
LEMMA Rearranged ==
  ASSUME NEW s, Sound(s), s.up = <<>>, NEW r, r \in Sessions, Same(r, s),
         Requested(r) = Requested(s), r.cend # "open" => Waiting(r)
  PROVE  Sound(r)
<1>1. /\ \A i \in 2..Len(r.down) : r.down[i] = "create"
      /\ r.pool \in {"serve", "body"} <=> r.used # "none"
  BY Zenon DEF Sound, Same
<1>2. /\ Requested(r) <= PoolSize
      /\ r.cend = "open" /\ r.pool \notin {"none", "done"} => Requested(r) = PoolSize
  BY Zenon DEF Sound, Same
<1> QED
  BY <1>1, <1>2, Zenon DEF Sound, Same

\* A data channel that was being opened is lost.
LEMMA LostSound ==
  ASSUME NEW s, Sound(s), s.up = <<>>, s.opening > 0
  PROVE  Sound([s EXCEPT !.opening = @ - 1, !.lost = @ + 1])
<1> DEFINE r == [s EXCEPT !.opening = @ - 1, !.lost = @ + 1]
<1>1. s \in Sessions
  BY SMTT(30) DEF Sound
<1>2. PICK q, c, o, w, t, l, u \in Nat : Amounts(s, q, c, o, w, t, l, u)
  BY <1>1, Counts, ZenonT(30)
<1>3. q + c + o + w + t + l + u <= PoolSize /\ PoolSize \in Nat
  BY <1>2, LinksAssumption DEF Sound, Requested, Amounts
<1>4. s.opening - 1 \in 0..PoolSize /\ s.lost + 1 \in 0..PoolSize
  BY <1>2, <1>3 DEF Amounts
<1>5. r \in Sessions
  BY <1>1, <1>4, ZenonT(30) DEF Sessions
<1>6. Same(r, s)
  BY <1>1 DEF Sessions, Same
<1>7. /\ r.reqs = q /\ r.opening = o - 1 /\ r.queued = w /\ r.stale = t
      /\ r.lost = l + 1
  BY <1>1, <1>2 DEF Sessions, Amounts
<1> HIDE DEF r
<1>8. Coming(r) = c /\ InUse(r) = u
  BY <1>2, <1>6, ZenonT(30) DEF Coming, InUse, Amounts, Same
<1>9. Requested(r) = Requested(s)
  BY <1>2, <1>4, <1>7, <1>8, SMTT(30) DEF Requested, Amounts
<1>10. r.cend # "open" => Waiting(r)
  BY <1>2, <1>6, <1>7, SMTT(30) DEF Sound, Waiting, Amounts, Same
<1>11. Sound(r)
  BY <1>5, <1>6, <1>9, <1>10, Rearranged, Zenon
<1> QED
  BY <1>11, Zenon DEF r

\* ... or gets into data_ch.
LEMMA ArrivedSound ==
  ASSUME NEW s, Sound(s), s.up = <<>>, s.opening > 0
  PROVE  Sound([s EXCEPT !.opening = @ - 1, !.queued = @ + 1])
<1> DEFINE r == [s EXCEPT !.opening = @ - 1, !.queued = @ + 1]
<1>1. s \in Sessions
  BY DEF Sound
<1>2. PICK q, c, o, w, t, l, u \in Nat : Amounts(s, q, c, o, w, t, l, u)
  BY <1>1, Counts, ZenonT(30)
<1>3. q + c + o + w + t + l + u <= PoolSize /\ PoolSize \in Nat
  BY <1>2, LinksAssumption DEF Sound, Requested, Amounts
<1>4. s.opening - 1 \in 0..PoolSize /\ s.queued + 1 \in 0..PoolSize
  BY <1>2, <1>3 DEF Amounts
<1>5. r \in Sessions
  BY <1>1, <1>4, ZenonT(30) DEF Sessions
<1>6. Same(r, s)
  BY <1>1 DEF Sessions, Same
<1>7. /\ r.reqs = q /\ r.opening = o - 1 /\ r.queued = w + 1 /\ r.stale = t
      /\ r.lost = l
  BY <1>1, <1>2, SMTT(30) DEF Sessions, Amounts
<1> HIDE DEF r
<1>8. Coming(r) = c /\ InUse(r) = u
  BY <1>2, <1>6, Zenon DEF Coming, InUse, Amounts, Same
<1>9. Requested(r) = Requested(s)
  BY <1>2, <1>4, <1>7, <1>8, SMTT(30) DEF Requested, Amounts
<1>10. r.cend # "open" => Waiting(r)
  BY <1>2, <1>6, <1>7, SMTT(30) DEF Sound, Waiting, Amounts, Same
<1>11. Sound(r)
  BY <1>5, <1>6, <1>9, <1>10, Rearranged, Zenon
<1> QED
  BY <1>11, ZenonT(30) DEF r

\* One in data_ch loses its client.
LEMMA StaleSound ==
  ASSUME NEW s, Sound(s), s.up = <<>>, s.queued > 0
  PROVE  Sound([s EXCEPT !.queued = @ - 1, !.stale = @ + 1])
<1> DEFINE r == [s EXCEPT !.queued = @ - 1, !.stale = @ + 1]
<1>1. s \in Sessions
  BY SMTT(30) DEF Sound
<1>2. PICK q, c, o, w, t, l, u \in Nat : Amounts(s, q, c, o, w, t, l, u)
  BY <1>1, Counts, ZenonT(30)
<1>3. q + c + o + w + t + l + u <= PoolSize /\ PoolSize \in Nat
  BY <1>2, LinksAssumption, SMTT(30) DEF Sound, Requested, Amounts
<1>4. s.queued - 1 \in 0..PoolSize /\ s.stale + 1 \in 0..PoolSize
  BY <1>2, <1>3 DEF Amounts
<1>5. r \in Sessions
  BY <1>1, <1>4, ZenonT(30) DEF Sessions
<1>6. Same(r, s)
  BY <1>1 DEF Sessions, Same
<1>7. /\ r.reqs = q /\ r.opening = o /\ r.queued = w - 1 /\ r.stale = t + 1
      /\ r.lost = l
  BY <1>1, <1>2 DEF Sessions, Amounts
<1> HIDE DEF r
<1>8. Coming(r) = c /\ InUse(r) = u
  BY <1>2, <1>6, ZenonT(30) DEF Coming, InUse, Amounts, Same
<1>9. Requested(r) = Requested(s)
  BY <1>2, <1>4, <1>7, <1>8, SMTT(30) DEF Requested, Amounts
<1>10. r.cend # "open" => Waiting(r)
  BY <1>2, <1>6, <1>7, SMTT(30) DEF Sound, Waiting, Amounts, Same
<1>11. Sound(r)
  BY <1>5, <1>6, <1>9, <1>10, Rearranged, Zenon
<1> QED
  BY <1>11, Zenon DEF r

\* The control channel task ends.
LEMMA CtrlEndSound ==
  ASSUME NEW s, Sound(s), s.up = <<>>
  PROVE  Sound([s EXCEPT !.ctrl = "done", !.send = "closed", !.reqs = 0, !.lost = @ + s.reqs])
<1> DEFINE r == [s EXCEPT !.ctrl = "done", !.send = "closed", !.reqs = 0, !.lost = @ + s.reqs]
<1>1. s \in Sessions
  BY SMTT(30) DEF Sound
<1>2. PICK q, c, o, w, t, l, u \in Nat : Amounts(s, q, c, o, w, t, l, u)
  BY <1>1, Counts, ZenonT(30)
<1>3. q + c + o + w + t + l + u <= PoolSize /\ PoolSize \in Nat
  BY <1>2, LinksAssumption DEF Sound, Requested, Amounts
<1>4. s.lost + s.reqs \in 0..PoolSize /\ 0 \in 0..PoolSize
  BY <1>2, <1>3 DEF Amounts
<1>5. r \in Sessions
  BY <1>1, <1>4, ZenonT(30) DEF Sessions
<1>6. Same(r, s)
  BY <1>1 DEF Sessions, Same
<1>7. /\ r.reqs = 0 /\ r.opening = o /\ r.queued = w /\ r.stale = t
      /\ r.lost = l + q
  BY <1>1, <1>2 DEF Sessions, Amounts
<1> HIDE DEF r
<1>8. Coming(r) = c /\ InUse(r) = u
  BY <1>2, <1>6, Zenon DEF Coming, InUse, Amounts, Same
<1>9. Requested(r) = Requested(s)
  BY <1>2, <1>4, <1>7, <1>8, SMTT(30) DEF Requested, Amounts
<1>10. r.cend # "open" => Waiting(r)
  BY <1>2, <1>6, <1>7 DEF Sound, Waiting, Amounts, Same
<1>11. Sound(r)
  BY <1>5, <1>6, <1>9, <1>10, Rearranged, Zenon
<1> QED
  BY <1>11, ZenonT(30) DEF r

\* A request is written to nobody.
LEMMA UnheardSound ==
  ASSUME NEW s, Sound(s), s.up = <<>>, s.reqs > 0
  PROVE  Sound([s EXCEPT !.reqs = @ - 1, !.lost = @ + 1])
<1> DEFINE r == [s EXCEPT !.reqs = @ - 1, !.lost = @ + 1]
<1>1. s \in Sessions
  BY SMTT(30) DEF Sound
<1>2. PICK q, c, o, w, t, l, u \in Nat : Amounts(s, q, c, o, w, t, l, u)
  BY <1>1, Counts, ZenonT(30)
<1>3. q + c + o + w + t + l + u <= PoolSize /\ PoolSize \in Nat
  BY <1>2, LinksAssumption DEF Sound, Requested, Amounts
<1>4. s.reqs - 1 \in 0..PoolSize /\ s.lost + 1 \in 0..PoolSize
  BY <1>2, <1>3 DEF Amounts
<1>5. r \in Sessions
  BY <1>1, <1>4, ZenonT(30) DEF Sessions
<1>6. Same(r, s)
  BY <1>1 DEF Sessions, Same
<1>7. /\ r.reqs = q - 1 /\ r.opening = o /\ r.queued = w /\ r.stale = t
      /\ r.lost = l + 1
  BY <1>1, <1>2 DEF Sessions, Amounts
<1> HIDE DEF r
<1>8. Coming(r) = c /\ InUse(r) = u
  BY <1>2, <1>6, ZenonT(30) DEF Coming, InUse, Amounts, Same
<1>9. Requested(r) = Requested(s)
  BY <1>2, <1>4, <1>7, <1>8, SMTT(30) DEF Requested, Amounts
<1>10. r.cend # "open" => Waiting(r)
  BY <1>2, <1>6, <1>7, SMTT(30) DEF Sound, Waiting, Amounts, Same
<1>11. Sound(r)
  BY <1>5, <1>6, <1>9, <1>10, Rearranged, Zenon
<1> QED
  BY <1>11, Zenon DEF r

\* The down queue moves on, or the pool does: what is asked of the result.
LEMMA Stepped ==
  ASSUME NEW s, Sound(s), NEW r, r \in Sessions, r.up = <<>>, r.cend = s.cend,
         \A i \in 2..Len(r.down) : r.down[i] = "create",
         r.pool \notin {"none", "done"} => s.pool \notin {"none", "done"},
         r.pool \in {"serve", "body"} <=> r.used # "none",
         Requested(r) = Requested(s), r.cend # "open" => Waiting(r)
  PROVE  Sound(r)
<1>1. /\ Requested(r) <= PoolSize
      /\ r.cend = "open" /\ r.pool \notin {"none", "done"} => Requested(r) = PoolSize
  BY ZenonT(30) DEF Sound
<1> QED
  BY <1>1, Zenon DEF Sound

\* A message is taken from the head of the queue to the client.
LEMMA TailOrderly ==
  ASSUME NEW d \in Seq({"ack", "refused", "create"}), d # <<>>,
         \A i \in 2..Len(d) : d[i] = "create"
  PROVE  /\ Tail(d) \in Seq({"ack", "refused", "create"})
         /\ \A i \in 2..Len(Tail(d)) : Tail(d)[i] = "create"
         /\ Len(Tail(d)) = Len(d) - 1 /\ Len(d) \in Nat
         /\ Tail(d) # <<>> => Head(Tail(d)) = "create"
OBVIOUS

\* A CreateDataChannel goes behind what is there.
LEMMA AppendOrderly ==
  ASSUME NEW d \in Seq({"ack", "refused", "create"}),
         \A i \in 2..Len(d) : d[i] = "create"
  PROVE  /\ d \o <<"create">> \in Seq({"ack", "refused", "create"})
         /\ \A i \in 2..Len(d \o <<"create">>) : (d \o <<"create">>)[i] = "create"
         /\ Len(d \o <<"create">>) = Len(d) + 1 /\ Len(d) \in Nat
         /\ d = <<>> => Head(d \o <<"create">>) = "create"
         /\ d # <<>> => Head(d \o <<"create">>) = Head(d)
         /\ d \o <<"create">> # <<>>
OBVIOUS

\* read_ack
LEMMA AckReadSound ==
  ASSUME NEW s, Sound(s), s.up = <<>>, s.down # <<>>, Head(s.down) # "create"
  PROVE  Sound([s EXCEPT !.down = Tail(@)])
<1> DEFINE r == [s EXCEPT !.down = Tail(@)]
<1>1. s \in Sessions /\ s.down \in Seq({"ack", "refused", "create"})
  BY DEF Sound, Sessions
<1>2. \A i \in 2..Len(s.down) : s.down[i] = "create"
  BY SMTT(30) DEF Sound
<1>3. PICK q, c, o, w, t, l, u \in Nat : Amounts(s, q, c, o, w, t, l, u)
  BY <1>1, Counts, ZenonT(30)
<1> DEFINE d == Tail(s.down)
<1>4. /\ d \in Seq({"ack", "refused", "create"})
      /\ \A i \in 2..Len(d) : d[i] = "create"
      /\ Len(d) = Len(s.down) - 1 /\ (d # <<>> => Head(d) = "create")
  BY <1>1, <1>2, TailOrderly
<1> HIDE DEF d
<1>5. r = [s EXCEPT !.down = d]
  BY DEF d
<1>6. r \in Sessions
  BY <1>1, <1>4, <1>5, ZenonT(30) DEF Sessions
<1>7. /\ r.reqs = q /\ r.opening = o /\ r.queued = w /\ r.stale = t /\ r.lost = l
      /\ r.down = d /\ r.up = s.up /\ r.cend = s.cend /\ r.pool = s.pool
      /\ r.used = s.used
  BY <1>1, <1>3, <1>5, SMTT(30) DEF Sessions, Amounts
<1> HIDE DEF r
<1>8. Coming(r) = c /\ InUse(r) = u
  <2>1. c = Len(s.down) - 1 /\ InUse(s) = u
    BY <1>3, Zenon DEF Coming, Amounts
  <2>2. Coming(r) = Len(d)
    BY <1>4, <1>7, Zenon DEF Coming
  <2> QED
    BY <1>4, <1>7, <2>1, <2>2, Zenon DEF InUse
<1>9. Requested(r) = Requested(s)
  BY <1>3, <1>7, <1>8 DEF Requested, Amounts
<1>10. r.cend # "open" => Waiting(r)
  BY <1>3, <1>7, Zenon DEF Sound, Waiting, Amounts
<1>11. Sound(r)
  <2>1. s.pool \in {"serve", "body"} <=> s.used # "none"
    BY SMTT(30) DEF Sound
  <2> QED
    BY <1>4, <1>6, <1>7, <1>9, <1>10, <2>1, Stepped, ZenonT(30)
<1> QED
  BY <1>11, Zenon DEF r

\* CreateDataChannel is read.
LEMMA CreateReadSound ==
  ASSUME NEW s, Sound(s), s.up = <<>>, s.cend = "open", s.down # <<>>,
         Head(s.down) = "create"
  PROVE  Sound([s EXCEPT !.down = Tail(@), !.opening = @ + 1])
<1> DEFINE r == [s EXCEPT !.down = Tail(@), !.opening = @ + 1]
<1>1. /\ s \in Sessions /\ s.down \in Seq({"ack", "refused", "create"})
      /\ \A i \in 2..Len(s.down) : s.down[i] = "create"
      /\ s.pool \in {"serve", "body"} <=> s.used # "none"
  BY DEF Sound, Sessions
<1>2. PICK q, c, o, w, t, l, u \in Nat : Amounts(s, q, c, o, w, t, l, u)
  BY <1>1, Counts, ZenonT(30)
<1>3. q + c + o + w + t + l + u <= PoolSize /\ PoolSize \in Nat
  BY <1>2, LinksAssumption, SMTT(30) DEF Sound, Requested, Amounts
<1> DEFINE d == Tail(s.down)
<1>11. /\ d \in Seq({"ack", "refused", "create"})
       /\ \A i \in 2..Len(d) : d[i] = "create"
       /\ Len(d) = Len(s.down) - 1 /\ Len(s.down) \in Nat
       /\ d # <<>> => Head(d) = "create"
  BY <1>1, TailOrderly, SMTT(30)
<1> HIDE DEF d
<1>12. c = Len(s.down) /\ c > 0
  BY <1>1, <1>2, SMTT(30) DEF Amounts, Coming
<1>4. s.opening + 1 \in 0..PoolSize
  BY <1>2, <1>3, <1>12 DEF Amounts
<1>13. r = [s EXCEPT !.down = d, !.opening = s.opening + 1]
  BY <1>1 DEF Sessions, d
<1>14. s \in Sessions /\ d \in Seq({"ack", "refused", "create"})
  BY <1>1, <1>11, Zenon
<1>5. r \in Sessions
  BY <1>4, <1>13, <1>14, ZenonT(30) DEF Sessions
<1>6. /\ r.reqs = q /\ r.opening = o + 1 /\ r.queued = w /\ r.stale = t
      /\ r.lost = l /\ r.up = s.up /\ r.cend = s.cend /\ r.down = d
      /\ r.pool = s.pool /\ r.used = s.used
  BY <1>1, <1>2, <1>13, ZenonT(30) DEF Sessions, Amounts
<1> HIDE DEF r
<1>7. Coming(r) = c - 1 /\ InUse(r) = u
  <2>1. Coming(r) = Len(d)
    BY <1>6, <1>11, Zenon DEF Coming
  <2>2. InUse(r) = u
    BY <1>2, <1>6, ZenonT(30) DEF InUse, Amounts
  <2> QED
    BY <1>11, <1>12, <2>1, <2>2
<1>8. Requested(r) = Requested(s)
  BY <1>2, <1>6, <1>7, SMTT(30) DEF Requested, Amounts
<1>9. r.cend # "open" => Waiting(r)
  BY <1>2, <1>6 DEF Sound, Waiting, Amounts
<1>10. Sound(r)
  BY <1>1, <1>5, <1>6, <1>8, <1>9, <1>11, Stepped, ZenonT(30)
<1> QED
  BY <1>10, ZenonT(30) DEF r

\* CreateDataChannel is written.
LEMMA CreateWrittenSound ==
  ASSUME NEW s, Sound(s), s.up = <<>>, s.reqs > 0
  PROVE  Sound([[s EXCEPT !.reqs = @ - 1] EXCEPT !.down = @ \o <<"create">>])
<1> DEFINE r == [[s EXCEPT !.reqs = @ - 1] EXCEPT !.down = @ \o <<"create">>]
<1>1. /\ s \in Sessions /\ s.down \in Seq({"ack", "refused", "create"})
      /\ \A i \in 2..Len(s.down) : s.down[i] = "create"
      /\ s.pool \in {"serve", "body"} <=> s.used # "none"
  BY DEF Sound, Sessions
<1>2. PICK q, c, o, w, t, l, u \in Nat : Amounts(s, q, c, o, w, t, l, u)
  BY <1>1, Counts, ZenonT(30)
<1>3. q + c + o + w + t + l + u <= PoolSize /\ PoolSize \in Nat
  BY <1>2, LinksAssumption DEF Sound, Requested, Amounts
<1> DEFINE d == s.down \o <<"create">>
<1>11. /\ d \in Seq({"ack", "refused", "create"})
       /\ \A i \in 2..Len(d) : d[i] = "create"
       /\ Len(d) = Len(s.down) + 1 /\ Len(s.down) \in Nat /\ d # <<>>
       /\ s.down = <<>> => Head(d) = "create"
       /\ s.down # <<>> => Head(d) = Head(s.down)
  BY <1>1, AppendOrderly, SMTT(30)
<1> HIDE DEF d
<1>4. s.reqs - 1 \in 0..PoolSize
  BY <1>2, <1>3 DEF Amounts
<1>13. r = [s EXCEPT !.reqs = s.reqs - 1, !.down = d]
  BY <1>1 DEF Sessions, d
<1>14. s \in Sessions /\ d \in Seq({"ack", "refused", "create"})
  BY <1>1, <1>11, Zenon
<1>5. r \in Sessions
  BY <1>4, <1>13, <1>14, ZenonT(30) DEF Sessions
<1>6. /\ r.reqs = q - 1 /\ r.opening = o /\ r.queued = w /\ r.stale = t
      /\ r.lost = l /\ r.up = s.up /\ r.cend = s.cend /\ r.down = d
      /\ r.pool = s.pool /\ r.used = s.used
  BY <1>1, <1>2, <1>13, ZenonT(30) DEF Sessions, Amounts
<1> HIDE DEF r
<1>7. Coming(r) = c + 1 /\ InUse(r) = u
  <2>1. InUse(r) = u /\ Coming(s) = c
    BY <1>2, <1>6, ZenonT(30) DEF InUse, Amounts
  <2>2. CASE s.down = <<>>
    <3>1. Coming(s) = Len(s.down) /\ Coming(r) = Len(d)
      BY <1>6, <1>11, <2>2, ZenonT(30) DEF Coming
    <3> QED
      BY <1>11, <2>1, <3>1
  <2>3. CASE s.down # <<>> /\ Head(s.down) = "create"
    <3>1. Coming(s) = Len(s.down) /\ Coming(r) = Len(d)
      BY <1>6, <1>11, <2>3, ZenonT(30) DEF Coming
    <3> QED
      BY <1>11, <2>1, <3>1
  <2>4. CASE s.down # <<>> /\ Head(s.down) # "create"
    <3>1. Coming(s) = Len(s.down) - 1 /\ Coming(r) = Len(d) - 1
      BY <1>6, <1>11, <2>4, ZenonT(30) DEF Coming
    <3> QED
      BY <1>11, <2>1, <3>1
  <2> QED
    BY <2>2, <2>3, <2>4, Zenon
<1>8. Requested(r) = Requested(s)
  BY <1>2, <1>6, <1>7, SMTT(30) DEF Requested, Amounts
<1>9. r.cend # "open" => Waiting(r)
  BY <1>2, <1>6 DEF Sound, Waiting, Amounts
<1>10. Sound(r)
  BY <1>1, <1>5, <1>6, <1>8, <1>9, <1>11, Stepped, ZenonT(30)
<1> QED
  BY <1>10, ZenonT(30) DEF r

\* The pool has bound its address.
LEMMA BindSound ==
  ASSUME NEW s, Sound(s), s.up = <<>>, s.pool = "bind"
  PROVE  Sound([s EXCEPT !.pool = "recv"])
<1> DEFINE r == [s EXCEPT !.pool = "recv"]
<1>1. /\ s \in Sessions /\ s.down \in Seq({"ack", "refused", "create"})
      /\ \A i \in 2..Len(s.down) : s.down[i] = "create"
      /\ s.pool \in {"serve", "body"} <=> s.used # "none"
  BY DEF Sound, Sessions
<1>2. PICK q, c, o, w, t, l, u \in Nat : Amounts(s, q, c, o, w, t, l, u)
  BY <1>1, Counts, ZenonT(30)
<1>3. q + c + o + w + t + l + u <= PoolSize /\ PoolSize \in Nat
  BY <1>2, LinksAssumption DEF Sound, Requested, Amounts
<1>4. s.used = "none"
  BY <1>1
<1>5. r \in Sessions
  BY <1>1, <1>4, ZenonT(30) DEF Sessions
<1>6. /\ r.reqs = q /\ r.opening = o /\ r.queued = w /\ r.stale = t
      /\ r.lost = l /\ r.up = s.up /\ r.cend = s.cend /\ r.down = s.down
      /\ r.pool = "recv" /\ r.used = s.used
  BY <1>1, <1>2, SMTT(30) DEF Sessions, Amounts
<1> HIDE DEF r
<1>7. Coming(r) = c /\ InUse(r) = u
  BY <1>2, <1>6, SMTT(30) DEF Coming, InUse, Amounts
<1>8. Requested(r) = Requested(s)
  BY <1>2, <1>4, <1>6, <1>7, SMTT(30) DEF Requested, Amounts
<1>9. r.cend # "open" => Waiting(r)
  BY <1>2, <1>6, SMTT(30) DEF Sound, Waiting, Amounts
<1>10. Sound(r)
  BY <1>1, <1>4, <1>5, <1>6, <1>8, <1>9, Stepped, SMTT(30)
<1> QED
  BY <1>10, ZenonT(30) DEF r

\* The pool takes a data channel,
LEMMA TakeLiveSound ==
  ASSUME NEW s, Sound(s), s.up = <<>>, s.pool = "recv", s.queued > 0
  PROVE  Sound([s EXCEPT !.pool = "serve", !.queued = @ - 1, !.used = "live"])
<1> DEFINE r == [s EXCEPT !.pool = "serve", !.queued = @ - 1, !.used = "live"]
<1>1. /\ s \in Sessions /\ s.down \in Seq({"ack", "refused", "create"})
      /\ \A i \in 2..Len(s.down) : s.down[i] = "create"
      /\ s.pool \in {"serve", "body"} <=> s.used # "none"
  BY DEF Sound, Sessions
<1>2. PICK q, c, o, w, t, l, u \in Nat : Amounts(s, q, c, o, w, t, l, u)
  BY <1>1, Counts, ZenonT(30)
<1>3. q + c + o + w + t + l + u <= PoolSize /\ PoolSize \in Nat
  BY <1>2, LinksAssumption, SMTT(30) DEF Sound, Requested, Amounts
<1>4. /\ s.queued - 1 \in 0..PoolSize /\ u = 0 /\ s.cend = "open"
  BY <1>2, <1>3, SMTT(30) DEF Amounts, InUse, Sound, Waiting
<1>5. r \in Sessions
  BY <1>1, <1>4, ZenonT(30) DEF Sessions
<1>6. /\ r.reqs = q /\ r.opening = o /\ r.queued = w - 1 /\ r.stale = t
      /\ r.lost = l /\ r.up = s.up /\ r.cend = s.cend /\ r.down = s.down
      /\ r.pool = "serve" /\ r.used = "live"
  BY <1>1, <1>2 DEF Sessions, Amounts
<1> HIDE DEF r
<1>7. Coming(r) = c /\ InUse(r) = 1
  BY <1>2, <1>6, SMTT(30) DEF Coming, InUse, Amounts
<1>8. Requested(r) = Requested(s)
  BY <1>2, <1>4, <1>6, <1>7, SMTT(30) DEF Requested, Amounts
<1>9. r.cend # "open" => Waiting(r)
  BY <1>2, <1>6, SMTT(30) DEF Sound, Waiting, Amounts
<1>10. Sound(r)
  BY <1>1, <1>4, <1>5, <1>6, <1>8, <1>9, Stepped, SMTT(30)
<1> QED
  BY <1>10, Zenon DEF r

\* ... or one whose client is gone.
LEMMA TakeStaleSound ==
  ASSUME NEW s, Sound(s), s.up = <<>>, s.pool = "recv", s.stale > 0
  PROVE  Sound([s EXCEPT !.pool = "serve", !.stale = @ - 1, !.used = "dead"])
<1> DEFINE r == [s EXCEPT !.pool = "serve", !.stale = @ - 1, !.used = "dead"]
<1>1. /\ s \in Sessions /\ s.down \in Seq({"ack", "refused", "create"})
      /\ \A i \in 2..Len(s.down) : s.down[i] = "create"
      /\ s.pool \in {"serve", "body"} <=> s.used # "none"
  BY DEF Sound, Sessions
<1>2. PICK q, c, o, w, t, l, u \in Nat : Amounts(s, q, c, o, w, t, l, u)
  BY <1>1, Counts, ZenonT(30)
<1>3. q + c + o + w + t + l + u <= PoolSize /\ PoolSize \in Nat
  BY <1>2, LinksAssumption, SMTT(30) DEF Sound, Requested, Amounts
<1>4. /\ s.stale - 1 \in 0..PoolSize /\ u = 0
  BY <1>2, <1>3 DEF Amounts, InUse
<1>5. r \in Sessions
  BY <1>1, <1>4, ZenonT(30) DEF Sessions
<1>6. /\ r.reqs = q /\ r.opening = o /\ r.queued = w /\ r.stale = t - 1
      /\ r.lost = l /\ r.up = s.up /\ r.cend = s.cend /\ r.down = s.down
      /\ r.pool = "serve" /\ r.used = "dead"
  BY <1>1, <1>2 DEF Sessions, Amounts
<1> HIDE DEF r
<1>7. Coming(r) = c /\ InUse(r) = 1
  BY <1>2, <1>6, SMTT(30) DEF Coming, InUse, Amounts
<1>8. Requested(r) = Requested(s)
  BY <1>2, <1>4, <1>6, <1>7, SMTT(30) DEF Requested, Amounts
<1>9. r.cend # "open" => Waiting(r)
  BY <1>2, <1>6, SMTT(30) DEF Sound, Waiting, Amounts
<1>10. Sound(r)
  BY <1>1, <1>4, <1>5, <1>6, <1>8, <1>9, Stepped, SMTT(30)
<1> QED
  BY <1>10, Zenon DEF r

\* The pool hangs in the body of a branch.
LEMMA BodyBlocksSound ==
  ASSUME NEW s, Sound(s), s.up = <<>>, s.pool = "serve"
  PROVE  Sound([s EXCEPT !.pool = "body"])
<1> DEFINE r == [s EXCEPT !.pool = "body"]
<1>1. /\ s \in Sessions /\ s.down \in Seq({"ack", "refused", "create"})
      /\ \A i \in 2..Len(s.down) : s.down[i] = "create"
      /\ s.pool \in {"serve", "body"} <=> s.used # "none"
  BY DEF Sound, Sessions
<1>2. PICK q, c, o, w, t, l, u \in Nat : Amounts(s, q, c, o, w, t, l, u)
  BY <1>1, Counts, ZenonT(30)
<1>3. q + c + o + w + t + l + u <= PoolSize /\ PoolSize \in Nat
  BY <1>2, LinksAssumption, SMTT(30) DEF Sound, Requested, Amounts
<1>4. u = 1
  BY <1>2 DEF Amounts, InUse
<1>5. r \in Sessions
  BY <1>1, <1>4, ZenonT(30) DEF Sessions
<1>6. /\ r.reqs = q /\ r.opening = o /\ r.queued = w /\ r.stale = t
      /\ r.lost = l /\ r.up = s.up /\ r.cend = s.cend /\ r.down = s.down
      /\ r.pool = "body" /\ r.used = s.used
  BY <1>1, <1>2, SMTT(30) DEF Sessions, Amounts
<1> HIDE DEF r
<1>7. Coming(r) = c /\ InUse(r) = u
  BY <1>2, <1>4, <1>6, SMTT(30) DEF Coming, InUse, Amounts
<1>8. Requested(r) = Requested(s)
  BY <1>2, <1>4, <1>6, <1>7, SMTT(30) DEF Requested, Amounts
<1>9. r.cend # "open" => Waiting(r)
  BY <1>2, <1>6, SMTT(30) DEF Sound, Waiting, Amounts
<1>10. Sound(r)
  BY <1>1, <1>4, <1>5, <1>6, <1>8, <1>9, Stepped, SMTT(30)
<1> QED
  BY <1>10, Zenon DEF r

\* The data channel in use stalls or breaks.
LEMMA UsedSound ==
  ASSUME NEW s, Sound(s), s.up = <<>>, s.used \in {"live", "stalled", "deaf"},
         NEW v \in {"stalled", "dead"}, v = "stalled" => s.used = "live"
  PROVE  Sound([s EXCEPT !.used = v])
<1> DEFINE r == [s EXCEPT !.used = v]
<1>1. /\ s \in Sessions /\ s.down \in Seq({"ack", "refused", "create"})
      /\ \A i \in 2..Len(s.down) : s.down[i] = "create"
      /\ s.pool \in {"serve", "body"} <=> s.used # "none"
  BY DEF Sound, Sessions
<1>2. PICK q, c, o, w, t, l, u \in Nat : Amounts(s, q, c, o, w, t, l, u)
  BY <1>1, Counts, ZenonT(30)
<1>3. q + c + o + w + t + l + u <= PoolSize /\ PoolSize \in Nat
  BY <1>2, LinksAssumption, SMTT(30) DEF Sound, Requested, Amounts
<1>4. s.used # "none"
  BY SMTT(30)
<1>5. r \in Sessions
  BY <1>1, <1>4, ZenonT(30) DEF Sessions
<1>6. /\ r.reqs = q /\ r.opening = o /\ r.queued = w /\ r.stale = t
      /\ r.lost = l /\ r.up = s.up /\ r.cend = s.cend /\ r.down = s.down
      /\ r.pool = s.pool /\ r.used = v
  BY <1>1, <1>2 DEF Sessions, Amounts
<1> HIDE DEF r
<1>7. Coming(r) = c /\ InUse(r) = u
  BY <1>2, <1>6, ZenonT(30) DEF Coming, InUse, Amounts
<1>8. Requested(r) = Requested(s)
  BY <1>2, <1>4, <1>6, <1>7, SMTT(30) DEF Requested, Amounts
<1>9. r.cend # "open" => Waiting(r)
  BY <1>2, <1>6, SMTT(30) DEF Sound, Waiting, Amounts
<1>10. Sound(r)
  BY <1>1, <1>4, <1>5, <1>6, <1>8, <1>9, Stepped, SMTT(30)
<1> QED
  BY <1>10, ZenonT(30) DEF r

\* The pool ends, and with it what waits in data_ch.
LEMMA PoolEndSound ==
  ASSUME NEW s, Sound(s), s.up = <<>>
  PROVE  Sound([s EXCEPT !.pool = "done", !.queued = 0, !.stale = 0, !.used = "none"])
<1> DEFINE r == [s EXCEPT !.pool = "done", !.queued = 0, !.stale = 0, !.used = "none"]
<1>1. s \in Sessions
  BY DEF Sound
<1>2. PICK q, c, o, w, t, l, u \in Nat : Amounts(s, q, c, o, w, t, l, u)
  BY <1>1, Counts, ZenonT(30)
<1>3. q + c + o + w + t + l + u <= PoolSize /\ PoolSize \in Nat
  BY <1>2, LinksAssumption DEF Sound, Requested, Amounts
<1>4. 0 \in 0..PoolSize
  BY <1>3
<1>5. r \in Sessions
  BY <1>1, <1>4, ZenonT(30) DEF Sessions
<1>6. /\ r.reqs = q /\ r.opening = o /\ r.queued = 0 /\ r.stale = 0 /\ r.lost = l
      /\ r.up = s.up /\ r.cend = s.cend /\ r.down = s.down
      /\ r.pool = "done" /\ r.used = "none"
  BY <1>1, <1>2 DEF Sessions, Amounts
<1> HIDE DEF r
<1>7. Coming(r) = c /\ InUse(r) = 0
  BY <1>2, <1>6 DEF Coming, InUse, Amounts
<1>8. Requested(r) <= PoolSize
  BY <1>3, <1>6, <1>7 DEF Requested
<1>9. r.cend # "open" => Waiting(r)
  BY <1>2, <1>6, SMTT(30) DEF Sound, Waiting, Amounts
<1>10. \A i \in 2..Len(r.down) : r.down[i] = "create"
  BY <1>6, SMTT(30) DEF Sound
<1>11. Sound(r)
  BY <1>5, <1>6, <1>8, <1>9, <1>10, SMTT(30) DEF Sound
<1> QED
  BY <1>11, ZenonT(30) DEF r

\* The connection breaks or falls silent, or the handshake goes on.
LEMMA LinkSound ==
  ASSUME NEW s, Sound(s), NEW x \in {"ok", "silent", "broken"}
  PROVE  Sound([s EXCEPT !.link = x])
<1> DEFINE r == [s EXCEPT !.link = x]
<1>1. s \in Sessions
  BY DEF Sound
<1>2. r \in Sessions
  BY <1>1, SMTT(30) DEF Sessions
<1>3. Same(r, s) /\ r.reqs = s.reqs /\ r.opening = s.opening /\ r.queued = s.queued
      /\ r.stale = s.stale /\ r.lost = s.lost /\ r.handshake = s.handshake
      /\ r.send = s.send /\ r.ctrl = s.ctrl
  BY <1>1 DEF Sessions, Same
<1> HIDE DEF r
<1>9. Coming(r) = Coming(s) /\ InUse(r) = InUse(s)
  BY <1>3, Zenon DEF Coming, InUse, Same
<1>4. Requested(r) = Requested(s)
  BY <1>3, <1>9 DEF Requested
<1>5. /\ r.cend # "open" => Waiting(r)
      /\ r.up # <<>> => Early(r)
  BY <1>3, ZenonT(30) DEF Sound, Waiting, Early, Same
<1>6. /\ \A i \in 2..Len(r.down) : r.down[i] = "create"
      /\ r.pool \in {"serve", "body"} <=> r.used # "none"
  BY <1>3, ZenonT(30) DEF Sound, Same
<1>7. /\ Requested(r) <= PoolSize
      /\ r.cend = "open" /\ r.pool \notin {"none", "done"} => Requested(r) = PoolSize
  BY <1>3, <1>4, Zenon DEF Sound, Same
<1>8. Sound(r)
  BY <1>2, <1>5, <1>6, <1>7, ZenonT(30) DEF Sound
<1> QED
  BY <1>8, ZenonT(30) DEF r

\* The handle of a visitor session gets its place in the map.
LEMMA InsertSound ==
  ASSUME NEW s, Sound(s), s.up = <<>>
  PROVE  Sound([s EXCEPT !.handshake = "done"])
<1> DEFINE r == [s EXCEPT !.handshake = "done"]
<1>1. s \in Sessions
  BY DEF Sound
<1>2. r \in Sessions
  BY <1>1, SMTT(30) DEF Sessions
<1>3. Same(r, s) /\ r.reqs = s.reqs /\ r.opening = s.opening /\ r.queued = s.queued
      /\ r.stale = s.stale /\ r.lost = s.lost
  BY <1>1 DEF Sessions, Same
<1> HIDE DEF r
<1>9. Coming(r) = Coming(s) /\ InUse(r) = InUse(s)
  BY <1>3, Zenon DEF Coming, InUse, Same
<1>4. Requested(r) = Requested(s)
  BY <1>3, <1>9 DEF Requested
<1>5. r.cend # "open" => Waiting(r)
  BY <1>3, Zenon DEF Sound, Waiting, Same
<1>6. Sound(r)
  BY <1>2, <1>3, <1>4, <1>5, Rearranged, Zenon
<1> QED
  BY <1>6, Zenon DEF r

\* Before its auth is read nothing of a session is requested.
LEMMA EarlySound ==
  ASSUME NEW r \in Sessions, r.down = <<>> \/ r.down = <<"refused">>,
         r.up # <<>> => Early(r),
         r.reqs = 0, Waiting(r), r.stale = 0, r.lost = 0,
         r.used = "none", r.pool = "none"
  PROVE  Sound(r)
<1>1. /\ Coming(r) = 0
      /\ \A i \in 2..Len(r.down) : r.down[i] = "create"
  <2>1. CASE r.down = <<>>
    BY <2>1, SMTT(30) DEF Coming
  <2>2. CASE r.down = <<"refused">>
    <3>1. Len(r.down) = 1 /\ Head(r.down) = "refused" /\ r.down # <<>>
      BY <2>2
    <3> HIDE <2>2
    <3>2. Coming(r) = 1 - 1
      BY <3>1, ZenonT(30) DEF Coming
    <3> QED
      BY <3>1, <3>2, SMTT(30)
  <2> QED
    BY <2>1, <2>2, SMTT(30)
<1>3. InUse(r) = 0
  BY SMTT(30) DEF InUse
<1>2. Requested(r) = 0 /\ PoolSize \in Nat
  BY <1>1, <1>3, LinksAssumption, SMTT(30) DEF Requested, Waiting
<1> QED
  BY <1>1, <1>2, SMTT(30) DEF Sound

\* A new connection, with its auth on the way.
LEMMA ConnectSound ==
  Sound([Blank EXCEPT !.cend = "open", !.up = <<"auth">>])
<1> DEFINE r == [Blank EXCEPT !.cend = "open", !.up = <<"auth">>]
<1>0. Blank \in Sessions /\ <<"auth">> \in Seq({"auth"})
  BY BlankSound DEF Sound
<1>1. r \in Sessions
  BY <1>0, ZenonT(30) DEF Sessions
<1>2. Early(r) /\ Waiting(r)
  BY DEF Early, Waiting, Blank
<1> HIDE DEF r
<1>3. Sound(r)
  BY <1>1, <1>2, EarlySound, Zenon DEF Early
<1> QED
  BY <1>3, ZenonT(30) DEF r

\* The handshake fails.
LEMMA FailingSound ==
  ASSUME NEW s, Sound(s), s.up # <<>>
  PROVE  Sound(Failing(s)) /\ Sound(Failing(ToClient(s, <<"refused">>)))
<1>1. s \in Sessions /\ Early(s)
  BY Zenon DEF Sound
<1>2. ASSUME NEW q \in Sessions, q.down \in {<<>>, <<"refused">>},
             q.reqs = 0, Waiting(q), q.stale = 0, q.lost = 0,
             q.used = "none", q.pool = "none"
      PROVE  Sound(Failing(q))
  <2> DEFINE r == Failing(q)
  <2>1. <<>> \in Seq({"auth"})
    OBVIOUS
  <2>2. r \in Sessions
    BY <2>1, ZenonT(30) DEF Sessions, Failing
  <2>3. /\ r.up = <<>> /\ r.down = q.down /\ r.reqs = q.reqs /\ r.opening = q.opening
        /\ r.queued = q.queued /\ r.stale = q.stale /\ r.lost = q.lost
        /\ r.used = q.used /\ r.pool = q.pool
    BY DEF Sessions, Failing
  <2> HIDE DEF r
  <2>4. Waiting(r)
    BY <1>2, <2>3, Zenon DEF Waiting
  <2>5. Sound(r)
    BY <1>2, <2>2, <2>3, <2>4, EarlySound, SMTT(30)
  <2> QED
    BY <2>5, Zenon DEF r
<1>3. Waiting(s)
  BY <1>1, SMTT(30) DEF Early, Waiting
<1>4. Sound(Failing(s))
  BY <1>1, <1>2, <1>3, ZenonT(30) DEF Early
<1> DEFINE q == [s EXCEPT !.down = @ \o <<"refused">>]
<1>5. s.down \o <<"refused">> = <<"refused">>
  BY <1>1 DEF Early
<1>6. <<"refused">> \in Seq({"ack", "refused", "create"})
  OBVIOUS
<1>7. q = [s EXCEPT !.down = <<"refused">>]
  BY <1>5, Zenon
<1>8. q \in Sessions
  BY <1>1, <1>6, <1>7, ZenonT(30) DEF Sessions
<1>9. /\ q.down = <<"refused">> /\ q.reqs = s.reqs /\ q.opening = s.opening
      /\ q.queued = s.queued /\ q.stale = s.stale /\ q.lost = s.lost
      /\ q.used = s.used /\ q.pool = s.pool
  BY <1>1, <1>7, ZenonT(30) DEF Sessions
<1> HIDE DEF q
<1>10. Waiting(q)
  BY <1>3, <1>9, Zenon DEF Waiting
<1>11. Sound(Failing(q))
  BY <1>1, <1>2, <1>8, <1>9, <1>10, ZenonT(30) DEF Early
<1> QED
  BY <1>4, <1>11, Zenon DEF q, ToClient


\* A session that starts has the shape of one.
LEMMA NewHandleType ==
  ASSUME NEW s \in Sessions, NEW h \in {"insert", "done"}
  PROVE  NewHandle(s, h) \in Sessions
<1>1. <<>> \in Seq({"auth"}) /\ PoolSize \in 0..PoolSize
  BY LinksAssumption
<1> QED
  BY <1>1, ZenonT(30) DEF Sessions, NewHandle

\* ControlChannelHandle::new asks for PoolSize data channels.
LEMMA NewHandleSound ==
  ASSUME NEW s, Sound(s), s.up # <<>>, NEW h \in {"insert", "done"}
  PROVE  Sound(ToClient(NewHandle(s, h), <<"ack">>))
<1>1. s \in Sessions /\ Early(s) /\ PoolSize \in Nat
  BY LinksAssumption, Zenon DEF Sound
<1> DEFINE q == NewHandle(s, h)
<1>3. q \in Sessions
  BY <1>1, NewHandleType, Zenon
<1>4. /\ q.up = <<>> /\ q.down = <<>> /\ q.reqs = PoolSize /\ q.opening = 0
      /\ q.queued = 0 /\ q.stale = 0 /\ q.lost = 0 /\ q.used = "none"
      /\ q.pool = "bind"
  BY <1>1 DEF Sessions, NewHandle, Early
<1> HIDE DEF q
<1>5. ASSUME NEW r \in Sessions, r.down \in {<<>>, <<"ack">>},
             r.up = q.up, r.reqs = q.reqs, r.opening = q.opening,
             r.queued = q.queued, r.stale = q.stale, r.lost = q.lost,
             r.used = q.used, r.pool = q.pool
      PROVE  Sound(r)
  <2>1. /\ Coming(r) = 0
        /\ \A i \in 2..Len(r.down) : r.down[i] = "create"
    <3>1. CASE r.down = <<>>
      BY <3>1 DEF Coming
    <3>2. CASE r.down = <<"ack">>
      <4>1. Len(r.down) = 1 /\ Head(r.down) = "ack" /\ r.down # <<>>
        BY <3>2
      <4> HIDE <3>2
      <4>2. Coming(r) = 1 - 1
        BY <4>1, Zenon DEF Coming
      <4> QED
        BY <4>1, <4>2
    <3> QED
      BY <1>5, <3>1, <3>2, Zenon
  <2>2. InUse(r) = 0
    BY <1>4, <1>5 DEF InUse
  <2>3. Requested(r) = PoolSize
    BY <1>1, <1>4, <1>5, <2>1, <2>2, SMTT(30) DEF Requested
  <2>4. Waiting(r)
    BY <1>4, <1>5, SMTT(30) DEF Waiting
  <2>5. r.up = <<>> /\ r.pool = "bind" /\ r.used = "none"
    BY <1>4, <1>5
  <2>6. PoolSize <= PoolSize
    BY <1>1
  <2> QED
    BY <1>5, <2>1, <2>3, <2>4, <2>5, <2>6 DEF Sound
<1> DEFINE d == [q EXCEPT !.down = <<"ack">>]
<1>6. q.down \o <<"ack">> = <<"ack">> /\ <<"ack">> \in Seq({"ack", "refused", "create"})
  BY <1>4
<1>7. d \in Sessions
  BY <1>3, <1>6, ZenonT(30) DEF Sessions
<1>8. /\ d.up = q.up /\ d.down = <<"ack">> /\ d.reqs = q.reqs /\ d.opening = q.opening
      /\ d.queued = q.queued /\ d.stale = q.stale /\ d.lost = q.lost
      /\ d.used = q.used /\ d.pool = q.pool
  BY <1>3 DEF Sessions
<1>9. [q EXCEPT !.down = @ \o <<"ack">>] = d
  BY <1>6, Zenon
<1> HIDE DEF d
<1>10. Sound(d)
  BY <1>5, <1>7, <1>8, Zenon
<1>11. Sound(q)
  BY <1>3, <1>4, <1>5, ZenonT(30)
<1> QED
  BY <1>9, <1>10, <1>11, Zenon DEF q, ToClient

\* The client's end goes: what it was opening is lost, what waits is stale.
LEMMA AbandonedSound ==
  ASSUME NEW s, Sound(s), NEW r, r \in Sessions,
         r.cend = "closed", r.opening = 0, r.lost = s.lost + s.opening,
         r.queued = 0, r.stale = s.stale + s.queued, r.used \notin {"live", "stalled"},
         r.used = "none" <=> s.used = "none",
         r.reqs = s.reqs, r.down = s.down, r.up = s.up, r.pool = s.pool,
         r.handshake = s.handshake, r.send = s.send, r.ctrl = s.ctrl
  PROVE  Sound(r)
<1>1. PICK q, c, o, w, t, l, u \in Nat : Amounts(s, q, c, o, w, t, l, u)
  BY Counts, ZenonT(30) DEF Sound
<1>2. Coming(r) = c /\ InUse(r) = u
  BY <1>1, ZenonT(30) DEF Coming, InUse, Amounts
<1>3. Requested(r) = Requested(s)
  BY <1>1, <1>2 DEF Requested, Amounts
<1>4. Requested(r) <= PoolSize
  BY <1>3, ZenonT(30) DEF Sound
<1>5. r.up # <<>> => Early(r)
  <2>1. SUFFICES ASSUME s.up # <<>> PROVE Early(r)
    OBVIOUS
  <2>2. Early(s)
    BY <2>1, Zenon DEF Sound
  <2> QED
    BY <2>2, SMTT(30) DEF Early
<1>6. /\ \A i \in 2..Len(r.down) : r.down[i] = "create"
      /\ r.pool \in {"serve", "body"} <=> r.used # "none"
  BY ZenonT(30) DEF Sound
<1>7. Waiting(r)
  BY Zenon DEF Waiting
<1> QED
  BY <1>4, <1>5, <1>6, <1>7, SMTT(30) DEF Sound

\* Values of the right kind make a session.
LEMMA AbandonedType ==
  ASSUME NEW s \in Sessions, NEW n \in 0..PoolSize, NEW m \in 0..PoolSize,
         NEW z \in 0..PoolSize, NEW u \in {"none", "live", "stalled", "deaf", "dead"}
  PROVE  [s EXCEPT !.cend = "closed", !.opening = z, !.lost = n, !.queued = z,
                   !.stale = m, !.used = u] \in Sessions
BY ZenonT(30) DEF Sessions

\* run returns, or the process of the client ends.
LEMMA ReturnSound ==
  ASSUME NEW s, Sound(s), NEW carrying \in {"deaf", "dead"}
  PROVE  /\ Sound(Abandoned(s, carrying))
         /\ Sound([Abandoned(s, carrying) EXCEPT
                     !.used = IF @ = "deaf" THEN "dead" ELSE @])
<1> DEFINE r == Abandoned(s, carrying)
           x == [r EXCEPT !.used = IF @ = "deaf" THEN "dead" ELSE @]
<1>1. s \in Sessions
  BY DEF Sound
<1>2. PICK q, c, o, w, t, l, u \in Nat : Amounts(s, q, c, o, w, t, l, u)
  BY <1>1, Counts, ZenonT(30)
<1>3. q + c + o + w + t + l + u <= PoolSize /\ PoolSize \in Nat
  BY <1>2, LinksAssumption, SMTT(30) DEF Sound, Requested, Amounts
<1>4. /\ 0 \in 0..PoolSize /\ s.lost + s.opening \in 0..PoolSize
      /\ s.stale + s.queued \in 0..PoolSize
  BY <1>2, <1>3, SMTT(30) DEF Amounts
<1>5. /\ (IF s.used \in {"live", "stalled"} THEN carrying ELSE s.used)
           \in {"none", "deaf", "dead"}
      /\ (IF s.used \in {"live", "stalled"} THEN carrying ELSE s.used) = "none"
           <=> s.used = "none"
  BY <1>1, SMTT(30) DEF Sessions
<1>14. (IF s.used \in {"live", "stalled"} THEN carrying ELSE s.used)
         \in {"none", "live", "stalled", "deaf", "dead"}
  BY <1>5
<1>6. r \in Sessions
  BY <1>1, <1>4, <1>14, AbandonedType, ZenonT(30) DEF Abandoned
<1>7. /\ r.cend = "closed" /\ r.opening = 0 /\ r.lost = s.lost + s.opening
      /\ r.queued = 0 /\ r.stale = s.stale + s.queued
      /\ r.used = IF s.used \in {"live", "stalled"} THEN carrying ELSE s.used
      /\ r.reqs = s.reqs /\ r.down = s.down /\ r.up = s.up /\ r.pool = s.pool
      /\ r.handshake = s.handshake /\ r.send = s.send /\ r.ctrl = s.ctrl
  BY <1>1 DEF Sessions, Abandoned
<1> HIDE DEF r
<1>8. Sound(r)
  BY <1>5, <1>6, <1>7, AbandonedSound, SMTT(30)
<1>9. (IF r.used = "deaf" THEN "dead" ELSE r.used) \in {"none", "dead"}
  BY <1>5, <1>7
<1>10. x \in Sessions
  BY <1>6, <1>9, ZenonT(30) DEF Sessions
<1>11. /\ x.cend = r.cend /\ x.opening = r.opening /\ x.lost = r.lost
       /\ x.queued = r.queued /\ x.stale = r.stale
       /\ x.used = IF r.used = "deaf" THEN "dead" ELSE r.used
       /\ x.reqs = r.reqs /\ x.down = r.down /\ x.up = r.up /\ x.pool = r.pool
       /\ x.handshake = r.handshake /\ x.send = r.send /\ x.ctrl = r.ctrl
  BY <1>6 DEF Sessions
<1> HIDE DEF x
<1>12. x.used \notin {"live", "stalled"} /\ (x.used = "none" <=> s.used = "none")
  BY <1>5, <1>7, <1>9, <1>11
<1>13. Sound(x)
  BY <1>7, <1>10, <1>11, <1>12, AbandonedSound, SMTT(30)
<1> QED
  BY <1>8, <1>13, Zenon DEF r, x

\* A new process of the server knows nothing of the session.
LEMMA CrashedType ==
  ASSUME NEW s \in Sessions, NEW x \in {"ok", "broken"}, NEW n \in 0..PoolSize,
         NEW e \in {"none", "open", "closed"}
  PROVE  [s EXCEPT !.link = x, !.cend = e, !.send = "closed",
                   !.opening = n] \in Sessions
BY ZenonT(30) DEF Sessions

\* Only what the client is opening is left.
LEMMA CrashedSound ==
  ASSUME NEW s, Sound(s), NEW x \in {"ok", "broken"}
  PROVE  Sound([Blank EXCEPT !.link = x, !.cend = s.cend, !.send = "closed",
                             !.opening = s.opening])
<1> DEFINE r == [Blank EXCEPT !.link = x, !.cend = s.cend, !.send = "closed",
                              !.opening = s.opening]
<1>1. s \in Sessions /\ Blank \in Sessions
  BY BlankSound DEF Sound
<1>2. s.opening \in 0..PoolSize /\ s.cend \in {"none", "open", "closed"}
      /\ PoolSize \in Nat
  BY <1>1, LinksAssumption DEF Sessions
<1>3. r \in Sessions
  BY <1>1, <1>2, CrashedType, Zenon
<1>4. /\ r.up = <<>> /\ r.down = <<>> /\ r.reqs = 0 /\ r.opening = s.opening
      /\ r.queued = 0 /\ r.stale = 0 /\ r.lost = 0 /\ r.used = "none"
      /\ r.pool = "none" /\ r.cend = s.cend
  BY DEF Blank
<1> HIDE DEF r
<1>5. Coming(r) = 0 /\ InUse(r) = 0
  BY <1>4 DEF Coming, InUse
<1>6. Requested(r) <= PoolSize
  BY <1>2, <1>4, <1>5, SMTT(30) DEF Requested
<1>7. r.cend # "open" => Waiting(r)
  BY <1>4, SMTT(30) DEF Sound, Waiting
<1>8. \A i \in 2..Len(r.down) : r.down[i] = "create"
  BY <1>4, SMTT(30)
<1>9. Sound(r)
  BY <1>3, <1>4, <1>6, <1>7, <1>8, SMTT(30) DEF Sound
<1> QED
  BY <1>9, Zenon DEF r

-----------------------------------------------------------------------------
(* What the server and the faults make of a session *)

\* What a step that is not the client's makes of a session: the client's end
\* is as before, and it gives the client nothing it has not asked for.
Good(r, s) == Sound(r) /\ r.cend = s.cend /\ (Waiting(s) => Waiting(r))

\* A session whose tasks have started has its auth behind it.
LEMMA AuthRead ==
  ASSUME NEW s, Sound(s),
         \/ s.opening > 0 \/ s.queued > 0 \/ s.stale > 0 \/ s.reqs > 0
         \/ s.used # "none" \/ s.ctrl # "none" \/ s.pool # "none"
         \/ s.handshake # "none" \/ s.down # <<>>
  PROVE  s.up = <<>>
<1> SUFFICES ASSUME Early(s) PROVE FALSE
  BY ZenonT(30) DEF Sound
<1> QED
  BY DEF Early

\* A data channel that was being opened fails or arrives.
LEMMA GoodOpening ==
  ASSUME NEW s, Sound(s), s.opening > 0
  PROVE  /\ Good([s EXCEPT !.opening = @ - 1, !.lost = @ + 1], s)
         /\ Good([s EXCEPT !.opening = @ - 1, !.queued = @ + 1], s)
<1>1. s.up = <<>> /\ s \in Sessions
  BY AuthRead DEF Sound
<1>2. ~Waiting(s)
  BY DEF Waiting
<1>3. /\ [s EXCEPT !.opening = @ - 1, !.lost = @ + 1].cend = s.cend
      /\ [s EXCEPT !.opening = @ - 1, !.queued = @ + 1].cend = s.cend
  BY <1>1 DEF Sessions
<1> QED
  BY <1>1, <1>2, <1>3, LostSound, ArrivedSound, ZenonT(30) DEF Good

\* The control channel task ends with its requests.
LEMMA GoodCtrlEnd ==
  ASSUME NEW s, Sound(s), s.ctrl = "run"
  PROVE  Good([s EXCEPT !.ctrl = "done", !.send = "closed", !.reqs = 0,
                        !.lost = @ + s.reqs], s)
<1> DEFINE r == [s EXCEPT !.ctrl = "done", !.send = "closed", !.reqs = 0, !.lost = @ + s.reqs]
<1>1. s.up = <<>> /\ s \in Sessions
  BY AuthRead, SMTT(30) DEF Sound
<1>2. r.cend = s.cend /\ r.opening = s.opening /\ r.queued = s.queued /\ r.used = s.used
  BY <1>1, SMTT(30) DEF Sessions
<1>3. Sound(r)
  BY <1>1, CtrlEndSound, Zenon
<1> QED
  BY <1>2, <1>3, ZenonT(30) DEF Good, Waiting

\* A request becomes a command, or is written to no one.
LEMMA GoodCreate ==
  ASSUME NEW s, Sound(s), s.reqs > 0
  PROVE  LET taken == [s EXCEPT !.reqs = @ - 1]
         IN  Good(IF Heard(taken) THEN ToClient(taken, <<"create">>)
                  ELSE [taken EXCEPT !.lost = @ + 1], s)
<1> DEFINE taken == [s EXCEPT !.reqs = @ - 1]
           r == [taken EXCEPT !.down = @ \o <<"create">>]
           x == [taken EXCEPT !.lost = @ + 1]
<1>1. s.up = <<>> /\ s \in Sessions
  BY AuthRead, SMTT(30) DEF Sound
<1>2. /\ r.cend = s.cend /\ r.opening = s.opening /\ r.queued = s.queued /\ r.used = s.used
      /\ x.cend = s.cend /\ x.opening = s.opening /\ x.queued = s.queued /\ x.used = s.used
      /\ x = [s EXCEPT !.reqs = @ - 1, !.lost = @ + 1]
  BY <1>1, SMTT(30) DEF Sessions
<1>3. Sound(r) /\ Sound(x)
  BY <1>1, <1>2, CreateWrittenSound, UnheardSound, ZenonT(30)
<1> HIDE DEF r, x
<1>4. Good(r, s) /\ Good(x, s)
  BY <1>2, <1>3, ZenonT(30) DEF Good, Waiting
<1> QED
  BY <1>4, ZenonT(30) DEF ToClient, r, x

\* The pool ends.
LEMMA GoodPoolEnd ==
  ASSUME NEW s, Sound(s), s.pool # "none"
  PROVE  Good([s EXCEPT !.pool = "done", !.queued = 0, !.stale = 0, !.used = "none"], s)
<1> DEFINE r == [s EXCEPT !.pool = "done", !.queued = 0, !.stale = 0, !.used = "none"]
<1>1. s.up = <<>> /\ s \in Sessions
  BY AuthRead, SMTT(30) DEF Sound
<1>2. r.cend = s.cend /\ r.opening = s.opening /\ r.queued = 0 /\ r.used = "none"
  BY <1>1, SMTT(30) DEF Sessions
<1>3. Sound(r)
  BY <1>1, PoolEndSound, ZenonT(30)
<1> HIDE DEF r
<1>4. Good(r, s)
  BY <1>2, <1>3 DEF Good, Waiting
<1> QED
  BY <1>4, ZenonT(30) DEF r

\* The pool binds, takes a data channel, or hangs in the body of a branch.
LEMMA GoodPool ==
  ASSUME NEW s, Sound(s)
  PROVE  /\ s.pool = "bind" => Good([s EXCEPT !.pool = "recv"], s)
         /\ s.pool = "recv" /\ s.queued > 0 =>
              Good([s EXCEPT !.pool = "serve", !.queued = @ - 1, !.used = "live"], s)
         /\ s.pool = "recv" /\ s.stale > 0 =>
              Good([s EXCEPT !.pool = "serve", !.stale = @ - 1, !.used = "dead"], s)
         /\ s.pool = "serve" => Good([s EXCEPT !.pool = "body"], s)
<1>0. s \in Sessions
  BY DEF Sound
<1>1. ASSUME s.pool = "bind" PROVE Good([s EXCEPT !.pool = "recv"], s)
  <2> DEFINE r == [s EXCEPT !.pool = "recv"]
  <2>1. s.up = <<>>
    BY <1>1, AuthRead
  <2>2. r.cend = s.cend /\ r.opening = s.opening /\ r.queued = s.queued /\ r.used = s.used
    BY <1>0, SMTT(30) DEF Sessions
  <2> QED
    BY <1>1, <2>1, <2>2, BindSound, ZenonT(30) DEF Good, Waiting
<1>2. ASSUME s.pool = "recv", s.queued > 0
      PROVE  Good([s EXCEPT !.pool = "serve", !.queued = @ - 1, !.used = "live"], s)
  <2> DEFINE r == [s EXCEPT !.pool = "serve", !.queued = @ - 1, !.used = "live"]
  <2>1. s.up = <<>>
    BY <1>2, AuthRead
  <2>2. r.cend = s.cend
    BY <1>0 DEF Sessions
  <2>3. ~Waiting(s)
    BY <1>2, SMTT(30) DEF Waiting
  <2> QED
    BY <1>2, <2>1, <2>2, <2>3, TakeLiveSound, ZenonT(30) DEF Good
<1>3. ASSUME s.pool = "recv", s.stale > 0
      PROVE  Good([s EXCEPT !.pool = "serve", !.stale = @ - 1, !.used = "dead"], s)
  <2> DEFINE r == [s EXCEPT !.pool = "serve", !.stale = @ - 1, !.used = "dead"]
  <2>1. s.up = <<>>
    BY <1>3, AuthRead
  <2>2. r.cend = s.cend /\ r.opening = s.opening /\ r.queued = s.queued /\ r.used = "dead"
    BY <1>0, SMTT(30) DEF Sessions
  <2>3. Sound(r)
    BY <1>3, <2>1, TakeStaleSound, ZenonT(30)
  <2> HIDE DEF r
  <2>4. Good(r, s)
    BY <2>2, <2>3 DEF Good, Waiting
  <2> QED
    BY <2>4, ZenonT(30) DEF r
<1>4. ASSUME s.pool = "serve" PROVE Good([s EXCEPT !.pool = "body"], s)
  <2> DEFINE r == [s EXCEPT !.pool = "body"]
  <2>1. s.up = <<>>
    BY <1>4, AuthRead, SMTT(30)
  <2>2. r.cend = s.cend /\ r.opening = s.opening /\ r.queued = s.queued /\ r.used = s.used
    BY <1>0 DEF Sessions
  <2> QED
    BY <1>4, <2>1, <2>2, BodyBlocksSound, ZenonT(30) DEF Good, Waiting
<1> QED
  BY <1>1, <1>2, <1>3, <1>4, ZenonT(30)

\* A fault, or the end of a visitor handshake.
LEMMA GoodFaults ==
  ASSUME NEW s, Sound(s)
  PROVE  /\ \A x \in {"ok", "silent", "broken"} : Good([s EXCEPT !.link = x], s)
         /\ s.queued > 0 => Good([s EXCEPT !.queued = @ - 1, !.stale = @ + 1], s)
         /\ s.used \in {"live", "stalled", "deaf"} => Good([s EXCEPT !.used = "dead"], s)
         /\ s.used = "live" => Good([s EXCEPT !.used = "stalled"], s)
         /\ s.handshake = "insert" => Good([s EXCEPT !.handshake = "done"], s)
<1>0. s \in Sessions
  BY DEF Sound
<1>1. ASSUME NEW x \in {"ok", "silent", "broken"} PROVE Good([s EXCEPT !.link = x], s)
  <2> DEFINE r == [s EXCEPT !.link = x]
  <2>2. r.cend = s.cend /\ r.opening = s.opening /\ r.queued = s.queued /\ r.used = s.used
    BY <1>0, SMTT(30) DEF Sessions
  <2> QED
    BY <2>2, LinkSound, ZenonT(30) DEF Good, Waiting
<1>2. ASSUME s.queued > 0
      PROVE  Good([s EXCEPT !.queued = @ - 1, !.stale = @ + 1], s)
  <2>1. s.up = <<>>
    BY <1>2, AuthRead
  <2>2. [s EXCEPT !.queued = @ - 1, !.stale = @ + 1].cend = s.cend
    BY <1>0 DEF Sessions
  <2>3. ~Waiting(s)
    BY <1>2, SMTT(30) DEF Waiting
  <2> QED
    BY <1>2, <2>1, <2>2, <2>3, StaleSound, ZenonT(30) DEF Good
<1>3. ASSUME s.used \in {"live", "stalled", "deaf"} PROVE Good([s EXCEPT !.used = "dead"], s)
  <2> DEFINE r == [s EXCEPT !.used = "dead"]
  <2>1. s.up = <<>>
    BY <1>3, AuthRead, SMTT(30)
  <2>2. r.cend = s.cend /\ r.opening = s.opening /\ r.queued = s.queued /\ r.used = "dead"
    BY <1>0 DEF Sessions
  <2>3. Sound(r)
    <3>1. "dead" \in {"stalled", "dead"} /\ ("dead" = "stalled" => s.used = "live")
      OBVIOUS
    <3> QED BY <1>3, <2>1, <3>1, UsedSound, ZenonT(30)
  <2> HIDE DEF r
  <2>4. Good(r, s)
    BY <2>2, <2>3 DEF Good, Waiting
  <2> QED
    BY <2>4, ZenonT(30) DEF r
<1>5. ASSUME s.used = "live" PROVE Good([s EXCEPT !.used = "stalled"], s)
  <2> DEFINE r == [s EXCEPT !.used = "stalled"]
  <2>1. s.up = <<>> /\ s.used \in {"live", "stalled", "deaf"}
    BY <1>5, AuthRead, SMTT(30)
  <2>2. r.cend = s.cend
    BY <1>0 DEF Sessions
  <2>3. Sound(r)
    <3>1. "stalled" \in {"stalled", "dead"} /\ ("stalled" = "stalled" => s.used = "live")
      BY <1>5
    <3> QED BY <2>1, <3>1, UsedSound, ZenonT(30)
  <2>4. ~Waiting(s)
    BY <1>5 DEF Waiting
  <2> QED
    BY <2>2, <2>3, <2>4, ZenonT(30) DEF Good
<1>4. ASSUME s.handshake = "insert" PROVE Good([s EXCEPT !.handshake = "done"], s)
  <2> DEFINE r == [s EXCEPT !.handshake = "done"]
  <2>1. s.up = <<>>
    BY <1>4, AuthRead, SMTT(30)
  <2>2. r.cend = s.cend /\ r.opening = s.opening /\ r.queued = s.queued /\ r.used = s.used
    BY <1>0, SMTT(30) DEF Sessions
  <2> QED
    BY <2>1, <2>2, InsertSound, ZenonT(30) DEF Good, Waiting
<1> QED
  BY <1>1, <1>2, <1>3, <1>4, <1>5, ZenonT(30)

\* The handshake succeeds, is refused, or fails.
LEMMA GoodHandshake ==
  ASSUME NEW s, Sound(s), s.up # <<>>
  PROVE  /\ Good(Failing(s), s)
         /\ Good(Failing(ToClient(s, <<"refused">>)), s)
         /\ \A h \in {"insert", "done"} : Good(ToClient(NewHandle(s, h), <<"ack">>), s)
<1>0. s \in Sessions
  BY SMTT(30) DEF Sound
<1>1. ASSUME NEW m
      PROVE  LET r == ToClient(s, m)
             IN  /\ r.cend = s.cend /\ r.opening = s.opening /\ r.queued = s.queued
                 /\ r.used = s.used /\ Failing(r).cend = r.cend
                 /\ Failing(r).opening = r.opening /\ Failing(r).queued = r.queued
                 /\ Failing(r).used = r.used
  BY <1>0, SMTT(30) DEF Sessions, ToClient, Failing
<1>2. /\ Failing(s).cend = s.cend /\ Failing(s).opening = s.opening
      /\ Failing(s).queued = s.queued /\ Failing(s).used = s.used
  BY <1>0, SMTT(30) DEF Sessions, Failing
<1>3. ASSUME NEW h \in {"insert", "done"}
      PROVE  LET r == ToClient(NewHandle(s, h), <<"ack">>)
             IN  /\ r.cend = s.cend /\ r.opening = s.opening /\ r.queued = s.queued
                 /\ r.used = s.used
  BY <1>0 DEF Sessions, ToClient, NewHandle
<1>4. Good(Failing(s), s)
  BY <1>2, FailingSound, ZenonT(30) DEF Good, Waiting
<1>5. Good(Failing(ToClient(s, <<"refused">>)), s)
  <2> DEFINE r == Failing(ToClient(s, <<"refused">>))
  <2>1. r.cend = s.cend /\ r.opening = s.opening /\ r.queued = s.queued /\ r.used = s.used
    BY <1>1, Zenon
  <2> QED
    BY <2>1, FailingSound, ZenonT(30) DEF Good, Waiting
<1>6. ASSUME NEW h \in {"insert", "done"}
      PROVE  Good(ToClient(NewHandle(s, h), <<"ack">>), s)
  BY <1>3, NewHandleSound, ZenonT(30) DEF Good, Waiting
<1> QED
  BY <1>4, <1>5, <1>6, ZenonT(30)
-----------------------------------------------------------------------------
(* The parts of a session agree, and the client is answered *)

\* What a step that is not the client's keeps of this, and of the pool's hold on
\* the address unless it is the end of the pool.
Agrees(r, s) ==
  /\ Paired(r)
  /\ s.cend = "open" /\ Unanswered(s) => Unanswered(r)
  /\ s.cend = "open" /\ Answered(s) => Answered(r)

Apt(r, s) == Agrees(r, s) /\ (s.pool \in Using => r.pool \in Using)

\* A place that is not taken.
LEMMA BlankParts ==
  /\ Blank.link = "ok" /\ Blank.cend = "none" /\ Blank.send = "none"
  /\ Blank.up = <<>> /\ Blank.down = <<>> /\ Blank.used = "none"
  /\ Blank.handshake = "none" /\ Blank.ctrl = "none" /\ Blank.pool = "none"
BY SMTT(30) DEF Blank

LEMMA BlankPaired == Paired(Blank)
BY BlankParts, SMTT(30) DEF Paired

\* What Forget drops is no part of Paired, and it leaves no session that is
\* over in its place.
LEMMA ForgetPaired ==
  ASSUME NEW s \in Sessions, Paired(s)
  PROVE  Paired(Forget(s)) /\ (Finished(Forget(s)) => Forget(s) = Blank)
<1> DEFINE r == [s EXCEPT !.link = "broken", !.down = <<>>, !.lost = 0]
<1>1. CASE Finished(s)
  BY <1>1, BlankPaired, ZenonT(30) DEF Forget
<1>2. CASE ~Finished(s) /\ s.cend = "closed" /\ s.up = <<>>
  <2>1. /\ r.link = "broken" /\ r.cend = s.cend /\ r.send = s.send /\ r.up = s.up
        /\ r.opening = s.opening /\ r.used = s.used /\ r.handshake = s.handshake
        /\ r.ctrl = s.ctrl /\ r.pool = s.pool
    BY SMTT(30) DEF Sessions
  <2>2. Forget(s) = r
    BY <1>2, ZenonT(30) DEF Forget
  <2> HIDE DEF r
  <2>3. Paired(r) /\ ~Finished(r)
    BY <1>2, <2>1, SMTT(30) DEF Paired, Finished
  <2> QED BY <2>2, <2>3, ZenonT(30)
<1>3. CASE ~Finished(s) /\ ~(s.cend = "closed" /\ s.up = <<>>)
  <2>1. Forget(s) = s
    BY <1>3, Zenon DEF Forget
  <2> QED BY <1>3, <2>1, Zenon
<1> QED BY <1>1, <1>2, <1>3, ZenonT(30)

\* The fields Paired and the answers are about.
Parts(r, s) ==
  /\ r.link = s.link /\ r.cend = s.cend /\ r.send = s.send /\ r.up = s.up
  /\ r.down = s.down /\ r.used = s.used /\ r.handshake = s.handshake
  /\ r.ctrl = s.ctrl /\ r.pool = s.pool

\* Where the data channels are changes none of them.
LEMMA PartsApt ==
  ASSUME NEW r, NEW s, Paired(s), Parts(r, s)
  PROVE  Apt(r, s)
BY ZenonT(30) DEF Apt, Agrees, Using, Parts, Paired, Unanswered, Answered

\* A data channel changes its place.
LEMMA MovedApt ==
  ASSUME NEW s \in Sessions, Paired(s)
  PROVE  /\ Apt([s EXCEPT !.opening = @ - 1, !.lost = @ + 1], s)
         /\ Apt([s EXCEPT !.opening = @ - 1, !.queued = @ + 1], s)
         /\ Apt([s EXCEPT !.queued = @ - 1, !.stale = @ + 1], s)
<1>1. /\ Parts([s EXCEPT !.opening = @ - 1, !.lost = @ + 1], s)
      /\ Parts([s EXCEPT !.opening = @ - 1, !.queued = @ + 1], s)
      /\ Parts([s EXCEPT !.queued = @ - 1, !.stale = @ + 1], s)
  BY SMTT(30) DEF Sessions, Parts
<1> QED
  BY <1>1, PartsApt, Zenon

\* The control channel ends.
LEMMA CtrlEndApt ==
  ASSUME NEW s \in Sessions, Paired(s)
  PROVE  Apt([s EXCEPT !.ctrl = "done", !.send = "closed", !.reqs = 0,
                       !.lost = @ + s.reqs], s)
<1> DEFINE r == [s EXCEPT !.ctrl = "done", !.send = "closed", !.reqs = 0, !.lost = @ + s.reqs]
<1>1. /\ r.cend = s.cend /\ r.send = "closed" /\ r.down = s.down /\ r.used = s.used
      /\ r.handshake = s.handshake /\ r.ctrl = "done" /\ r.pool = s.pool
  BY SMTT(30) DEF Sessions
<1> HIDE DEF r
<1>2. Apt(r, s)
  BY <1>1, SMTT(30) DEF Apt, Agrees, Using, Paired, Unanswered, Answered
<1> QED BY <1>2, ZenonT(30) DEF r

\* A request becomes a command that the client will read,
LEMMA CreateApt ==
  ASSUME NEW s \in Sessions, Paired(s), s.ctrl = "run"
  PROVE  LET taken == [s EXCEPT !.reqs = @ - 1]
         IN  Apt(IF Heard(taken) THEN ToClient(taken, <<"create">>)
                 ELSE [taken EXCEPT !.lost = @ + 1], s)
<1> DEFINE taken == [s EXCEPT !.reqs = @ - 1]
           r == [taken EXCEPT !.down = @ \o <<"create">>]
           x == [taken EXCEPT !.lost = @ + 1]
<1>1. Parts(x, s)
  BY SMTT(30) DEF Sessions, Parts
<1>2. Apt(x, s)
  BY <1>1, PartsApt, ZenonT(30)
<1>3. /\ r.link = s.link /\ r.cend = s.cend /\ r.send = s.send /\ r.up = s.up
      /\ r.down = s.down \o <<"create">> /\ r.used = s.used
      /\ r.handshake = s.handshake /\ r.ctrl = s.ctrl /\ r.pool = s.pool
      /\ Heard(taken) = Heard(s)
  BY SMTT(30) DEF Sessions, Heard
<1>4. s.down \in Seq({"ack", "refused", "create"})
  BY DEF Sessions
<1>5. /\ r.down # <<>>
      /\ s.down = <<>> => Head(r.down) = "create"
      /\ s.down # <<>> => Head(r.down) = Head(s.down)
  BY <1>3, <1>4, SMTT(30)
<1> HIDE DEF r, x
<1>6. ASSUME Heard(s) PROVE Apt(r, s)
  BY <1>3, <1>5, <1>6, SMTT(30) DEF Apt, Agrees, Using, Paired, Unanswered, Answered, Heard
<1> QED
  BY <1>2, <1>3, <1>6, ZenonT(30) DEF ToClient, r, x

\* The pool ends,
LEMMA PoolEndAgrees ==
  ASSUME NEW s \in Sessions, Paired(s), s.pool # "none"
  PROVE  Agrees([s EXCEPT !.pool = "done", !.queued = 0, !.stale = 0, !.used = "none"], s)
<1> DEFINE r == [s EXCEPT !.pool = "done", !.queued = 0, !.stale = 0, !.used = "none"]
<1>1. /\ r.link = s.link /\ r.cend = s.cend /\ r.send = s.send /\ r.up = s.up
      /\ r.down = s.down /\ r.used = "none"
      /\ r.handshake = s.handshake /\ r.ctrl = s.ctrl /\ r.pool = "done"
  BY SMTT(30) DEF Sessions
<1> HIDE DEF r
<1>2. Agrees(r, s)
  BY <1>1, SMTT(30) DEF Agrees, Paired, Unanswered, Answered
<1> QED BY <1>2, ZenonT(30) DEF r

\* ... binds its address,
LEMMA BindApt ==
  ASSUME NEW s \in Sessions, Paired(s), s.pool = "bind"
  PROVE  Apt([s EXCEPT !.pool = "recv"], s)
<1> DEFINE r == [s EXCEPT !.pool = "recv"]
<1>1. /\ r.link = s.link /\ r.cend = s.cend /\ r.send = s.send /\ r.up = s.up
      /\ r.down = s.down /\ r.used = s.used
      /\ r.handshake = s.handshake /\ r.ctrl = s.ctrl /\ r.pool = "recv"
  BY SMTT(30) DEF Sessions
<1> HIDE DEF r
<1>2. Apt(r, s)
  BY <1>1, SMTT(30) DEF Apt, Agrees, Using, Paired, Unanswered, Answered
<1> QED BY <1>2, Zenon DEF r

\* ... takes a data channel
LEMMA TakeLiveApt ==
  ASSUME NEW s \in Sessions, Paired(s), s.pool = "recv"
  PROVE  Apt([s EXCEPT !.pool = "serve", !.queued = @ - 1, !.used = "live"], s)
<1> DEFINE r == [s EXCEPT !.pool = "serve", !.queued = @ - 1, !.used = "live"]
<1>1. /\ r.link = s.link /\ r.cend = s.cend /\ r.send = s.send /\ r.up = s.up
      /\ r.down = s.down /\ r.used = "live"
      /\ r.handshake = s.handshake /\ r.ctrl = s.ctrl /\ r.pool = "serve"
  BY SMTT(30) DEF Sessions
<1> HIDE DEF r
<1>2. Apt(r, s)
  BY <1>1, SMTT(30) DEF Apt, Agrees, Using, Paired, Unanswered, Answered
<1> QED BY <1>2, ZenonT(30) DEF r

\* ... that has a client or none,
LEMMA TakeDeadApt ==
  ASSUME NEW s \in Sessions, Paired(s), s.pool = "recv"
  PROVE  Apt([s EXCEPT !.pool = "serve", !.stale = @ - 1, !.used = "dead"], s)
<1> DEFINE r == [s EXCEPT !.pool = "serve", !.stale = @ - 1, !.used = "dead"]
<1>1. /\ r.link = s.link /\ r.cend = s.cend /\ r.send = s.send /\ r.up = s.up
      /\ r.down = s.down /\ r.used = "dead"
      /\ r.handshake = s.handshake /\ r.ctrl = s.ctrl /\ r.pool = "serve"
  BY SMTT(30) DEF Sessions
<1> HIDE DEF r
<1>2. Apt(r, s)
  BY <1>1, SMTT(30) DEF Apt, Agrees, Using, Paired, Unanswered, Answered
<1> QED BY <1>2, ZenonT(30) DEF r

\* ... or hangs in the body of a branch.
LEMMA BodyBlocksApt ==
  ASSUME NEW s \in Sessions, Paired(s), s.pool = "serve"
  PROVE  Apt([s EXCEPT !.pool = "body"], s)
<1> DEFINE r == [s EXCEPT !.pool = "body"]
<1>1. /\ r.link = s.link /\ r.cend = s.cend /\ r.send = s.send /\ r.up = s.up
      /\ r.down = s.down /\ r.used = s.used
      /\ r.handshake = s.handshake /\ r.ctrl = s.ctrl /\ r.pool = "body"
  BY SMTT(30) DEF Sessions
<1> HIDE DEF r
<1>2. Apt(r, s)
  BY <1>1, SMTT(30) DEF Apt, Agrees, Using, Paired, Unanswered, Answered
<1> QED BY <1>2, ZenonT(30) DEF r

\* A data channel stalls or fails.
LEMMA UsedApt ==
  ASSUME NEW s \in Sessions, Paired(s), NEW v \in {"stalled", "dead"}
  PROVE  Apt([s EXCEPT !.used = v], s)
<1> DEFINE r == [s EXCEPT !.used = v]
<1>1. /\ r.link = s.link /\ r.cend = s.cend /\ r.send = s.send /\ r.up = s.up
      /\ r.down = s.down /\ r.used = v
      /\ r.handshake = s.handshake /\ r.ctrl = s.ctrl /\ r.pool = s.pool
  BY SMTT(30) DEF Sessions
<1> HIDE DEF r
<1>2. Apt(r, s)
  BY <1>1, SMTT(30) DEF Apt, Agrees, Using, Paired, Unanswered, Answered
<1> QED BY <1>2, ZenonT(30) DEF r

\* The connection breaks or falls silent.
LEMMA LinkApt ==
  ASSUME NEW s \in Sessions, Paired(s), NEW l \in {"silent", "broken"}
  PROVE  Apt([s EXCEPT !.link = l], s)
<1> DEFINE r == [s EXCEPT !.link = l]
<1>1. /\ r.link = l /\ r.cend = s.cend /\ r.send = s.send /\ r.up = s.up
      /\ r.down = s.down /\ r.used = s.used
      /\ r.handshake = s.handshake /\ r.ctrl = s.ctrl /\ r.pool = s.pool
  BY SMTT(30) DEF Sessions
<1> HIDE DEF r
<1>2. Apt(r, s)
  BY <1>1, SMTT(30) DEF Apt, Agrees, Using, Paired, Unanswered, Answered
<1> QED BY <1>2, Zenon DEF r

\* The handle of a visitor session enters the map.
LEMMA InsertApt ==
  ASSUME NEW s \in Sessions, Paired(s), s.handshake = "insert"
  PROVE  Apt([s EXCEPT !.handshake = "done"], s)
<1> DEFINE r == [s EXCEPT !.handshake = "done"]
<1>1. /\ r.link = s.link /\ r.cend = s.cend /\ r.send = s.send /\ r.up = s.up
      /\ r.down = s.down /\ r.used = s.used
      /\ r.handshake = "done" /\ r.ctrl = s.ctrl /\ r.pool = s.pool
  BY SMTT(30) DEF Sessions
<1> HIDE DEF r
<1>2. Apt(r, s)
  BY <1>1, SMTT(30) DEF Apt, Agrees, Using, Paired, Unanswered, Answered
<1> QED BY <1>2, Zenon DEF r

\* The auth is read: the session starts and its client is answered, or it fails
\* with or without a refusal.
LEMMA HandshakeApt ==
  ASSUME NEW s, Sound(s), Paired(s), s.up # <<>>
  PROVE  /\ Apt(Failing(s), s)
         /\ Apt(Failing(ToClient(s, <<"refused">>)), s)
         /\ \A h \in {"insert", "done"} : Apt(ToClient(NewHandle(s, h), <<"ack">>), s)
<1>1. s \in Sessions /\ Early(s)
  BY ZenonT(30) DEF Sound
<1>2. /\ s.send = "none" /\ s.down = <<>> /\ s.used = "none" /\ s.ctrl = "none"
      /\ s.pool = "none"
  BY <1>1, ZenonT(30) DEF Early
<1>3. ~Answered(s)
  BY <1>2, ZenonT(30) DEF Answered
<1>4. ASSUME NEW r, r.cend = s.cend, r.link = s.link, r.down \in {<<>>, <<"refused">>},
             r.used = "none", r.pool = "none", r.ctrl = "none", r.send = "closed"
      PROVE  Apt(r, s)
  BY <1>2, <1>3, <1>4, SMTT(30) DEF Apt, Agrees, Using, Paired, Unanswered
<1>5. LET r == Failing(s)
      IN  /\ r.cend = s.cend /\ r.link = s.link /\ r.down = <<>> /\ r.used = "none"
          /\ r.pool = "none" /\ r.ctrl = "none" /\ r.send = "closed"
  BY <1>1, <1>2, SMTT(30) DEF Sessions, Failing
<1>6. LET r == Failing(ToClient(s, <<"refused">>))
      IN  /\ r.cend = s.cend /\ r.link = s.link /\ r.down \in {<<>>, <<"refused">>}
          /\ r.used = "none" /\ r.pool = "none" /\ r.ctrl = "none" /\ r.send = "closed"
  BY <1>1, <1>2, SMTT(30) DEF Sessions, Failing, ToClient
<1>7. ASSUME NEW h \in {"insert", "done"}
      PROVE  Apt(ToClient(NewHandle(s, h), <<"ack">>), s)
  <2> DEFINE n == NewHandle(s, h)
             r == [n EXCEPT !.down = @ \o <<"ack">>]
  <2>1. /\ n.cend = s.cend /\ n.link = s.link /\ n.down = <<>> /\ n.used = "none"
        /\ n.pool = "bind" /\ n.ctrl = "run" /\ n.send = "open" /\ n.handshake = h
    BY <1>1, <1>2, SMTT(30) DEF Sessions, NewHandle
  <2>2. n \in Sessions
    BY <1>1, NewHandleType, ZenonT(30)
  <2> HIDE DEF n
  <2>3. /\ r.cend = n.cend /\ r.link = n.link /\ r.down = n.down \o <<"ack">>
        /\ r.used = n.used /\ r.pool = n.pool /\ r.ctrl = n.ctrl /\ r.send = n.send
        /\ r.handshake = n.handshake
    BY <2>2, SMTT(30) DEF Sessions
  <2> HIDE DEF r
  <2>4. r.down = <<"ack">>
    BY <2>1, <2>3, SMTT(30)
  <2>5. Apt(r, s)
    BY <1>2, <1>3, <2>1, <2>3, <2>4, SMTT(30) DEF Apt, Agrees, Using, Paired, Unanswered
  <2>6. ASSUME ~Heard(n) PROVE Apt(n, s)
    BY <1>2, <1>3, <2>1, <2>6, SMTT(30) DEF Apt, Agrees, Using, Paired, Unanswered, Heard
  <2> QED BY <2>5, <2>6, ZenonT(30) DEF ToClient, n, r
<1> QED
  BY <1>4, <1>5, <1>6, <1>7, ZenonT(30)

\* After the first answer there are commands only.
LEMMA TailAnswer ==
  ASSUME NEW s, Sound(s), s.down # <<>>
  PROVE  Tail(s.down) # <<>> => Head(Tail(s.down)) = "create"
<1>1. /\ s.down \in Seq({"ack", "refused", "create"})
      /\ \A i \in 2..Len(s.down) : s.down[i] = "create"
  BY SMTT(30) DEF Sound, Sessions
<1> HIDE DEF Sound
<1>2. ASSUME Tail(s.down) # <<>>
      PROVE  Head(Tail(s.down)) = s.down[2] /\ 2 \in 2..Len(s.down)
  BY <1>1, <1>2, SMTT(30)
<1> QED
  BY <1>1, <1>2, SMTT(30)

\* A session with a message to its client has answered it.
LEMMA DownSent ==
  ASSUME NEW s, Sound(s), Paired(s), s.cend = "open", s.down # <<>>
  PROVE  s.send # "none"
BY ZenonT(30) DEF Sound, Paired, Early

\* The client reads the answer,
LEMMA AckReadParts ==
  ASSUME NEW s, Sound(s), Paired(s), s.cend = "open", s.down # <<>>
  PROVE  /\ Paired([s EXCEPT !.down = Tail(@)])
         /\ Answered([s EXCEPT !.down = Tail(@)])
<1> DEFINE r == [s EXCEPT !.down = Tail(@)]
<1>1. s \in Sessions /\ s.send # "none"
  BY DownSent, ZenonT(30) DEF Sound
<1>2. Tail(s.down) # <<>> => Head(Tail(s.down)) = "create"
  BY TailAnswer, ZenonT(30)
<1>3. /\ r.cend = s.cend /\ r.send = s.send /\ r.up = s.up /\ r.down = Tail(s.down)
      /\ r.used = s.used /\ r.handshake = s.handshake /\ r.ctrl = s.ctrl
      /\ r.pool = s.pool
  BY <1>1, SMTT(30) DEF Sessions
<1> HIDE DEF r
<1>4. Paired(r)
  BY <1>3, ZenonT(30) DEF Paired
<1>5. Answered(r)
  BY <1>1, <1>2, <1>3, ZenonT(30) DEF Answered
<1> QED BY <1>4, <1>5, ZenonT(30) DEF r

\* ... and a command.
LEMMA CreateReadParts ==
  ASSUME NEW s, Sound(s), Paired(s), s.cend = "open", s.down # <<>>
  PROVE  /\ Paired([s EXCEPT !.down = Tail(@), !.opening = @ + 1])
         /\ Answered([s EXCEPT !.down = Tail(@), !.opening = @ + 1])
<1> DEFINE r == [s EXCEPT !.down = Tail(@), !.opening = @ + 1]
<1>1. s \in Sessions /\ s.send # "none"
  BY DownSent, Zenon DEF Sound
<1>2. Tail(s.down) # <<>> => Head(Tail(s.down)) = "create"
  BY TailAnswer, Zenon
<1>3. /\ r.cend = s.cend /\ r.send = s.send /\ r.up = s.up /\ r.down = Tail(s.down)
      /\ r.used = s.used /\ r.handshake = s.handshake /\ r.ctrl = s.ctrl
      /\ r.pool = s.pool
  BY <1>1, SMTT(30) DEF Sessions
<1> HIDE DEF r
<1>4. Paired(r)
  BY <1>3, Zenon DEF Paired
<1>5. Answered(r)
  BY <1>1, <1>2, <1>3, Zenon DEF Answered
<1> QED BY <1>4, <1>5, ZenonT(30) DEF r

\* The client's end goes,
LEMMA AbandonedPaired ==
  ASSUME NEW s \in Sessions, Paired(s), NEW d \in {"deaf", "dead"}
  PROVE  Paired(Abandoned(s, d)) /\ Abandoned(s, d).pool = s.pool
<1> DEFINE r == Abandoned(s, d)
<1>1. /\ r.cend = "closed" /\ r.send = s.send /\ r.handshake = s.handshake
      /\ r.used = (IF s.used \in {"live", "stalled"} THEN d ELSE s.used)
      /\ r.ctrl = s.ctrl /\ r.pool = s.pool
  BY SMTT(30) DEF Sessions, Abandoned
<1> HIDE DEF r
<1>2. Paired(r)
  BY <1>1, SMTT(30) DEF Paired
<1> QED BY <1>1, <1>2, ZenonT(30) DEF r

\* ... with the process that held its forwarders,
LEMMA DiedPaired ==
  ASSUME NEW s \in Sessions, Paired(s), s.cend = "closed"
  PROVE  LET r == [s EXCEPT !.used = IF @ = "deaf" THEN "dead" ELSE @]
         IN  Paired(r) /\ r.pool = s.pool
<1> DEFINE r == [s EXCEPT !.used = IF @ = "deaf" THEN "dead" ELSE @]
<1>1. /\ r.cend = "closed" /\ r.send = s.send /\ r.handshake = s.handshake
      /\ r.used = (IF s.used = "deaf" THEN "dead" ELSE s.used)
      /\ r.ctrl = s.ctrl /\ r.pool = s.pool
  BY SMTT(30) DEF Sessions
<1> HIDE DEF r
<1>2. Paired(r)
  BY <1>1, SMTT(30) DEF Paired
<1> QED BY <1>1, <1>2, ZenonT(30) DEF r

\* ... or comes.
LEMMA ConnectPaired ==
  LET r == [Blank EXCEPT !.cend = "open", !.up = <<"auth">>]
  IN  Paired(r) /\ Unanswered(r)
BY SMTT(30) DEF Blank, Paired, Unanswered

\* The server restarts: the client hears of it.
LEMMA CrashedPaired ==
  ASSUME NEW l, NEW e, NEW o
  PROVE  LET r == [Blank EXCEPT !.link = l, !.cend = e, !.send = "closed", !.opening = o]
         IN  Paired(r) /\ Unanswered(r) /\ Answered(r)
BY SMTT(30) DEF Blank, Paired, Unanswered, Answered

LEMMA ForgetKept ==
  ASSUME NEW s \in Sessions, Paired(s)
  PROVE  Kept(Forget(s)) /\ (s.pool \in Using => Forget(s).pool = s.pool)
<1>1. [s EXCEPT !.link = "broken", !.down = <<>>, !.lost = 0].pool = s.pool
  BY SMTT(30) DEF Sessions
<1>2. s.pool \in Using => ~Finished(s)
  BY DEF Using, Finished
<1> QED BY <1>1, <1>2, ForgetPaired, ZenonT(30) DEF Kept, Forget
=============================================================================
