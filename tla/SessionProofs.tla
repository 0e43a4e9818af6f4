---------------------------- MODULE SessionProofs ----------------------------
(***************************************************************************)
(* Proofs about Session, the second part: every step, of the client, of    *)
(* the server or of what fails between them, keeps the invariants of       *)
(* SessionStepProofs.  So the data channels of a session are accounted     *)
(* for, wherever they are, and end with the control channel that opened    *)
(* them; and the two sides come to rest nowhere but where the service is   *)
(* served or one of the exceptions of Recovers is met.                     *)
(***************************************************************************)
EXTENDS SessionStepProofs, TLAPS
-----------------------------------------------------------------------------
(* The sessions and their owners *)

\* No session exists, no task has one.
LEMMA InitLinked == Init => Linked /\ Rest
<1> SUFFICES ASSUME Init PROVE Linked /\ Rest
  OBVIOUS
<1>1. /\ conns = [c \in Conns |-> Blank] /\ conn = [t \in Tasks |-> 0]
      /\ pc = [t \in Tasks |-> IF t = 1 THEN "connect" ELSE "none"] /\ spawned = 1
  BY SMTT(30) DEF Init, LinksInit, ClientInit
<1>2. Sound(Blank) /\ Blank \in Sessions /\ Blank.cend = "none"
  BY BlankSound, SMTT(30) DEF Sound, Blank
<1>3. Owned
  BY <1>1, <1>2, TasksAssumption DEF Owned, Tasks
<1>4. Linked
  BY <1>1, <1>2, <1>3, SMTT(30) DEF Linked
<1>5. Rest
  BY EventsAssumption DEF Init, LinksInit, PoolInit, PoolTypeOK, Rest
<1> QED BY <1>4, <1>5

\* The sessions change, their owners do not.
LEMMA OwnersKeep ==
  ASSUME Linked, conns' \in [Conns -> Sessions], \A c \in Conns : Sound(conns'[c]),
         \A c \in Conns : conns'[c].cend = "open" <=> conns[c].cend = "open",
         conn' = conn, spawned' = spawned,
         \A t \in Tasks : pc'[t] \in {"ack", "serve"} <=> pc[t] \in {"ack", "serve"},
         \A t \in Tasks : pc'[t] = "ack" => Waiting(conns'[conn[t]]),
         \A t \in Tasks : t > spawned => pc'[t] = "none"
  PROVE  Linked'
<1>1. ASSUME NEW t \in Tasks, conn[t] # 0 PROVE conn[t] \in Conns
  BY <1>1, SMTT(30) DEF Linked
<1>2. Owned'
  BY <1>1 DEF Linked, Owned
<1> QED
  BY <1>2 DEF Linked

\* One session changes, as Good says.
LEMMA SessionKeeps ==
  ASSUME Linked, NEW c \in Conns, NEW s, Good(s, conns[c]), Becomes(c, s),
         UNCHANGED <<pc, conn, spawned>>
  PROVE  Linked'
<1>0. conns' = [conns EXCEPT ![c] = Forget(s)] /\ conns \in [Conns -> Sessions]
      /\ \A d \in Conns : Sound(conns[d])
  BY DEF Becomes, Linked
<1>1. Sound(Forget(s))
  BY ForgetSound, Zenon DEF Good
<1>2. Forget(s).cend = "open" <=> conns[c].cend = "open"
  BY ForgetOpen, Zenon DEF Good
<1>3. Forget(s) \in Sessions
  BY <1>1, ZenonT(30) DEF Sound
<1>4. /\ conns' \in [Conns -> Sessions]
      /\ conns'[c] = Forget(s) /\ \A d \in Conns : d # c => conns'[d] = conns[d]
  BY <1>0, <1>3
<1>5. /\ \A d \in Conns : Sound(conns'[d])
      /\ \A d \in Conns : conns'[d].cend = "open" <=> conns[d].cend = "open"
  BY <1>0, <1>1, <1>2, <1>4, ZenonT(30)
<1>6. ASSUME NEW t \in Tasks, pc[t] = "ack" PROVE Waiting(conns'[conn[t]])
  <2>1. Waiting(conns[conn[t]]) /\ conn[t] \in Conns /\ conns[conn[t]].cend = "open"
    BY <1>6 DEF Linked, Owned
  <2>2. CASE conn[t] = c
    <3>1. s.cend = "open" /\ Waiting(s)
      BY <2>1, <2>2, ZenonT(30) DEF Good
    <3>2. Forget(s) = s
      BY <3>1, ForgetOpen, ZenonT(30)
    <3> QED BY <1>4, <2>2, <3>1, <3>2, ZenonT(30)
  <2> QED BY <1>4, <2>1, <2>2, ZenonT(30)
<1>7. \A t \in Tasks : t > spawned => pc[t] = "none"
  BY DEF Linked, Owned
<1> QED
  BY <1>4, <1>5, <1>6, <1>7, OwnersKeep, ZenonT(30)

\* Neither the sessions nor their owners change.
LEMMA PlacesKeep ==
  ASSUME Linked, UNCHANGED <<conns, conn>>,
         \A t \in Tasks : pc[t] \in {"ack", "serve"} \/ pc'[t] \in {"ack", "serve"}
                            => pc'[t] = pc[t],
         \A t \in Tasks : t > spawned' => pc'[t] = "none"
  PROVE  Linked'
<1>1. Owned'
  BY DEF Linked, Owned
<1> QED
  BY <1>1, SMTT(30) DEF Linked

\* An auth that arrives was on its way.
LEMMA AuthArrivesUp ==
  ASSUME NEW c, AuthArrives(c)
  PROVE  conns[c].up # <<>>
BY Zenon DEF AuthArrives, Arrives

\* What becomes of a session in a step of the server, and of the address: a pool
\* that has it keeps it to its end.
Stepping(c, s) ==
  /\ Good(s, conns[c]) /\ Becomes(c, s)
  /\ Paired(conns[c]) => Agrees(s, conns[c])
  /\ \/ addr' = addr /\ (Paired(conns[c]) /\ conns[c].pool \in Using => s.pool \in Using)
     \/ addr' = c /\ s.pool \in Using
     \/ addr' # c /\ addr' \in {addr, 0}

\* A step that is Good and Apt leaves the address alone.
LEMMA AptStepping ==
  ASSUME NEW c, NEW s, Good(s, conns[c]), Paired(conns[c]) => Apt(s, conns[c]),
         Becomes(c, s), addr' = addr
  PROVE  Stepping(c, s)
BY Zenon DEF Stepping, Apt

\* Every step of the server is one of these, for one session.
LEMMA ServerGood ==
  ASSUME Linked, NEW c \in Conns,
         \/ ReadAuth(c) \/ ReadVisitorAuth(c) \/ InsertVisitor(c)
         \/ ReadDataHello(c) \/ Refuse(c) \/ SocketFails(c)
         \/ WriteCreate(c) \/ WriteCmdFails(c) \/ RequestsEnd(c)
         \/ CtrlShutdown(c) \/ BodyBlocks(c)
         \/ Bind(c) \/ BindShutdown(c) \/ TakeDataChannel(c) \/ TakeStale(c)
         \/ NoDataChannel(c) \/ DataChannelFails(c) \/ PoolShutdown(c)
  PROVE  /\ \E s : Stepping(c, s)
         /\ visitor' = visitor /\ map' \in {map, c, 0} /\ addr' \in {addr, c, 0}
<1>0. Sound(conns[c]) /\ conns[c] \in Sessions
  BY DEF Linked
<1>1. CASE ReadAuth(c) \/ ReadVisitorAuth(c) \/ Refuse(c)
  <2>1. conns[c].up # <<>>
    BY <1>1, AuthArrivesUp, ZenonT(30) DEF ReadAuth, ReadVisitorAuth, Refuse
  <2>2. ASSUME NEW s, Becomes(c, s), addr' = addr,
               \/ s = Failing(conns[c]) \/ s = Failing(ToClient(conns[c], <<"refused">>))
               \/ s = ToClient(NewHandle(conns[c], "done"), <<"ack">>)
               \/ s = ToClient(NewHandle(conns[c], "insert"), <<"ack">>)
        PROVE  Stepping(c, s)
    <3>1. Good(s, conns[c])
      BY <1>0, <2>1, <2>2, GoodHandshake, ZenonT(30)
    <3>2. Paired(conns[c]) => Apt(s, conns[c])
      BY <1>0, <2>1, <2>2, HandshakeApt, ZenonT(30)
    <3> QED BY <2>2, <3>1, <3>2, AptStepping, ZenonT(30)
  <2>3. \E s : Stepping(c, s)
    BY <1>1, <2>2, ZenonT(30) DEF ReadAuth, ReadVisitorAuth, Refuse, server
  <2> QED BY <1>1, <2>3, ZenonT(30) DEF ReadAuth, ReadVisitorAuth, Refuse, server
<1>2. CASE InsertVisitor(c)
  BY <1>0, <1>2, GoodFaults, InsertApt, AptStepping, ZenonT(30) DEF InsertVisitor
<1>3. CASE ReadDataHello(c)
  BY <1>0, <1>3, GoodOpening, MovedApt, AptStepping, ZenonT(30) DEF ReadDataHello, server
<1>4. CASE WriteCreate(c)
  BY <1>0, <1>4, GoodCreate, CreateApt, AptStepping, ZenonT(30) DEF WriteCreate, server
<1>5. CASE WriteCmdFails(c) \/ RequestsEnd(c) \/ CtrlShutdown(c)
  BY <1>0, <1>5, GoodCtrlEnd, CtrlEndApt, AptStepping, ZenonT(30)
  DEF WriteCmdFails, RequestsEnd, CtrlShutdown, CtrlEnd, server
<1>6. CASE BodyBlocks(c)
  BY <1>0, <1>6, GoodPool, BodyBlocksApt, AptStepping, ZenonT(30) DEF BodyBlocks, server
<1>7. CASE TakeDataChannel(c)
  BY <1>0, <1>7, GoodPool, TakeLiveApt, TakeDeadApt, AptStepping, ZenonT(30)
  DEF TakeDataChannel, server
<1>8. CASE Bind(c)
  <2> DEFINE s == [conns[c] EXCEPT !.pool = "recv"]
  <2>1. Good(s, conns[c]) /\ (Paired(conns[c]) => Agrees(s, conns[c]))
    BY <1>0, <1>8, GoodPool, BindApt, ZenonT(30) DEF Bind, Apt
  <2>2. s.pool \in Using
    BY <1>0, SMTT(30) DEF Sessions, Using
  <2> QED BY <1>8, <2>1, <2>2, ZenonT(30) DEF Bind, Stepping
<1>9. CASE \/ BindShutdown(c) \/ TakeStale(c) \/ NoDataChannel(c)
           \/ DataChannelFails(c) \/ PoolShutdown(c) \/ SocketFails(c)
  <2>1. PoolEnd(c) /\ conns[c].pool # "none"
    BY <1>9, SMTT(30) DEF BindShutdown, TakeStale, NoDataChannel, DataChannelFails,
                PoolShutdown, SocketFails
  <2>2. addr' # c /\ addr' \in {addr, 0}
    BY <2>1, LinksAssumption DEF PoolEnd
  <2> QED BY <1>0, <2>1, <2>2, GoodPoolEnd, PoolEndAgrees, ZenonT(30) DEF PoolEnd, Stepping
<1> QED
  BY <1>1, <1>2, <1>3, <1>4, <1>5, <1>6, <1>7, <1>8, <1>9, ZenonT(30)

\* So is every fault of one session.
LEMMA FaultGood ==
  ASSUME Linked, NEW c \in Conns, UNCHANGED server,
         \/ OpenFails(c) \/ ForwardersEnd(c) \/ LinkFails(c) \/ DataLinkFails(c)
         \/ ChunkForgotten(c) \/ SilenceEnds(c)
  PROVE  /\ \E s : Stepping(c, s)
         /\ UNCHANGED <<visitor, client>>
<1>0. Sound(conns[c]) /\ conns[c] \in Sessions /\ addr' = addr
  BY DEF Linked, server
<1>1. CASE OpenFails(c)
  BY <1>0, <1>1, GoodOpening, MovedApt, AptStepping, ZenonT(30) DEF OpenFails
<1>4. Paired(conns[c]) => \A v \in {"stalled", "dead"} :
                               Apt([conns[c] EXCEPT !.used = v], conns[c])
  BY <1>0, UsedApt, ZenonT(30)
<1>2. CASE ForwardersEnd(c) \/ DataLinkFails(c) \/ ChunkForgotten(c)
  BY <1>0, <1>2, <1>4, GoodFaults, MovedApt, AptStepping, ZenonT(30)
  DEF ForwardersEnd, DataLinkFails, ChunkForgotten
<1>3. CASE LinkFails(c) \/ SilenceEnds(c)
  BY <1>0, <1>3, GoodFaults, LinkApt, AptStepping, ZenonT(30) DEF LinkFails, SilenceEnds
<1> QED
  BY <1>1, <1>2, <1>3, ZenonT(30)

\* The ack is read: the owner goes on to its established channel.
LEMMA ReadAckKeeps ==
  ASSUME IInv, Linked, NEW t \in Tasks, ReadAck(t)
  PROVE  Linked'
<1> DEFINE s == Mine(t)
           r == [s EXCEPT !.down = Tail(@)]
<1>0. /\ pc[t] = "ack" /\ s.down # <<>> /\ Head(s.down) = "ack"
      /\ Becomes(conn[t], r) /\ pc' = [pc EXCEPT ![t] = "serve"]
      /\ UNCHANGED <<conn, handles>>
  BY ZenonT(30) DEF ReadAck, Arrives, Goto
<1>1. conn[t] \in Conns /\ s.cend = "open" /\ Sound(s)
  BY <1>0, MineOpen, SMTT(30)
<1>2. s.up = <<>> /\ s \in Sessions
  BY <1>0, <1>1, AuthRead, SMTT(30) DEF Sound
<1>3. Sound(r)
  <2>1. Head(s.down) # "create"
    BY <1>0, SMTT(30)
  <2> QED BY <1>0, <1>1, <1>2, <2>1, AckReadSound, ZenonT(30)
<1>4. r.cend = "open" /\ r \in Sessions
  BY <1>1, <1>2, <1>3, SMTT(30) DEF Sessions, Sound
<1>5. Forget(r) = r
  BY <1>4, ForgetOpen, ZenonT(30)
<1> HIDE DEF r
<1>6. conns' = [conns EXCEPT ![conn[t]] = r] /\ conns \in [Conns -> Sessions]
      /\ pc \in [Tasks -> Places] /\ spawned' = spawned /\ conn' = conn
      /\ \A d \in Conns : Sound(conns[d])
  BY <1>0, <1>5, SMTT(30) DEF Becomes, Linked, IInv, Shape, handles
<1>7. /\ conns' \in [Conns -> Sessions]
      /\ conns'[conn[t]] = r /\ \A d \in Conns : d # conn[t] => conns'[d] = conns[d]
  BY <1>1, <1>4, <1>6, SMTT(30)
<1>8. /\ \A d \in Conns : Sound(conns'[d])
      /\ \A d \in Conns : conns'[d].cend = "open" <=> conns[d].cend = "open"
  BY <1>1, <1>3, <1>4, <1>6, <1>7, ZenonT(30) DEF Mine
<1>9. pc'[t] = "serve" /\ \A u \in Tasks : u # t => pc'[u] = pc[u]
  BY <1>0, <1>6
<1>10. ASSUME NEW u \in Tasks, pc'[u] = "ack" PROVE Waiting(conns'[conn[u]])
  <2>1. u # t /\ pc[u] = "ack"
    BY <1>9, <1>10, SMTT(30)
  <2>2. conn[u] # conn[t] /\ conn[u] \in Conns /\ Waiting(conns[conn[u]])
    BY <1>0, <2>1, SMTT(30) DEF Linked, Owned
  <2> QED BY <1>7, <2>2, ZenonT(30)
<1>11. /\ \A u \in Tasks : pc'[u] \in {"ack", "serve"} <=> pc[u] \in {"ack", "serve"}
       /\ \A u \in Tasks : u > spawned => pc'[u] = "none"
  BY <1>0, <1>9 DEF Linked, Owned
<1> QED
  BY <1>6, <1>7, <1>8, <1>10, <1>11, OwnersKeep, ZenonT(30)

\* A data channel is opened, by a task in its established channel.
LEMMA CreateKeeps ==
  ASSUME IInv, Linked, NEW t \in Tasks, CreateDataChannel(t)
  PROVE  Linked'
<1> DEFINE s == Mine(t)
           r == [s EXCEPT !.down = Tail(@), !.opening = @ + 1]
<1>0. /\ pc[t] = "serve" /\ s.down # <<>> /\ Head(s.down) = "create"
      /\ Becomes(conn[t], r) /\ UNCHANGED client
  BY Zenon DEF CreateDataChannel, Arrives
<1>1. conn[t] \in Conns /\ s.cend = "open" /\ Sound(s)
  BY <1>0, MineOpen, SMTT(30)
<1>2. s.up = <<>> /\ s \in Sessions
  BY <1>0, <1>1, AuthRead, SMTT(30) DEF Sound
<1>3. Sound(r)
  BY <1>0, <1>1, <1>2, CreateReadSound, ZenonT(30)
<1>4. r.cend = "open" /\ r \in Sessions
  BY <1>1, <1>2, <1>3, SMTT(30) DEF Sessions, Sound
<1>5. Forget(r) = r
  BY <1>4, ForgetOpen, ZenonT(30)
<1> HIDE DEF r
<1>6. conns' = [conns EXCEPT ![conn[t]] = r] /\ conns \in [Conns -> Sessions]
      /\ pc' = pc /\ spawned' = spawned /\ conn' = conn
      /\ \A d \in Conns : Sound(conns[d])
  BY <1>0, <1>5, SMTT(30) DEF Becomes, Linked, client, handles
<1>7. /\ conns' \in [Conns -> Sessions]
      /\ conns'[conn[t]] = r /\ \A d \in Conns : d # conn[t] => conns'[d] = conns[d]
  BY <1>1, <1>4, <1>6, SMTT(30)
<1>8. /\ \A d \in Conns : Sound(conns'[d])
      /\ \A d \in Conns : conns'[d].cend = "open" <=> conns[d].cend = "open"
  BY <1>1, <1>3, <1>4, <1>6, <1>7, ZenonT(30) DEF Mine
<1>10. ASSUME NEW u \in Tasks, pc'[u] = "ack" PROVE Waiting(conns'[conn[u]])
  <2>1. u # t /\ pc[u] = "ack"
    BY <1>0, <1>6, <1>10, SMTT(30)
  <2>2. conn[u] # conn[t] /\ conn[u] \in Conns /\ Waiting(conns[conn[u]])
    BY <1>0, <2>1, SMTT(30) DEF Linked, Owned
  <2> QED BY <1>7, <2>2, Zenon
<1>11. \A u \in Tasks : u > spawned => pc'[u] = "none"
  BY <1>6, SMTT(30) DEF Linked, Owned
<1> QED
  BY <1>6, <1>7, <1>8, <1>10, <1>11, OwnersKeep, ZenonT(30)

\* run returns: the session has no owner, and no client.
LEMMA ReturnKeeps ==
  ASSUME IInv, Linked, NEW t \in Tasks, pc[t] \in {"ack", "serve"},
         NEW to \in {"ended", "backoff"}, Return(t, to)
  PROVE  Linked'
<1>1. conn[t] \in Conns /\ conn[t] # 0 /\ Sound(Mine(t))
  BY MineOpen, LinksAssumption, SMTT(30) DEF Linked, Owned
<1>2. PICK carrying \in {"deaf", "dead"} :
        Becomes(conn[t], Abandoned(Mine(t), carrying))
  BY ZenonT(30) DEF Return
<1> DEFINE r == Abandoned(Mine(t), carrying)
<1>3. Sound(Forget(r))
  BY <1>1, ReturnSound, ForgetSound, ZenonT(30)
<1>4. Forget(r).cend # "open" /\ Forget(r) \in Sessions
  <2>1. Mine(t) \in Sessions
    BY <1>1, SMTT(30) DEF Sound
  <2>2. r.cend = "closed"
    BY <2>1, SMTT(30) DEF Sessions, Abandoned
  <2>3. r.cend # "open"
    BY <2>2, SMTT(30)
  <2> QED BY <1>3, <2>3, ForgetOpen, ZenonT(30) DEF Sound
<1> DEFINE z == Forget(r)
<1>5. /\ conns' = [conns EXCEPT ![conn[t]] = z]
      /\ conn' = [conn EXCEPT ![t] = 0] /\ pc' = [pc EXCEPT ![t] = to]
      /\ spawned' = spawned
  BY <1>2, ZenonT(30) DEF Becomes, Return, Goto, handles
<1> HIDE DEF z, r
<1>6. /\ conns \in [Conns -> Sessions] /\ conn \in [Tasks -> Conns \cup {0}]
      /\ pc \in [Tasks -> Places] /\ \A d \in Conns : Sound(conns[d])
  BY SMTT(30) DEF Linked, IInv, Shape
<1>7. z \in Sessions /\ z.cend # "open" /\ Sound(z)
  BY <1>3, <1>4, ZenonT(30) DEF z
<1>8. /\ conns' \in [Conns -> Sessions] /\ conn' \in [Tasks -> Conns \cup {0}]
      /\ conns'[conn[t]] = z /\ \A d \in Conns : d # conn[t] => conns'[d] = conns[d]
      /\ conn'[t] = 0 /\ \A u \in Tasks : u # t => conn'[u] = conn[u]
      /\ pc'[t] = to /\ \A u \in Tasks : u # t => pc'[u] = pc[u]
  BY <1>1, <1>5, <1>6, <1>7, SMTT(30)
<1>9. \A d \in Conns : Sound(conns'[d])
  BY <1>6, <1>7, <1>8, ZenonT(30)
<1>10. to \notin {"ack", "serve", "none"}
  BY SMTT(30)
<1>11. ASSUME NEW u \in Tasks, u # t, conn[u] # 0
       PROVE  conn[u] \in Conns /\ conn[u] # conn[t] /\ conns'[conn[u]] = conns[conn[u]]
  BY <1>1, <1>6, <1>8, <1>11, SMTT(30) DEF Linked, Owned
<1>12. Owned'
  <2>1. \A u \in Tasks : conn'[u] # 0 <=> pc'[u] \in {"ack", "serve"}
    BY <1>8, <1>10, SMTT(30) DEF Linked, Owned
  <2>2. \A u \in Tasks : conn'[u] # 0 => conns'[conn'[u]].cend = "open"
    BY <1>8, <1>11, SMTT(30) DEF Linked, Owned
  <2>3. ASSUME NEW d \in Conns, conns'[d].cend = "open"
        PROVE  \E u \in Tasks : conn'[u] = d
    <3>1. d # conn[t] /\ conns[d].cend = "open"
      BY <1>7, <1>8, <2>3, ZenonT(30)
    <3>2. PICK u \in Tasks : conn[u] = d
      BY <3>1, SMTT(30) DEF Linked, Owned
    <3> QED BY <1>8, <3>1, <3>2, ZenonT(30)
  <2>4. \A u, v \in Tasks : conn'[u] # 0 /\ conn'[u] = conn'[v] => u = v
    BY <1>8, SMTT(30) DEF Linked, Owned
  <2>5. ASSUME NEW u \in Tasks, pc'[u] = "ack" PROVE Waiting(conns'[conn'[u]])
    <3>1. u # t /\ pc[u] = "ack"
      BY <1>8, <1>10, <2>5, SMTT(30)
    <3>2. conn[u] # 0 /\ Waiting(conns[conn[u]])
      BY <3>1, SMTT(30) DEF Linked, Owned
    <3> QED BY <1>8, <1>11, <3>1, <3>2, ZenonT(30)
  <2>6. \A u \in Tasks : u > spawned' => pc'[u] = "none"
    <3>1. ~(t > spawned)
      BY DEF Linked, Owned
    <3> QED BY <1>5, <1>8, <3>1, SMTT(30) DEF Linked, Owned
  <2> QED BY <2>1, <2>2, <2>3, <2>4, <2>5, <2>6, ZenonT(30) DEF Owned
<1> QED
  BY <1>8, <1>9, <1>12, ZenonT(30) DEF Linked

\* A task gets a session that nobody has.
LEMMA ConnectLinks ==
  ASSUME IInv, Linked, NEW t \in Tasks, NEW c \in Conns, conns[c] = Blank, Connect(t, c)
  PROVE  Linked'
<1> DEFINE r == [Blank EXCEPT !.cend = "open", !.up = <<"auth">>]
<1>1. Sound(r) /\ r \in Sessions
  BY ConnectSound, ZenonT(30) DEF Sound
<1>2. r.cend = "open" /\ Waiting(r)
  BY SMTT(30) DEF Blank, Waiting
<1>3. Forget(r) = r
  BY <1>2, ForgetOpen, ZenonT(30)
<1>4. /\ conns' = [conns EXCEPT ![c] = r] /\ pc[t] = "connect"
      /\ conn' = [conn EXCEPT ![t] = c] /\ pc' = [pc EXCEPT ![t] = "ack"]
      /\ spawned' = spawned
  BY <1>3, ZenonT(30) DEF Becomes, Connect, Goto, handles
<1> HIDE DEF r
<1>6. /\ conns \in [Conns -> Sessions] /\ conn \in [Tasks -> Conns \cup {0}]
      /\ pc \in [Tasks -> Places] /\ \A d \in Conns : Sound(conns[d])
  BY SMTT(30) DEF Linked, IInv, Shape
<1>7. conn[t] = 0
  BY <1>4, SMTT(30) DEF Linked, Owned
<1>8. /\ conns' \in [Conns -> Sessions] /\ conn' \in [Tasks -> Conns \cup {0}]
      /\ conns'[c] = r /\ \A d \in Conns : d # c => conns'[d] = conns[d]
      /\ conn'[t] = c /\ \A u \in Tasks : u # t => conn'[u] = conn[u]
      /\ pc'[t] = "ack" /\ \A u \in Tasks : u # t => pc'[u] = pc[u]
      /\ c # 0
  BY <1>1, <1>4, <1>6, LinksAssumption, SMTT(30)
<1>9. \A d \in Conns : Sound(conns'[d])
  BY <1>1, <1>6, <1>8, ZenonT(30)
<1>10. conns[c].cend # "open"
  BY BlankParts, SMTT(30)
<1>11. ASSUME NEW u \in Tasks, conn[u] # 0
       PROVE  conn[u] \in Conns /\ conn[u] # c /\ conns'[conn[u]] = conns[conn[u]]
  BY <1>6, <1>8, <1>10, <1>11, SMTT(30) DEF Linked, Owned
<1>12. Owned'
  <2>1. \A u \in Tasks : conn'[u] # 0 <=> pc'[u] \in {"ack", "serve"}
    BY <1>8, SMTT(30) DEF Linked, Owned
  <2>2. \A u \in Tasks : conn'[u] # 0 => conns'[conn'[u]].cend = "open"
    BY <1>2, <1>8, <1>11, SMTT(30) DEF Linked, Owned
  <2>3. ASSUME NEW d \in Conns, conns'[d].cend = "open"
        PROVE  \E u \in Tasks : conn'[u] = d
    <3>1. CASE d = c
      BY <1>8, <3>1, ZenonT(30)
    <3>2. CASE d # c
      <4>1. PICK u \in Tasks : conn[u] = d
        BY <1>8, <2>3, <3>2, SMTT(30) DEF Linked, Owned
      <4>2. d # 0
        BY LinksAssumption, SMTT(30)
      <4> QED BY <1>7, <1>8, <4>1, <4>2, ZenonT(30)
    <3> QED BY <3>1, <3>2, SMTT(30)
  <2>4. \A u, v \in Tasks : conn'[u] # 0 /\ conn'[u] = conn'[v] => u = v
    BY <1>8, <1>11, SMTT(30) DEF Linked, Owned
  <2>5. ASSUME NEW u \in Tasks, pc'[u] = "ack" PROVE Waiting(conns'[conn'[u]])
    <3>1. CASE u = t
      BY <1>2, <1>8, <3>1, ZenonT(30)
    <3>2. CASE u # t
      <4>1. conn[u] # 0 /\ Waiting(conns[conn[u]])
        BY <1>8, <2>5, <3>2, SMTT(30) DEF Linked, Owned
      <4> QED BY <1>8, <1>11, <3>2, <4>1, ZenonT(30)
    <3> QED BY <3>1, <3>2
  <2>6. \A u \in Tasks : u > spawned' => pc'[u] = "none"
    <3>1. ~(t > spawned)
      BY <1>4, SMTT(30) DEF Linked, Owned
    <3> QED BY <1>4, <1>8, <3>1, SMTT(30) DEF Linked, Owned
  <2> QED BY <2>1, <2>2, <2>3, <2>4, <2>5, <2>6, ZenonT(30) DEF Owned
<1> QED
  BY <1>8, <1>9, <1>12, ZenonT(30) DEF Linked

\* After a restart of the client no session is open.
LEMMA ClientCrashLinks ==
  ASSUME IInv, Linked, ClientCrashes
  PROVE  Linked'
<1> DEFINE new(c) == IF conns[c].cend = "none" THEN conns[c]
                     ELSE Forget([Abandoned(conns[c], "dead") EXCEPT
                                    !.used = IF @ = "deaf" THEN "dead" ELSE @])
<1>1. /\ conns' = [c \in Conns |-> new(c)] /\ conn' = [t \in Tasks |-> 0]
      /\ pc' = [t \in Tasks |-> IF t = current THEN "connect"
                               ELSE IF t > spawned THEN "none" ELSE "ended"]
      /\ spawned' = spawned
  BY ZenonT(30) DEF ClientCrashes, handles
<1>2. ASSUME NEW c \in Conns PROVE Sound(new(c)) /\ new(c).cend # "open"
  <2>1. Sound(conns[c])
    BY DEF Linked
  <2>2. CASE conns[c].cend = "none"
    BY <2>1, <2>2, SMTT(30)
  <2>3. CASE conns[c].cend # "none"
    <3> DEFINE a == Abandoned(conns[c], "dead")
               x == [a EXCEPT !.used = IF @ = "deaf" THEN "dead" ELSE @]
    <3>1. conns[c] \in Sessions /\ "dead" \in {"deaf", "dead"}
      BY <2>1, SMTT(30) DEF Sound
    <3>2. x.cend = "closed"
      BY <3>1, SMTT(30) DEF Sessions, Abandoned
    <3>3. Sound(x)
      BY <2>1, <3>1, ReturnSound, ZenonT(30)
    <3> HIDE DEF x
    <3>4. x.cend # "open"
      BY <3>2
    <3>5. Sound(Forget(x)) /\ Forget(x).cend # "open"
      BY <3>3, <3>4, ForgetSound, ForgetOpen, ZenonT(30)
    <3> QED BY <2>3, <3>5, ZenonT(30) DEF x
  <2> QED BY <2>2, <2>3, SMTT(30)
<1> HIDE DEF new
<1>3. conns' \in [Conns -> Sessions] /\ \A c \in Conns : Sound(conns'[c])
  BY <1>1, <1>2, SMTT(30) DEF Sound
<1>4. \A c \in Conns : conns'[c].cend # "open"
  BY <1>1, <1>2, SMTT(30)
<1>5. current \in 0..spawned /\ spawned \in Tasks
  BY SMTT(30) DEF IInv, Shape
<1>6. \A t \in Tasks : t > spawned => pc'[t] = "none"
  BY <1>1, <1>5, TasksAssumption, SMTT(30) DEF Tasks
<1>7. \A t \in Tasks : conn'[t] = 0 /\ pc'[t] \notin {"ack", "serve"}
  BY <1>1, SMTT(30)
<1>8. Owned'
  BY <1>1, <1>4, <1>6, <1>7, SMTT(30) DEF Owned
<1>9. conn' \in [Tasks -> Conns \cup {0}]
  BY <1>1
<1> QED BY <1>3, <1>8, <1>9, SMTT(30) DEF Linked

\* A restart of the server closes no client's end.
LEMMA ServerCrashLinks ==
  ASSUME Linked, ServerCrashes
  PROVE  Linked'
<1> DEFINE lk(c) == IF conns[c].cend = "open" THEN "broken" ELSE "ok"
           r(c) == [Blank EXCEPT !.link = lk(c), !.cend = conns[c].cend,
                                 !.send = "closed", !.opening = conns[c].opening]
<1>1. /\ conns' = [c \in Conns |-> Forget(r(c))]
      /\ UNCHANGED <<pc, conn, spawned>>
  BY ZenonT(30) DEF ServerCrashes, client, handles
<1>2. ASSUME NEW c \in Conns
      PROVE  /\ Sound(r(c)) /\ r(c).cend = conns[c].cend
             /\ Waiting(conns[c]) => Waiting(r(c))
  <2>1. Sound(conns[c])
    BY DEF Linked
  <2>2. lk(c) \in {"ok", "broken"}
    OBVIOUS
  <2>3. /\ r(c).cend = conns[c].cend /\ r(c).opening = conns[c].opening
        /\ r(c).queued = 0 /\ r(c).used = "none"
    BY DEF Blank
  <2> HIDE DEF lk
  <2>4. Sound(r(c))
    BY <2>1, <2>2, CrashedSound, ZenonT(30)
  <2> HIDE DEF r
  <2>5. Waiting(conns[c]) => Waiting(r(c))
    BY <2>3, SMTT(30) DEF Waiting
  <2> QED BY <2>3, <2>4, <2>5, SMTT(30)
<1> HIDE DEF r
<1>3. \A c \in Conns : /\ Sound(Forget(r(c)))
                       /\ Forget(r(c)).cend = "open" <=> conns[c].cend = "open"
  BY <1>2, ForgetSound, ForgetOpen, ZenonT(30)
<1>4. /\ conns' \in [Conns -> Sessions] /\ \A c \in Conns : Sound(conns'[c])
      /\ \A c \in Conns : conns'[c].cend = "open" <=> conns[c].cend = "open"
  BY <1>1, <1>3, SMTT(30) DEF Sound
<1>5. ASSUME NEW t \in Tasks, pc[t] = "ack" PROVE Waiting(conns'[conn[t]])
  <2>1. Waiting(conns[conn[t]]) /\ conn[t] \in Conns /\ conns[conn[t]].cend = "open"
    BY <1>5 DEF Linked, Owned
  <2>2. Forget(r(conn[t])) = r(conn[t])
    BY <1>2, <2>1, ForgetOpen, ZenonT(30)
  <2>3. conns'[conn[t]] = Forget(r(conn[t]))
    BY <1>1, <2>1, SMTT(30)
  <2> QED BY <1>2, <2>1, <2>2, <2>3, ZenonT(30)
<1>6. \A t \in Tasks : t > spawned => pc[t] = "none"
  BY DEF Linked, Owned
<1> QED BY <1>1, <1>4, <1>5, <1>6, OwnersKeep, ZenonT(30)

\* A task that starts had no session.
LEMMA ReloadLinks ==
  ASSUME IInv, Linked, AddService \/ RemoveService
  PROVE  Linked'
<1>0. spawned \in Nat /\ pc \in [Tasks -> Places]
  BY SMTT(30) DEF IInv, Shape, Tasks
<1>1. CASE AddService
  <2>1. /\ spawned' = spawned + 1 /\ spawned + 1 \in Tasks
        /\ pc' = [pc EXCEPT ![spawned + 1] = "connect"] /\ UNCHANGED <<conns, conn>>
    BY <1>0, <1>1, TasksAssumption, SMTT(30) DEF AddService, Tasks
  <2>2. pc[spawned + 1] = "none"
    BY <1>0, <2>1, SMTT(30) DEF Linked, Owned
  <2>3. \A t \in Tasks : pc[t] \in {"ack", "serve"} \/ pc'[t] \in {"ack", "serve"}
                           => pc'[t] = pc[t]
    BY <1>0, <2>1, <2>2, SMTT(30)
  <2>4. \A t \in Tasks : t > spawned' => pc'[t] = "none"
    BY <1>0, <2>1, SMTT(30) DEF Linked, Owned, Tasks
  <2> QED BY <2>1, <2>3, <2>4, PlacesKeep, SMTT(30)
<1>2. CASE RemoveService
  <2>1. UNCHANGED <<conns, conn, pc, spawned>>
    BY <1>2, ZenonT(30) DEF RemoveService
  <2>2. \A t \in Tasks : t > spawned => pc[t] = "none"
    BY DEF Linked, Owned
  <2> QED BY <2>1, <2>2, PlacesKeep, SMTT(30)
<1> QED BY <1>1, <1>2, SMTT(30)

\* A task that connects or sleeps has no session.
LEMMA IdleLinks ==
  ASSUME IInv, Linked, NEW t \in Tasks, Retry(t) \/ ConnectFails(t)
  PROVE  Linked'
<1>1. /\ pc[t] \in {"backoff", "connect"} /\ UNCHANGED <<conns, conn, spawned>>
      /\ \E to \in {"connect", "ended", "backoff"} : pc' = [pc EXCEPT ![t] = to]
  BY SMTT(30) DEF Retry, ConnectFails, Goto, Failed, handles
<1>2. pc \in [Tasks -> Places]
  BY SMTT(30) DEF IInv, Shape
<1>3. \A u \in Tasks : pc[u] \in {"ack", "serve"} \/ pc'[u] \in {"ack", "serve"}
                         => pc'[u] = pc[u]
  BY <1>1, <1>2, SMTT(30)
<1>4. \A u \in Tasks : u > spawned' => pc'[u] = "none"
  BY <1>1, <1>2, SMTT(30) DEF Linked, Owned
<1> QED BY <1>1, <1>3, <1>4, PlacesKeep, SMTT(30)

\* Every step of a task.
LEMMA TaskLinks ==
  ASSUME IInv, Linked, NEW t \in Tasks, TaskStep(t)
  PROVE  Linked'
<1>1. CASE Stop(t) \/ ReadRefusal(t) \/ RunFails(t) \/ HeartbeatTimeout(t)
  <2>1. /\ pc[t] \in {"ack", "serve"}
        /\ \E to \in {"ended", "backoff"} : Return(t, to)
    <3>1. Failed(t) \in {"ended", "backoff"}
      BY DEF Failed
    <3> QED BY <1>1, <3>1, ZenonT(30) DEF Stop, ReadRefusal, RunFails, HeartbeatTimeout
  <2> QED BY <2>1, ReturnKeeps, ZenonT(30)
<1> QED BY <1>1, ReadAckKeeps, CreateKeeps, IdleLinks, ZenonT(30) DEF TaskStep

\* And the rest of the state its type.
LEMMA NextRest == Linked /\ Rest /\ [Next]_vars => Rest'
<1> SUFFICES ASSUME Linked, Rest, [Next]_vars PROVE Rest'
  OBVIOUS
<1>0. ASSUME visitor' = visitor, map' \in Conns \cup {0, map}, addr' \in Conns \cup {0, addr},
             events' \in 0..MaxEvents
      PROVE  Rest'
  BY <1>0, SMTT(30) DEF Rest, PoolTypeOK
<1>9. events \in 0..MaxEvents /\ MaxEvents \in Nat
  BY EventsAssumption DEF Rest
<1>1. CASE ClientStep
  <2>1. visitor' = visitor
    BY <1>1, ZenonT(30) DEF ClientStep, TaskStep, ReadAck, CreateDataChannel, Stop, Retry,
      ReadRefusal, RunFails, HeartbeatTimeout, Return, Connect
  <2>2. UNCHANGED <<map, addr, events>>
    BY <1>1, ZenonT(30) DEF ClientStep, server
  <2> QED BY <1>0, <1>9, <2>1, <2>2, ZenonT(30)
<1>2. CASE ServerStep
  <2>1. /\ visitor' = visitor
        /\ \E c \in Conns : map' \in {map, c, 0} /\ addr' \in {addr, c, 0}
    BY <1>2, ServerGood, ZenonT(30) DEF ServerStep
  <2>2. events' = events
    BY <1>2, ZenonT(30) DEF ServerStep
  <2> QED BY <1>0, <1>9, <2>1, <2>2, SMTT(30)
<1>3. CASE Traffic
  <2>1. visitor' = visitor /\ map' = map /\ addr' = addr /\ events' = events
    BY <1>3, ZenonT(30) DEF Traffic, BodyBlocks, ForwardersEnd, server
  <2> QED BY <1>0, <1>9, <2>1, ZenonT(30)
<1>4. CASE Event
  <2>0. events' \in 0..MaxEvents
    BY <1>4, <1>9, SMTT(30) DEF Event
  <2>1. CASE /\ UNCHANGED server
             /\ \/ AddService \/ RemoveService
                \/ \E t \in Tasks : ConnectFails(t)
                \/ \E c \in Conns : OpenFails(c)
    BY <1>0, <2>0, <2>1, ZenonT(30)
    DEF AddService, RemoveService, ConnectFails, OpenFails, server
  <2>2. CASE \E c \in Conns : Refuse(c) \/ SocketFails(c)
    <3>1. /\ visitor' = visitor
          /\ \E c \in Conns : map' \in {map, c, 0} /\ addr' \in {addr, c, 0}
      BY <2>2, ServerGood, ZenonT(30)
    <3> QED BY <1>0, <2>0, <3>1, SMTT(30)
  <2>3. CASE \/ \E c \in Conns : LinkFails(c) \/ DataLinkFails(c) \/ ChunkForgotten(c)
             \/ ClientCrashes
    BY <1>0, <2>0, <2>3, ZenonT(30)
    DEF LinkFails, DataLinkFails, ChunkForgotten, ClientCrashes, server
  <2>4. CASE ServerCrashes
    BY <1>0, <2>0, <2>4, ZenonT(30) DEF ServerCrashes
  <2>5. CASE ReloadService
    BY <1>0, <2>0, <2>5, ZenonT(30) DEF ReloadService
  <2> QED BY <1>4, <2>1, <2>2, <2>3, <2>4, <2>5, ZenonT(30) DEF Event
<1>5. CASE \E c \in Conns : SilenceEnds(c)
  BY <1>0, <1>5, <1>9, ZenonT(30) DEF SilenceEnds, server
<1>6. CASE UNCHANGED vars
  BY <1>0, <1>6, <1>9, ZenonT(30) DEF vars, server
<1> QED BY <1>1, <1>2, <1>3, <1>4, <1>5, <1>6, ZenonT(30) DEF Next

-----------------------------------------------------------------------------
(* Nobody waits in vain *)

LEMMA InitAttended == Init => Attended
<1>1. Kept(Blank)
  BY BlankPaired, ZenonT(30) DEF Kept
<1> QED
  BY <1>1, SMTT(30) DEF Init, LinksInit, ClientInit, PoolInit, Attended

\* A step that is not the client's.
LEMMA SteppingAttends ==
  ASSUME Linked, Attended, NEW c \in Conns, NEW s, Stepping(c, s), UNCHANGED <<pc, conn>>
  PROVE  Attended'
<1>1. /\ Kept(conns[c]) /\ s \in Sessions /\ s.cend = conns[c].cend
      /\ conns' = [conns EXCEPT ![c] = Forget(s)] /\ conns \in [Conns -> Sessions]
  BY ZenonT(30) DEF Attended, Linked, Stepping, Good, Sound, Becomes
<1>2. Agrees(s, conns[c]) /\ Paired(s)
  BY <1>1, Zenon DEF Stepping, Kept, Agrees
<1>3. Kept(Forget(s)) /\ (s.pool \in Using => Forget(s).pool = s.pool)
  BY <1>1, <1>2, ForgetKept, ZenonT(30)
<1>4. conns'[c] = Forget(s) /\ \A d \in Conns : d # c => conns'[d] = conns[d]
  BY <1>1
<1>5. \A d \in Conns : Kept(conns'[d])
  BY <1>3, <1>4, ZenonT(30) DEF Attended
<1>6. ASSUME NEW t \in Tasks, pc[t] \in {"ack", "serve"}
      PROVE  /\ conn[t] \in Conns /\ conns[conn[t]].cend = "open"
             /\ conn[t] = c => conns'[conn[t]] = s
             /\ conn[t] # c => conns'[conn[t]] = conns[conn[t]]
  <2>1. conn[t] \in Conns /\ conns[conn[t]].cend = "open"
    BY <1>6, MineOpen, ZenonT(30) DEF Mine
  <2>2. conn[t] = c => Forget(s) = s
    BY <1>1, <2>1, ForgetOpen, ZenonT(30)
  <2> QED BY <1>4, <2>1, <2>2, ZenonT(30)
<1>7. ASSUME NEW t \in Tasks, pc[t] = "ack" PROVE Unanswered(conns'[conn[t]])
  <2>1. pc[t] \in {"ack", "serve"}
    BY <1>7, SMTT(30)
  <2> QED BY <1>2, <1>6, <1>7, <2>1, ZenonT(30) DEF Agrees, Attended
<1>8. ASSUME NEW t \in Tasks, pc[t] = "serve" PROVE Answered(conns'[conn[t]])
  <2>1. pc[t] \in {"ack", "serve"}
    BY <1>8, SMTT(30)
  <2> QED BY <1>2, <1>6, <1>8, <2>1, ZenonT(30) DEF Agrees, Attended
<1>9. ASSUME addr' # 0 PROVE addr' \in Conns /\ conns'[addr'].pool \in Using
  <2>1. CASE addr' = c
    <3>1. s.pool \in Using
      BY <1>1, <1>9, <2>1, ZenonT(30) DEF Stepping, Attended, Kept
    <3> QED BY <1>3, <1>4, <2>1, <3>1, ZenonT(30)
  <2>2. CASE addr' # c
    <3>1. addr' = addr
      BY <1>9, <2>2, ZenonT(30) DEF Stepping
    <3> QED BY <1>4, <1>9, <2>2, <3>1, ZenonT(30) DEF Attended
  <2> QED BY <2>1, <2>2, SMTT(30)
<1> QED
  BY <1>5, <1>7, <1>8, <1>9, ZenonT(30) DEF Attended

\* A step of one task, with its session.
LEMMA TaskAttends ==
  ASSUME Linked, Attended, NEW t \in Tasks, NEW c \in Conns, NEW r, Becomes(c, r),
         r \in Sessions, Paired(r), addr' = addr, addr = c => r.pool \in Using,
         \A u \in Tasks : u # t => pc'[u] = pc[u] /\ conn'[u] = conn[u] /\ conn[u] # c,
         pc'[t] \in {"ack", "serve"} => conn'[t] = c /\ r.cend = "open",
         pc'[t] = "ack" => Unanswered(r), pc'[t] = "serve" => Answered(r)
  PROVE  Attended'
<1>1. conns' = [conns EXCEPT ![c] = Forget(r)] /\ conns \in [Conns -> Sessions]
  BY Zenon DEF Linked, Becomes
<1>2. Kept(Forget(r)) /\ (r.pool \in Using => Forget(r).pool = r.pool)
  BY ForgetKept, ZenonT(30)
<1>3. conns'[c] = Forget(r) /\ \A d \in Conns : d # c => conns'[d] = conns[d]
  BY <1>1
<1>4. \A d \in Conns : Kept(conns'[d])
  BY <1>2, <1>3, ZenonT(30) DEF Attended
<1>5. pc'[t] \in {"ack", "serve"} => conns'[conn'[t]] = r
  BY <1>3, ForgetOpen, ZenonT(30)
<1>6. ASSUME NEW u \in Tasks, u # t, pc[u] \in {"ack", "serve"}
      PROVE  conns'[conn'[u]] = conns[conn[u]]
  BY <1>3, <1>6, MineOpen, ZenonT(30)
<1>7. ASSUME NEW u \in Tasks, pc'[u] = "ack" PROVE Unanswered(conns'[conn'[u]])
  <2>1. pc'[u] \in {"ack", "serve"}
    BY <1>7
  <2> QED BY <1>5, <1>6, <1>7, <2>1, ZenonT(30) DEF Attended
<1>8. ASSUME NEW u \in Tasks, pc'[u] = "serve" PROVE Answered(conns'[conn'[u]])
  <2>1. pc'[u] \in {"ack", "serve"}
    BY <1>8
  <2> QED BY <1>5, <1>6, <1>8, <2>1, ZenonT(30) DEF Attended
<1>9. addr' # 0 => addr' \in Conns /\ conns'[addr'].pool \in Using
  BY <1>2, <1>3, ZenonT(30) DEF Attended
<1> QED
  BY <1>4, <1>7, <1>8, <1>9, ZenonT(30) DEF Attended

\* The ack is read,
LEMMA ReadAckAttends ==
  ASSUME IInv, Linked, Attended, NEW t \in Tasks, ReadAck(t), addr' = addr
  PROVE  Attended'
<1> DEFINE s == Mine(t)
           r == [s EXCEPT !.down = Tail(@)]
<1>1. /\ pc[t] = "ack" /\ s.down # <<>> /\ Head(s.down) = "ack"
      /\ Becomes(conn[t], r) /\ pc' = [pc EXCEPT ![t] = "serve"] /\ conn' = conn
  BY ZenonT(30) DEF ReadAck, Arrives, Goto
<1>2. pc[t] \in {"ack", "serve"} /\ Head(s.down) # "create"
  BY <1>1, SMTT(30)
<1>3. pc'[t] = "serve" /\ \A u \in Tasks : u # t => pc'[u] = pc[u]
  BY <1>1, SMTT(30) DEF IInv, Shape
<1>4. s \in Sessions /\ Sound(s) /\ Paired(s) /\ s.cend = "open"
  BY <1>2, MineAttended, ZenonT(30)
<1>5. r.cend = s.cend /\ r.pool = s.pool
  BY <1>4, SMTT(30) DEF Sessions
<1>6. s.up = <<>>
  BY <1>1, <1>4, AuthRead, ZenonT(30)
<1>7. Sound(r) /\ Paired(r) /\ Answered(r)
  BY <1>1, <1>2, <1>4, <1>6, AckReadSound, AckReadParts, ZenonT(30)
<1> HIDE DEF r, s
<1>8. /\ conn[t] \in Conns
      /\ addr = conn[t] => r.pool \in Using
      /\ \A u \in Tasks : u # t => conn[u] # conn[t]
  BY <1>2, <1>5, MineAttended, ZenonT(30) DEF s
<1>9. /\ r \in Sessions /\ r.cend = "open" /\ conn'[t] = conn[t]
      /\ pc'[t] # "ack" /\ Becomes(conn[t], r)
      /\ \A u \in Tasks : u # t => pc'[u] = pc[u] /\ conn'[u] = conn[u] /\ conn[u] # conn[t]
  <2>1. r \in Sessions
    BY <1>7, ZenonT(30) DEF Sound
  <2> QED BY <1>1, <1>3, <1>4, <1>5, <1>8, <2>1, SMTT(30)
<1> QED
  BY <1>7, <1>8, <1>9, TaskAttends, SMTT(30)

\* ... a command,
LEMMA CreateAttends ==
  ASSUME Linked, Attended, NEW t \in Tasks, CreateDataChannel(t), addr' = addr
  PROVE  Attended'
<1> DEFINE s == Mine(t)
           r == [s EXCEPT !.down = Tail(@), !.opening = @ + 1]
<1>1. /\ pc[t] = "serve" /\ s.down # <<>> /\ Head(s.down) = "create"
      /\ Becomes(conn[t], r) /\ pc' = pc /\ conn' = conn
  BY ZenonT(30) DEF CreateDataChannel, Arrives, client
<1>2. pc[t] \in {"ack", "serve"}
  BY <1>1
<1>4. s \in Sessions /\ Sound(s) /\ Paired(s) /\ s.cend = "open"
  BY <1>2, MineAttended, ZenonT(30)
<1>5. r.cend = s.cend /\ r.pool = s.pool
  BY <1>4, SMTT(30) DEF Sessions
<1>6. s.up = <<>>
  BY <1>1, <1>4, AuthRead, ZenonT(30)
<1>7. Sound(r) /\ Paired(r) /\ Answered(r)
  BY <1>1, <1>4, <1>6, CreateReadSound, CreateReadParts, ZenonT(30)
<1> HIDE DEF r, s
<1>8. /\ conn[t] \in Conns
      /\ addr = conn[t] => r.pool \in Using
      /\ \A u \in Tasks : u # t => conn[u] # conn[t]
  BY <1>2, <1>5, MineAttended, ZenonT(30) DEF s
<1>9. /\ r \in Sessions /\ r.cend = "open" /\ conn'[t] = conn[t]
      /\ pc'[t] # "ack" /\ Becomes(conn[t], r)
      /\ \A u \in Tasks : u # t => pc'[u] = pc[u] /\ conn'[u] = conn[u] /\ conn[u] # conn[t]
  <2>1. r \in Sessions
    BY <1>7, ZenonT(30) DEF Sound
  <2> QED BY <1>1, <1>4, <1>5, <1>8, <2>1, SMTT(30)
<1> QED
  BY <1>7, <1>8, <1>9, TaskAttends, SMTT(30)

\* ... or run returns.
LEMMA ReturnAttends ==
  ASSUME IInv, Linked, Attended, NEW t \in Tasks, NEW to \in {"ended", "backoff"},
         pc[t] \in {"ack", "serve"}, Return(t, to), addr' = addr
  PROVE  Attended'
<1>1. /\ pc' = [pc EXCEPT ![t] = to] /\ conn' = [conn EXCEPT ![t] = 0]
      /\ \E carrying \in {"deaf", "dead"} : Becomes(conn[t], Abandoned(Mine(t), carrying))
  BY ZenonT(30) DEF Return, Goto
<1>2. PICK carrying \in {"deaf", "dead"} : Becomes(conn[t], Abandoned(Mine(t), carrying))
  BY <1>1, SMTT(30)
<1> DEFINE r == Abandoned(Mine(t), carrying)
<1>3. /\ pc'[t] \notin {"ack", "serve"}
      /\ \A u \in Tasks : u # t => pc'[u] = pc[u] /\ conn'[u] = conn[u]
  BY <1>1, SMTT(30) DEF IInv, Shape, Linked
<1>4. /\ conn[t] \in Conns /\ Mine(t) \in Sessions /\ Sound(Mine(t)) /\ Paired(Mine(t))
      /\ addr = conn[t] => Mine(t).pool \in Using
      /\ \A u \in Tasks : u # t => conn[u] # conn[t]
  BY MineAttended, ZenonT(30)
<1>5. Sound(r) /\ Paired(r) /\ r.pool = Mine(t).pool
  BY <1>4, ReturnSound, AbandonedPaired, ZenonT(30)
<1> HIDE DEF r
<1>6. Becomes(conn[t], r)
  BY <1>2, ZenonT(30) DEF r
<1> QED
  BY <1>3, <1>4, <1>5, <1>6, TaskAttends, SMTT(30) DEF Sound

\* A task gets a new session.
LEMMA ConnectAttends ==
  ASSUME IInv, Linked, Attended, NEW t \in Tasks, NEW c \in Conns, conns[c] = Blank,
         Connect(t, c), addr' = addr
  PROVE  Attended'
<1> DEFINE r == [Blank EXCEPT !.cend = "open", !.up = <<"auth">>]
<1>1. /\ Becomes(c, r) /\ pc' = [pc EXCEPT ![t] = "ack"]
      /\ conn' = [conn EXCEPT ![t] = c]
  BY ZenonT(30) DEF Connect, Goto
<1>2. pc'[t] = "ack" /\ conn'[t] = c
      /\ \A u \in Tasks : u # t => pc'[u] = pc[u] /\ conn'[u] = conn[u]
  BY <1>1, SMTT(30) DEF IInv, Shape, Linked
<1>3. r \in Sessions /\ Paired(r) /\ Unanswered(r)
  BY ConnectSound, ConnectPaired, ZenonT(30) DEF Sound
<1>4. r.cend = "open"
  BY SMTT(30) DEF Blank
<1> HIDE DEF r
<1>5. addr # c /\ \A u \in Tasks : conn[u] # c
  <2>1. conns[c].cend # "open" /\ conns[c].pool \notin Using /\ c # 0
    BY BlankParts, LinksAssumption, SMTT(30) DEF Using
  <2> QED BY <2>1, ZenonT(30) DEF Linked, Owned, Attended
<1> QED
  BY <1>1, <1>2, <1>3, <1>4, <1>5, TaskAttends, SMTT(30)

\* Tasks move about, and the sessions stay.
LEMMA PlacesAttend ==
  ASSUME Attended, UNCHANGED <<conns, conn, addr>>,
         \A t \in Tasks : pc'[t] \in {"ack", "serve"} => pc'[t] = pc[t]
  PROVE  Attended'
<1>1. conns' = conns /\ conn' = conn /\ addr' = addr
  OBVIOUS
<1>2. \A t \in Tasks : /\ pc'[t] = "ack" => pc[t] = "ack"
                       /\ pc'[t] = "serve" => pc[t] = "serve"
  OBVIOUS
<1> QED BY <1>1, <1>2, ZenonT(30) DEF Attended

\* A reload, a failed attempt and the end of a sleep.
LEMMA IdleAttends ==
  ASSUME IInv, Linked, Attended, addr' = addr,
         \/ AddService \/ RemoveService
         \/ \E t \in Tasks : Retry(t) \/ ConnectFails(t)
  PROVE  Attended'
<1>1. pc \in [Tasks -> Places]
  BY SMTT(30) DEF IInv, Shape
<1>2. CASE AddService
  <2>1. pc' = [pc EXCEPT ![spawned'] = "connect"] /\ UNCHANGED <<conns, conn>>
    BY <1>2, ZenonT(30) DEF AddService
  <2> QED BY <1>1, <2>1, PlacesAttend, SMTT(30)
<1>3. CASE RemoveService
  <2>1. pc' = pc /\ UNCHANGED <<conns, conn>>
    BY <1>3, ZenonT(30) DEF RemoveService
  <2> QED BY <2>1, PlacesAttend, SMTT(30)
<1>4. CASE \E t \in Tasks : Retry(t) \/ ConnectFails(t)
  <2>1. /\ UNCHANGED <<conns, conn>>
        /\ \E t \in Tasks, to \in {"connect", "ended", "backoff"} :
             pc' = [pc EXCEPT ![t] = to]
    BY <1>4, SMTT(30) DEF Retry, ConnectFails, Goto, Failed
  <2> QED BY <1>1, <2>1, PlacesAttend, SMTT(30)
<1> QED BY <1>2, <1>3, <1>4, SMTT(30)

\* After a restart of the client no task has a session.
LEMMA ClientCrashAttends ==
  ASSUME Linked, Attended, ClientCrashes
  PROVE  Attended'
<1> DEFINE dead(s) == [Abandoned(s, "dead") EXCEPT !.used = IF @ = "deaf" THEN "dead" ELSE @]
           new(c) == IF conns[c].cend = "none" THEN conns[c] ELSE Forget(dead(conns[c]))
<1>1. /\ conns' = [c \in Conns |-> new(c)] /\ addr' = addr
      /\ pc' = [t \in Tasks |-> IF t = current THEN "connect"
                               ELSE IF t > spawned THEN "none" ELSE "ended"]
  BY ZenonT(30) DEF ClientCrashes, server
<1>2. ASSUME NEW c \in Conns
      PROVE  Kept(new(c)) /\ (conns[c].pool \in Using => new(c).pool = conns[c].pool)
  <2>1. Sound(conns[c]) /\ conns[c] \in Sessions /\ Kept(conns[c]) /\ Paired(conns[c])
    BY ZenonT(30) DEF Linked, Sound, Attended, Kept
  <2>2. CASE conns[c].cend = "none"
    BY <2>1, <2>2, SMTT(30)
  <2>3. CASE conns[c].cend # "none"
    <3> DEFINE a == Abandoned(conns[c], "dead")
    <3>0. "dead" \in {"deaf", "dead"}
      BY SMTT(30)
    <3>1. a \in Sessions /\ Paired(a) /\ a.pool = conns[c].pool
      BY <2>1, <3>0, ReturnSound, AbandonedPaired, ZenonT(30) DEF Sound
    <3>2. a.cend = "closed"
      BY <2>1, SMTT(30) DEF Sessions, Abandoned
    <3>3. dead(conns[c]) \in Sessions
      <4>1. Sound(dead(conns[c]))
        BY <2>1, <3>0, ReturnSound, ZenonT(30)
      <4> QED BY <4>1, ZenonT(30) DEF Sound
    <3>4. Paired(dead(conns[c])) /\ dead(conns[c]).pool = conns[c].pool
      <4> HIDE DEF a
      <4> DEFINE d == [a EXCEPT !.used = IF @ = "deaf" THEN "dead" ELSE @]
      <4>1. Paired(d) /\ d.pool = a.pool
        BY <3>1, <3>2, DiedPaired, ZenonT(30)
      <4> QED BY <3>1, <4>1, ZenonT(30) DEF a
    <3> HIDE DEF dead
    <3>5. Kept(Forget(dead(conns[c])))
          /\ (conns[c].pool \in Using => Forget(dead(conns[c])).pool = conns[c].pool)
      BY <3>3, <3>4, ForgetKept, ZenonT(30)
    <3> QED BY <2>3, <3>5, ZenonT(30)
  <2> QED BY <2>2, <2>3, SMTT(30)
<1> HIDE DEF new
<1>3. \A c \in Conns : conns'[c] = new(c)
  BY <1>1, SMTT(30)
<1>4. \A t \in Tasks : pc'[t] # "ack" /\ pc'[t] # "serve"
  BY <1>1, SMTT(30)
<1>5. addr # 0 => addr \in Conns /\ conns'[addr].pool \in Using
  BY <1>2, <1>3, ZenonT(30) DEF Attended
<1> QED BY <1>1, <1>2, <1>3, <1>4, <1>5, ZenonT(30) DEF Attended

\* After a restart of the server every connection ends.
LEMMA ServerCrashAttends ==
  ASSUME Linked, Attended, ServerCrashes
  PROVE  Attended'
<1> DEFINE lk(c) == IF conns[c].cend = "open" THEN "broken" ELSE "ok"
           r(c) == [Blank EXCEPT !.link = lk(c), !.cend = conns[c].cend,
                                 !.send = "closed", !.opening = conns[c].opening]
<1>1. conns' = [c \in Conns |-> Forget(r(c))] /\ UNCHANGED <<pc, conn>> /\ addr' = 0
  BY ZenonT(30) DEF ServerCrashes, client, handles
<1>2. ASSUME NEW c \in Conns
      PROVE  /\ r(c) \in Sessions /\ r(c).cend = conns[c].cend
             /\ Paired(r(c)) /\ Unanswered(r(c)) /\ Answered(r(c))
  <2>1. Sound(conns[c]) /\ lk(c) \in {"ok", "broken"}
    BY DEF Linked
  <2>2. r(c).cend = conns[c].cend
    BY DEF Blank
  <2> HIDE DEF lk
  <2>3. Sound(r(c)) /\ Paired(r(c)) /\ Unanswered(r(c)) /\ Answered(r(c))
    BY <2>1, CrashedSound, CrashedPaired, ZenonT(30)
  <2> HIDE DEF r
  <2> QED BY <2>2, <2>3, ZenonT(30) DEF Sound
<1> HIDE DEF r
<1>3. \A c \in Conns : conns'[c] = Forget(r(c))
  BY <1>1, SMTT(30)
<1>4. \A c \in Conns : Kept(conns'[c])
  BY <1>2, <1>3, ForgetKept, ZenonT(30)
<1>5. ASSUME NEW t \in Tasks, pc[t] \in {"ack", "serve"}
      PROVE  Unanswered(conns'[conn[t]]) /\ Answered(conns'[conn[t]])
  <2>1. conn[t] \in Conns /\ conns[conn[t]].cend = "open"
    BY <1>5, MineOpen, ZenonT(30) DEF Mine
  <2>2. Forget(r(conn[t])) = r(conn[t])
    BY <1>2, <2>1, ForgetOpen, ZenonT(30)
  <2> QED BY <1>2, <1>3, <2>1, <2>2, ZenonT(30)
<1>6. \A t \in Tasks : pc'[t] = pc[t] /\ conn'[t] = conn[t]
  BY <1>1, SMTT(30)
<1>7. \A t \in Tasks : /\ pc'[t] = "ack" => pc[t] \in {"ack", "serve"}
                       /\ pc'[t] = "serve" => pc[t] \in {"ack", "serve"}
  BY <1>6, SMTT(30)
<1>8. addr' = 0
  BY <1>1, SMTT(30)
<1> QED BY <1>4, <1>5, <1>6, <1>7, <1>8, ZenonT(30) DEF Attended

\* Every step of a task.
LEMMA TaskStepAttends ==
  ASSUME IInv, Linked, Attended, NEW t \in Tasks, TaskStep(t), addr' = addr
  PROVE  Attended'
<1>1. CASE Stop(t) \/ ReadRefusal(t) \/ RunFails(t) \/ HeartbeatTimeout(t)
  <2>1. /\ pc[t] \in {"ack", "serve"}
        /\ \E to \in {"ended", "backoff"} : Return(t, to)
    <3>1. Failed(t) \in {"ended", "backoff"}
      BY DEF Failed
    <3> QED BY <1>1, <3>1, ZenonT(30) DEF Stop, ReadRefusal, RunFails, HeartbeatTimeout
  <2> QED BY <2>1, ReturnAttends, ZenonT(30)
<1> QED BY <1>1, ReadAckAttends, CreateAttends, IdleAttends, ZenonT(30) DEF TaskStep

\* Every step of the system keeps the sessions and their owners, and leaves
\* nobody waiting in vain.
LEMMA NextLinked ==
  IInv /\ Linked /\ Attended /\ [Next]_vars => Linked' /\ Attended'
<1> SUFFICES ASSUME IInv, Linked, Attended, [Next]_vars PROVE Linked' /\ Attended'
  OBVIOUS
<1>0. ASSUME NEW c \in Conns, \E s : Stepping(c, s), UNCHANGED client
      PROVE  Linked' /\ Attended'
  <2>1. UNCHANGED <<pc, conn>> /\ UNCHANGED <<pc, conn, spawned>>
    BY <1>0, ZenonT(30) DEF client, handles
  <2>2. PICK s : Stepping(c, s)
    BY <1>0, ZenonT(30)
  <2> QED BY <2>1, <2>2, SessionKeeps, SteppingAttends, ZenonT(30) DEF Stepping
<1>7. ASSUME UNCHANGED <<conns, addr, client>> PROVE Linked' /\ Attended'
  <2>1. UNCHANGED <<conns, conn, addr>> /\ pc' = pc
    BY <1>7, SMTT(30) DEF client
  <2>2. UNCHANGED <<conns, conn, pc, spawned>>
    BY <1>7, SMTT(30) DEF client, handles
  <2>3. \A t \in Tasks : t > spawned => pc[t] = "none"
    BY DEF Linked, Owned
  <2> QED BY <2>1, <2>2, <2>3, PlacesKeep, PlacesAttend, SMTT(30)
<1>1. CASE ClientStep
  <2>0. addr' = addr
    BY <1>1, ZenonT(30) DEF ClientStep, server
  <2>1. CASE \E t \in Tasks : TaskStep(t)
    BY <2>0, <2>1, TaskLinks, TaskStepAttends, ZenonT(30)
  <2>2. CASE \E t \in Tasks : Unused # {} /\ Connect(t, CHOOSE c \in Unused : TRUE)
    <3>1. PICK t \in Tasks : Unused # {} /\ Connect(t, CHOOSE c \in Unused : TRUE)
      BY <2>2, ZenonT(30)
    <3> DEFINE c == CHOOSE c \in Unused : TRUE
    <3>2. c \in Unused
      BY <3>1, SMTT(30)
    <3>3. c \in Conns /\ conns[c] = Blank
      BY <3>2, SMTT(30) DEF Unused
    <3> QED BY <2>0, <3>1, <3>3, ConnectLinks, ConnectAttends, ZenonT(30)
  <2> QED BY <1>1, <2>1, <2>2, SMTT(30) DEF ClientStep
<1>2. CASE ServerStep
  <2>1. PICK c \in Conns :
          \/ ReadAuth(c) \/ ReadVisitorAuth(c) \/ InsertVisitor(c)
          \/ ReadDataHello(c)
          \/ WriteCreate(c) \/ WriteCmdFails(c) \/ RequestsEnd(c)
          \/ CtrlShutdown(c)
          \/ Bind(c) \/ BindShutdown(c) \/ TakeDataChannel(c) \/ TakeStale(c)
          \/ NoDataChannel(c) \/ DataChannelFails(c) \/ PoolShutdown(c)
    BY <1>2, ZenonT(30) DEF ServerStep
  <2>2. UNCHANGED client
    BY <1>2, ZenonT(30) DEF ServerStep
  <2> QED BY <1>0, <2>1, <2>2, ServerGood, ZenonT(30)
<1>3. CASE Traffic
  <2>1. CASE \E c \in Conns : UNCHANGED client /\ BodyBlocks(c)
    BY <1>0, <2>1, ServerGood, ZenonT(30)
  <2>2. CASE \E c \in Conns : UNCHANGED server /\ ForwardersEnd(c)
    BY <1>0, <2>2, FaultGood, ZenonT(30)
  <2> QED BY <1>3, <2>1, <2>2, ZenonT(30) DEF Traffic
<1>4. CASE Event
  <2>1. CASE /\ UNCHANGED server
             /\ AddService \/ RemoveService \/ \E t \in Tasks : ConnectFails(t)
    <3>1. addr' = addr
      BY <2>1, ZenonT(30) DEF server
    <3> QED BY <2>1, <3>1, ReloadLinks, IdleLinks, IdleAttends, ZenonT(30)
  <2>2. CASE ClientCrashes
    BY <2>2, ClientCrashLinks, ClientCrashAttends, SMTT(30)
  <2>3. CASE ServerCrashes
    BY <2>3, ServerCrashLinks, ServerCrashAttends, SMTT(30)
  <2>4. CASE \E c \in Conns :
               \/ UNCHANGED server /\ OpenFails(c)
               \/ LinkFails(c) \/ DataLinkFails(c) \/ ChunkForgotten(c)
    BY <1>0, <2>4, FaultGood, ZenonT(30) DEF LinkFails, DataLinkFails, ChunkForgotten
  <2>5. CASE \E c \in Conns : UNCHANGED client /\ (Refuse(c) \/ SocketFails(c))
    BY <1>0, <2>5, ServerGood, ZenonT(30)
  <2>6. CASE UNCHANGED client /\ ReloadService
    BY <1>7, <2>6, ZenonT(30) DEF ReloadService
  <2> QED BY <1>4, <2>1, <2>2, <2>3, <2>4, <2>5, <2>6, ZenonT(30) DEF Event
<1>5. CASE \E c \in Conns : SilenceEnds(c)
  BY <1>0, <1>5, FaultGood, ZenonT(30) DEF SilenceEnds
<1>6. CASE UNCHANGED vars
  BY <1>6, <1>7, ZenonT(30) DEF vars, server
<1> QED BY <1>1, <1>2, <1>3, <1>4, <1>5, <1>6, ZenonT(30) DEF Next

-----------------------------------------------------------------------------
(* The theorems *)

\* The four together are inductive.
LEMMA Invariants == Spec => [](IInv /\ Linked /\ Rest /\ Attended)
<1>1. Init => IInv /\ Linked /\ Rest /\ Attended
  BY InitIInv, InitLinked, InitAttended, SMTT(30)
<1>2. (IInv /\ Linked /\ Rest /\ Attended) /\ [Next]_vars
        => (IInv /\ Linked /\ Rest /\ Attended)'
  BY NextIInv, NextLinked, NextRest, SMTT(30)
<1> QED BY <1>1, <1>2, PTL DEF Spec

\* The sessions, the client and the server of a UDP service stay what their
\* declarations say: none of the counters of a session passes UDP_POOL_SIZE or
\* falls below 0 (server.rs, client.rs).
THEOREM TypeCorrect == Spec => []TypeOK
<1>1. IInv /\ Linked /\ Rest => TypeOK
  BY ZenonT(30) DEF IInv, Shape, Linked, Rest, TypeOK, LinksTypeOK, ClientTypeOK
<1> QED BY <1>1, Invariants, PTL

\* The requests of ControlChannelHandle::new (server.rs) are neither lost
\* unnoticed nor served twice while the client has its end and the pool runs.
THEOREM AccountedHolds == Spec => []Accounted
<1>1. Linked => Accounted
  BY SaysAccounted, SMTT(30)
<1> QED BY <1>1, Invariants, PTL

\* The data channels of a control channel are gone when run (client.rs) has
\* returned, by whatever path, and none is opened before the ack was read.
THEOREM DataChannelsOwnedHolds == Spec => []DataChannelsOwned
<1>1. Linked => DataChannelsOwned
  BY SaysOwned
<1> QED BY <1>1, Invariants, PTL

\* Whatever was lost, displaced, restarted or reloaded, and in which order: when
\* neither side can take a step of its own, the service is served unless its
\* data channels are all lost, the one in use has stalled or a pool is held, the
\* tasks that were told have ended, and the tasks of the server for sessions that
\* are over have ended too.
THEOREM SettledHolds == Spec => []Settled
<1>1. IInv /\ Linked /\ Attended => Settled
  BY SaysSettled
<1> QED BY <1>1, Invariants, PTL

\* So the recovery of a service and the end of a task that was told rest on one
\* thing the scheduling has to give, that the two sides come to rest at all
\* (ComesToRest), and on a place for a new connection, which the code always
\* has: no order of faults and reloads can bring them to rest elsewhere.
THEOREM RestRecovers ==
  Spec /\ ComesToRest /\ <>[](Unused # {}) => Recovers /\ ToldEnds
<1>1. Settled /\ ~Busy /\ Unused # {} =>
        Served \/ current = 0 \/ Starved \/ Stalled \/ \E c \in Conns : Held(c)
  BY ZenonT(30) DEF Settled
<1>2. Settled /\ ~Busy /\ Unused # {} => \A t \in told : pc[t] = "ended"
  BY Zenon DEF Settled
<1> QED BY <1>1, <1>2, SettledHolds, PTL DEF ComesToRest, Recovers, ToldEnds
=============================================================================
