-------------------------- MODULE ChannelTaskProofs --------------------------
(***************************************************************************)
(* The tasks of a service's channels.  For every set of visitors, channel  *)
(* capacity and number of forwarders: a live forwarder of a UDP data       *)
(* channel (client.rs) owns the entry of its visitor, an entry found under *)
(* a guard stays until the guard is dropped, and an entry leads to a       *)
(* forwarder that is live or has failed.  For every pool size, channel     *)
(* capacity and number of visitors: the balance of data channels of a TCP  *)
(* service (server.rs), and that a data channel handshake never waits for  *)
(* room while it holds the map's read lock.  For every interval, timeout   *)
(* and delay: the heartbeat timers of the two ends agree.                  *)
(***************************************************************************)
EXTENDS ConnectionPool, Heartbeat, UdpForwarder, TLAPS
-----------------------------------------------------------------------------
(* The forwarders of a UDP data channel *)

\* Appending keeps what is there in its place.
LEMMA Appended ==
  ASSUME NEW S, NEW s \in Seq(S), NEW x \in S
  PROVE  /\ Append(s, x) \in Seq(S)
         /\ Append(s, x) # <<>>
         /\ Len(s) \in Nat
         /\ DOMAIN s = 1..Len(s)
         /\ DOMAIN Append(s, x) = 1..(Len(s) + 1)
         /\ \A i \in 1..Len(s) : Append(s, x)[i] = s[i]
         /\ Append(s, x)[Len(s) + 1] = x
OBVIOUS

Distinct(q) == \A i, j \in DOMAIN q : q[i] = q[j] => i = j
In(q, w) == \E i \in DOMAIN q : q[i] = w

Holders == {Main} \cup Fwds

LEMMA MainNotFwd == Main \notin Fwds /\ Main \in Holders /\ Fwds \subseteq Holders
BY ForwarderAssumption DEF Main, Fwds, Holders

\* A request joins the queue at its end.
LEMMA AppendQueue ==
  ASSUME NEW S, NEW q \in Seq(S), NEW w \in S, Distinct(q), ~In(q, w)
  PROVE  /\ Append(q, w) \in Seq(S)
         /\ Distinct(Append(q, w))
         /\ \A v \in S : In(Append(q, w), v) => In(q, v) \/ v = w
<1>1. /\ Append(q, w) \in Seq(S)
      /\ Len(q) \in Nat
      /\ DOMAIN q = 1..Len(q)
      /\ DOMAIN Append(q, w) = 1..(Len(q) + 1)
      /\ \A i \in 1..Len(q) : Append(q, w)[i] = q[i]
      /\ Append(q, w)[Len(q) + 1] = w
  BY Appended
<1>2. \A i \in 1..(Len(q) + 1) : i \in 1..Len(q) \/ i = Len(q) + 1
  BY <1>1
<1> QED
  BY <1>1, <1>2, SMTT(30) DEF Distinct, In

\* The head of the queue leaves it when its request is granted.
LEMMA TailQueue ==
  ASSUME NEW S, NEW q \in Seq(S), Distinct(q), q # <<>>
  PROVE  /\ Tail(q) \in Seq(S)
         /\ Distinct(Tail(q))
         /\ Head(q) \in S /\ In(q, Head(q))
         /\ \A v : In(Tail(q), v) => In(q, v) /\ v # Head(q)
<1>1. /\ Tail(q) \in Seq(S)
      /\ Head(q) \in S /\ Head(q) = q[1]
      /\ Len(q) \in Nat /\ Len(q) > 0
      /\ DOMAIN q = 1..Len(q)
      /\ DOMAIN Tail(q) = 1..(Len(q) - 1)
      /\ \A i \in 1..(Len(q) - 1) : Tail(q)[i] = q[i + 1]
  OBVIOUS
<1>2. 1 \in 1..Len(q)
  BY <1>1
<1>3. \A i \in 1..(Len(q) - 1) : i + 1 \in 1..Len(q) /\ i + 1 # 1
  BY <1>1
<1>4. \A i, j \in 1..(Len(q) - 1) : i + 1 = j + 1 => i = j
  BY <1>1
<1> QED
  BY <1>1, <1>2, <1>3, <1>4, SMTT(30) DEF Distinct, In

\* A request that is given up leaves the queue from where it is.
LEMMA CancelQueue ==
  ASSUME NEW w, Cancel(w), waiters \in Seq(Holders), Distinct(waiters)
  PROVE  /\ waiters' \in Seq(Holders)
         /\ Distinct(waiters')
         /\ \A v : In(waiters', v) => In(waiters, v) /\ v # w
<1>1. Len(waiters) \in Nat /\ DOMAIN waiters = 1..Len(waiters)
  OBVIOUS
<1>2. CASE UNCHANGED waiters /\ \A i \in DOMAIN waiters : waiters[i] # w
  BY <1>2 DEF Distinct, In
<1>3. ASSUME NEW i \in DOMAIN waiters, waiters[i] = w,
             waiters' = [j \in 1..(Len(waiters) - 1) |->
                           IF j < i THEN waiters[j] ELSE waiters[j + 1]]
      PROVE  /\ waiters' \in Seq(Holders)
             /\ Distinct(waiters')
             /\ \A v : In(waiters', v) => In(waiters, v) /\ v # w
  <2> DEFINE at(j) == IF j < i THEN j ELSE j + 1
  <2>1. \A j \in 1..(Len(waiters) - 1) : at(j) \in 1..Len(waiters) /\ at(j) # i
    BY <1>1, <1>3
  <2>2. \A j, k \in 1..(Len(waiters) - 1) : at(j) = at(k) => j = k
    BY <1>1, <1>3, SMTT(30)
  <2>3. \A j \in 1..(Len(waiters) - 1) : waiters'[j] = waiters[at(j)]
    BY <1>1, <1>3
  <2>4. \A j \in 1..Len(waiters) : waiters[j] \in Holders
    BY <1>1
  <2>5. DOMAIN waiters' = 1..(Len(waiters) - 1)
    BY <1>3
  <2> HIDE DEF at
  <2>6. waiters' \in [1..(Len(waiters) - 1) -> Holders]
    BY <1>3, <2>1, <2>3, <2>4
  <2>7. waiters' \in Seq(Holders)
    <3>1. Len(waiters) - 1 \in Nat
      BY <1>1, <1>3
    <3> QED
      BY <2>6, <3>1, SMTT(30)
  <2>8. ASSUME NEW j \in DOMAIN waiters', NEW k \in DOMAIN waiters',
               waiters'[j] = waiters'[k]
        PROVE  j = k
    <3>1. waiters[at(j)] = waiters[at(k)]
      BY <2>3, <2>5, <2>8, SMTT(30)
    <3>2. at(j) = at(k)
      BY <1>1, <2>1, <2>5, <3>1, SMTT(30) DEF Distinct
    <3> QED
      BY <2>2, <2>5, <3>2
  <2>9. ASSUME NEW j \in DOMAIN waiters'
        PROVE  In(waiters, waiters'[j]) /\ waiters'[j] # w
    <3>1. /\ at(j) \in DOMAIN waiters /\ at(j) # i
          /\ waiters'[j] = waiters[at(j)]
      BY <1>1, <2>1, <2>3, <2>5
    <3> QED
      BY <1>3, <3>1 DEF Distinct, In
  <2> QED
    BY <2>7, <2>8, <2>9 DEF Distinct, In
<1> QED
  BY <1>2, <1>3 DEF Cancel
-----------------------------------------------------------------------------
\* What a step that changes one forwarder leaves alone.
Others(f) ==
  /\ fwd' \in [Fwds -> Forwarder]
  /\ \A g \in Fwds \ {f} : fwd'[g] = fwd[g]

LEMMA SetForwarder ==
  ASSUME fwd \in [Fwds -> Forwarder], NEW f \in Fwds, NEW r \in Forwarder,
         fwd' = [fwd EXCEPT ![f] = r]
  PROVE  Others(f) /\ fwd'[f] = r
BY DEF Others

LEMMA ReturnForwarder ==
  ASSUME fwd \in [Fwds -> Forwarder], NEW f \in Fwds,
         NEW as \in {"done", "failed"}, Return(f, as)
  PROVE  /\ Others(f)
         /\ fwd'[f].state = as /\ fwd'[f].from = fwd[f].from
         /\ fwd'[f].inbound = 0
<1> DEFINE r == [fwd[f] EXCEPT !.state = as, !.inbound = 0]
<1>1. r \in Forwarder /\ r.state = as /\ r.from = fwd[f].from /\ r.inbound = 0
  BY ZenonT(30) DEF Forwarder
<1>2. fwd' = [fwd EXCEPT ![f] = r]
  BY Zenon DEF Return
<1> HIDE DEF r
<1> QED
  BY <1>1, <1>2, SetForwarder, Zenon

LEMMA CreateForwarder ==
  ASSUME fwd \in [Fwds -> Forwarder], NEW f \in Fwds, from \in Visitors,
         fwd' = [fwd EXCEPT ![f].state = "run", ![f].from = from]
  PROVE  /\ Others(f)
         /\ fwd'[f].state = "run" /\ fwd'[f].from = from
         /\ fwd'[f].inbound = fwd[f].inbound
<1> DEFINE r == [fwd[f] EXCEPT !.state = "run", !.from = from]
<1>1. r \in Forwarder /\ r.state = "run" /\ r.from = from
      /\ r.inbound = fwd[f].inbound
  BY ZenonT(30) DEF Forwarder
<1>2. fwd' = [fwd EXCEPT ![f] = r]
  BY Zenon
<1> HIDE DEF r
<1> QED
  BY <1>1, <1>2, SetForwarder, Zenon

LEMMA MoveForwarder ==
  ASSUME fwd \in [Fwds -> Forwarder], NEW f \in Fwds,
         NEW s \in {"run", "reply", "leave"},
         fwd' = [fwd EXCEPT ![f].state = s]
  PROVE  /\ Others(f)
         /\ fwd'[f].state = s /\ fwd'[f].from = fwd[f].from
         /\ fwd'[f].inbound = fwd[f].inbound
BY DEF Forwarder, Others

LEMMA FillForwarder ==
  ASSUME fwd \in [Fwds -> Forwarder], NEW f \in Fwds, NEW n \in Nat,
         fwd' = [fwd EXCEPT ![f].inbound = n]
  PROVE  /\ Others(f)
         /\ fwd'[f].state = fwd[f].state /\ fwd'[f].from = fwd[f].from
         /\ fwd'[f].inbound = n
BY DEF Forwarder, Others

LEMMA SendForwarder ==
  ASSUME fwd \in [Fwds -> Forwarder], NEW f \in Fwds, fwd[f].inbound < SendqSize,
         fwd' = [fwd EXCEPT ![f].inbound = fwd[f].inbound + 1]
  PROVE  /\ Others(f)
         /\ fwd'[f].state = fwd[f].state /\ fwd'[f].from = fwd[f].from
         /\ fwd'[f].inbound \in 0..SendqSize
<1> DEFINE n == fwd[f].inbound + 1
<1>1. n \in Nat /\ n \in 0..SendqSize /\ fwd' = [fwd EXCEPT ![f].inbound = n]
  BY ForwarderAssumption DEF Forwarder
<1> HIDE DEF n
<1> QED
  BY <1>1, FillForwarder, Zenon

LEMMA InboundBounded ==
  ASSUME FwdTypeOK, NEW f \in Fwds, Others(f), fwd'[f].inbound \in 0..SendqSize
  PROVE  \A g \in Fwds : fwd'[g].inbound <= SendqSize
BY ForwarderAssumption DEF FwdTypeOK, Others
-----------------------------------------------------------------------------
\* Each task has at most one request in the queue of the lock: a forwarder
\* when it leaves, the reading task when it waits.
QueueInv ==
  /\ Distinct(waiters)
  /\ In(waiters, Main) => main \in {"lookup", "write", "reread"}
  /\ \A f \in Fwds : In(waiters, f) => fwd[f].state = "leave"

\* Between dropping the read guard and inserting, nobody else sets up the
\* mapping; the first guard is held in the second half of an iteration only.
MainInv ==
  /\ main \in {"write", "connect"} => port_map[from] = Main
  /\ guard => main \in {"reread", "send"}

FwdInv == FwdTypeOK /\ QueueInv /\ MainInv /\ OwnEntry /\ FoundStays
          /\ EntryReceives

LEMMA FwdInitInv == FwdInit => FwdInv
<1> SUFFICES ASSUME FwdInit PROVE FwdInv
  OBVIOUS
<1>1. fwd \in [Fwds -> Forwarder] /\ \A f \in Fwds : fwd[f].inbound = 0
  BY DEF FwdInit, Forwarder
<1>2. waiters \in Seq(Holders) /\ DOMAIN waiters = {}
  BY DEF FwdInit
<1>3. FwdTypeOK
  <2>1. waiters \in Seq({Main} \cup Fwds)
    BY <1>2 DEF Holders
  <2>2. \A f \in Fwds : fwd[f].inbound <= SendqSize
    BY <1>1, ForwarderAssumption
  <2>3. port_map \in [Visitors -> {Main} \cup Fwds]
    BY DEF FwdInit
  <2>4. outbound \in 0..SendqSize /\ packets \in 0..MaxPackets /\ replies \in 0..MaxReplies
    BY ForwarderAssumption DEF FwdInit
  <2>5. /\ main \in {"read", "lookup", "write", "connect", "reread", "send", "done"}
        /\ from \in Visitors /\ guard \in BOOLEAN /\ writer \in {"run", "parked", "done"}
    BY Zenon DEF FwdInit
  <2> QED
    BY <1>1, <2>1, <2>2, <2>3, <2>4, <2>5 DEF FwdTypeOK
<1>4. QueueInv
  BY <1>2, SMTT(30) DEF QueueInv, Distinct, In
<1>5. MainInv /\ OwnEntry /\ FoundStays /\ EntryReceives
  BY DEF FwdInit, MainInv, OwnEntry, FoundStays, EntryReceives, Live
<1> QED
  BY <1>3, <1>4, <1>5 DEF FwdInv

\* A step of the reading task that is granted the lock, and what it may ask
\* for next.
LEMMA Granted ==
  ASSUME FwdInv, First(Main)
  PROVE  /\ Tail(waiters) \in Seq(Holders)
         /\ Append(Tail(waiters), Main) \in Seq(Holders)
         /\ Distinct(Tail(waiters))
         /\ Distinct(Append(Tail(waiters), Main))
         /\ ~In(Tail(waiters), Main)
         /\ \A f \in Fwds : /\ In(Tail(waiters), f) => In(waiters, f)
                            /\ In(Append(Tail(waiters), Main), f)
                                 => In(waiters, f)
<1>1. waiters \in Seq(Holders) /\ Distinct(waiters) /\ waiters # <<>>
  BY DEF FwdInv, FwdTypeOK, QueueInv, First, Holders
<1>2. /\ Tail(waiters) \in Seq(Holders)
      /\ Distinct(Tail(waiters))
      /\ ~In(Tail(waiters), Main)
      /\ \A v : In(Tail(waiters), v) => In(waiters, v)
  BY <1>1, TailQueue, SMTT(30) DEF First
<1> QED
  BY <1>2, MainNotFwd, AppendQueue, ZenonT(30)

\* The steps of run_data_channel_for_udp.
LEMMA MainKeeps ==
  ASSUME FwdInv,
         \/ \E v \in Visitors : ReadPacket(v)
         \/ Lookup \/ GrabWriter \/ ConnectFails \/ Reread \/ Send \/ MainEnds
         \/ \E f \in Fwds : Connect(f)
  PROVE  FwdInv'
<1> USE ForwarderAssumption, MainNotFwd
    DEF FwdInv, FwdTypeOK, QueueInv, MainInv, OwnEntry, FoundStays, EntryReceives,
        Live, Goto, Await, Holders
<1>1. ASSUME NEW v \in Visitors, ReadPacket(v) PROVE FwdInv'
  <2>1. ~In(waiters, Main)
    BY <1>1, SMTT(30) DEF ReadPacket
  <2> QED
    BY <1>1, <2>1, AppendQueue, SMTT(30) DEF ReadPacket
<1>2. CASE Lookup
  <2>0. /\ waiters' = Append(Tail(waiters), Main)
        /\ main' \in {"write", "reread"} /\ guard' \in BOOLEAN
        /\ UNCHANGED <<from, port_map, fwd, writer, outbound, packets, replies>>
    BY <1>2, ZenonT(30) DEF Lookup
  <2>1. FwdTypeOK'
    BY <1>2, <2>0, Granted, SMTT(30) DEF Lookup
  <2>2. QueueInv'
    <3>1. /\ Distinct(waiters') /\ main' \in {"write", "reread"}
          /\ \A f \in Fwds : In(waiters', f) => In(waiters, f)
          /\ UNCHANGED fwd
      BY <1>2, <2>0, Granted, SMTT(30) DEF Lookup
    <3> QED
      BY <3>1, SMTT(30)
  <2>3. MainInv' /\ OwnEntry' /\ FoundStays' /\ EntryReceives'
    BY <1>2, SMTT(30) DEF Lookup
  <2> QED
    BY <2>1, <2>2, <2>3
<1>3. CASE GrabWriter
  BY <1>3, Granted, SMTT(30) DEF GrabWriter
<1>4. CASE ConnectFails
  <2>1. ~In(waiters, Main)
    BY <1>4 DEF ConnectFails
  <2> QED
    BY <1>4, <2>1, AppendQueue, SMTT(30) DEF ConnectFails
<1>5. CASE Reread
  BY <1>5, Granted, ZenonT(30) DEF Reread
<1>6. CASE Send
  <2>1. CASE UNCHANGED fwd
    BY <1>6, <2>1, Zenon DEF Send
  <2>2. CASE fwd' # fwd
    <3> DEFINE f == port_map[from]
    <3>1. f \in Fwds /\ f # Main
      BY <1>6, SMTT(30) DEF Send
    <3>2. /\ fwd[f].inbound \in Nat /\ fwd[f].inbound < SendqSize
          /\ fwd' = [fwd EXCEPT ![f].inbound = fwd[f].inbound + 1]
      BY <1>6, <2>2, <3>1, SMTT(30) DEF Send, Forwarder
    <3>3. /\ Others(f)
          /\ fwd'[f].state = fwd[f].state /\ fwd'[f].from = fwd[f].from
          /\ fwd'[f].inbound \in 0..SendqSize
      <4> HIDE DEF f
      <4> QED
        BY <3>1, <3>2, SendForwarder, Zenon
    <3>4. FwdTypeOK'
      <4> HIDE DEF f
      <4>1. \A g \in Fwds : fwd'[g].inbound <= SendqSize
        BY <3>1, <3>3, InboundBounded, SMTT(30)
      <4> QED
        BY <1>6, <3>3, <4>1, Zenon DEF Send, Others
    <3>5. QueueInv' /\ MainInv' /\ OwnEntry' /\ FoundStays'
      BY <1>6, <3>1, <3>3, SMTT(30) DEF Send, Others
    <3>6. EntryReceives'
      BY <1>6, <3>1, <3>3, SMTT(30) DEF Send, Others
    <3> QED
      BY <3>4, <3>5, <3>6, SMTT(30)
  <2> QED
    BY <2>1, <2>2, SMTT(30)
<1>7. CASE MainEnds
  BY <1>7, CancelQueue, ZenonT(30) DEF MainEnds
<1>8. ASSUME NEW f \in Fwds, Connect(f) PROVE FwdInv'
  <2>1. ~In(waiters, Main) /\ ~In(waiters, f)
    BY <1>8, SMTT(30) DEF Connect
  <2>2. /\ Others(f)
        /\ fwd'[f].state = "run" /\ fwd'[f].from = from
        /\ fwd'[f].inbound = fwd[f].inbound
    BY <1>8, CreateForwarder, Zenon DEF Connect
  <2>3. /\ Append(waiters, Main) \in Seq(Holders)
        /\ Distinct(Append(waiters, Main))
        /\ \A g \in Fwds : In(Append(waiters, Main), g) => In(waiters, g)
    BY <2>1, AppendQueue, SMTT(30)
  <2>4. FwdTypeOK'
    BY <1>8, <2>2, <2>3, SMTT(30) DEF Connect, Others
  <2>5. QueueInv'
    BY <1>8, <2>1, <2>2, <2>3, SMTT(30) DEF Connect, Others
  <2>6. MainInv' /\ OwnEntry' /\ FoundStays'
    BY <1>8, <2>2, SMTT(30) DEF Connect, Others
  <2>7. EntryReceives'
    BY <1>8, <2>2, SMTT(30) DEF Connect, Others
  <2> QED
    BY <2>4, <2>5, <2>6, <2>7, SMTT(30)
<1> QED
  BY <1>1, <1>2, <1>3, <1>4, <1>5, <1>6, <1>7, <1>8, ZenonT(30)

\* A forwarder that is not in the queue goes on, or returns.
LEMMA ForwarderMoves ==
  ASSUME FwdInv, NEW f \in Fwds,
         fwd[f].state # "leave", Live(f),
         Live(f)' \/ fwd'[f].state = "failed",
         UNCHANGED <<main, from, guard, port_map, waiters>>,
         Others(f), fwd'[f].from = fwd[f].from,
         fwd'[f].inbound \in 0..SendqSize,
         outbound' \in 0..SendqSize, writer' = writer,
         packets' = packets, replies' \in 0..MaxReplies
  PROVE  FwdInv'
<1> USE ForwarderAssumption, MainNotFwd DEF FwdInv, FwdTypeOK, Others
<1>1. \A g \in Fwds : fwd'[g].inbound <= SendqSize
  BY InboundBounded, SMTT(30)
<1>2. FwdTypeOK'
  BY <1>1, SMTT(30)
<1>3. QueueInv'
  BY SMTT(30) DEF QueueInv
<1>4. MainInv' /\ OwnEntry' /\ FoundStays' /\ EntryReceives'
  BY SMTT(30) DEF MainInv, OwnEntry, FoundStays, EntryReceives, Live
<1> QED
  BY <1>2, <1>3, <1>4, SMTT(30)

\* The steps of run_udp_forwarder.
LEMMA ForwarderKeeps ==
  ASSUME FwdInv, NEW f \in Fwds,
         Inbound(f) \/ Reply(f) \/ Outbound(f) \/ Leave(f) \/ Remove(f)
  PROVE  FwdInv'
<1>0. /\ fwd \in [Fwds -> Forwarder] /\ fwd[f].inbound \in 0..SendqSize
      /\ outbound \in 0..SendqSize /\ replies \in 0..MaxReplies
      /\ SendqSize \in Nat /\ MaxReplies \in Nat
  BY ForwarderAssumption, SMTT(30) DEF FwdInv, FwdTypeOK, Forwarder
<1>1. CASE Inbound(f)
  <2>1. /\ fwd[f].state # "leave" /\ Live(f) /\ fwd[f].inbound > 0
        /\ UNCHANGED <<main, from, guard, port_map, waiters>>
        /\ writer' = writer /\ packets' = packets
        /\ outbound' \in 0..SendqSize /\ replies' \in 0..MaxReplies
    BY <1>0, <1>1, SMTT(30) DEF Inbound, Live
  <2>2. /\ Others(f) /\ fwd'[f].from = fwd[f].from
        /\ fwd'[f].inbound \in 0..SendqSize
        /\ Live(f)' \/ fwd'[f].state = "failed"
    <3>1. CASE Return(f, "failed")
      BY <1>0, <3>1, ReturnForwarder, SMTT(30) DEF Live
    <3>2. CASE fwd' = [fwd EXCEPT ![f].inbound = fwd[f].inbound - 1]
      <4> DEFINE n == fwd[f].inbound - 1
      <4>1. n \in Nat /\ n \in 0..SendqSize /\ fwd' = [fwd EXCEPT ![f].inbound = n]
        BY <1>0, <2>1, <3>2, SMTT(30)
      <4> HIDE DEF n
      <4> QED
        BY <1>0, <1>1, <4>1, FillForwarder, ZenonT(30) DEF Live, Inbound
    <3> QED
      BY <1>1, <3>1, <3>2, SMTT(30) DEF Inbound
  <2> QED
    BY <2>1, <2>2, ForwarderMoves, ZenonT(30)
<1>2. CASE Reply(f)
  <2>1. /\ fwd[f].state # "leave" /\ Live(f)
        /\ UNCHANGED <<main, from, guard, port_map, waiters>>
        /\ writer' = writer /\ packets' = packets
        /\ outbound' \in 0..SendqSize /\ replies' \in 0..MaxReplies
    BY <1>0, <1>2, SMTT(30) DEF Reply, Live
  <2>2. /\ Others(f) /\ fwd'[f].from = fwd[f].from
        /\ fwd'[f].inbound \in 0..SendqSize
        /\ Live(f)' \/ fwd'[f].state = "failed"
    BY <1>0, <1>2, MoveForwarder, ZenonT(30) DEF Reply, Live
  <2> QED
    BY <2>1, <2>2, ForwarderMoves, ZenonT(30)
<1>3. CASE Outbound(f)
  <2>1. /\ fwd[f].state # "leave" /\ Live(f)
        /\ UNCHANGED <<main, from, guard, port_map, waiters>>
        /\ writer' = writer /\ packets' = packets
        /\ outbound' \in 0..SendqSize /\ replies' \in 0..MaxReplies
    BY <1>0, <1>3, SMTT(30) DEF Outbound, Live
  <2>2. /\ Others(f) /\ fwd'[f].from = fwd[f].from
        /\ fwd'[f].inbound \in 0..SendqSize
        /\ Live(f)' \/ fwd'[f].state = "failed"
    <3>1. CASE Return(f, "failed")
      BY <1>0, <3>1, ReturnForwarder, SMTT(30) DEF Live
    <3>2. CASE fwd' = [fwd EXCEPT ![f].state = "run"]
      BY <1>0, <3>2, MoveForwarder, ZenonT(30) DEF Live
    <3> QED
      BY <1>3, <3>1, <3>2, SMTT(30) DEF Outbound
  <2> QED
    BY <2>1, <2>2, ForwarderMoves, ZenonT(30)
<1> USE ForwarderAssumption, MainNotFwd DEF FwdInv, FwdTypeOK, Holders
<1>4. CASE Leave(f)
  <2>1. ~In(waiters, f)
    BY <1>4, SMTT(30) DEF Leave, QueueInv
  <2>2. /\ Others(f)
        /\ fwd'[f].state = "leave" /\ fwd'[f].from = fwd[f].from
        /\ fwd'[f].inbound = fwd[f].inbound
    BY <1>4, MoveForwarder, Zenon DEF Leave
  <2>3. /\ Append(waiters, f) \in Seq(Holders)
        /\ Distinct(Append(waiters, f))
        /\ \A v \in Holders : In(Append(waiters, f), v) => In(waiters, v) \/ v = f
    BY <2>1, AppendQueue, SMTT(30) DEF QueueInv
  <2>4. FwdTypeOK'
    BY <1>4, <2>2, <2>3, SMTT(30) DEF Leave, Others
  <2>5. QueueInv'
    BY <1>4, <2>2, <2>3, SMTT(30) DEF Leave, Others, QueueInv
  <2>6. MainInv' /\ OwnEntry' /\ FoundStays' /\ EntryReceives'
    BY <1>4, <2>2, SMTT(30) DEF Leave, Others, MainInv, OwnEntry, FoundStays, EntryReceives, Live
  <2> QED
    BY <2>4, <2>5, <2>6, SMTT(30)
<1>5. CASE Remove(f)
  <2>1. /\ Tail(waiters) \in Seq(Holders)
        /\ Distinct(Tail(waiters))
        /\ In(waiters, f)
        /\ \A v : In(Tail(waiters), v) => In(waiters, v) /\ v # f
    BY <1>5, TailQueue, SMTT(30) DEF Remove, First, QueueInv
  <2>2. fwd[f].state = "leave" /\ port_map[fwd[f].from] = f
    BY <2>1, SMTT(30) DEF QueueInv, OwnEntry, Live
  <2>3. /\ Others(f)
        /\ fwd'[f].state = "done" /\ fwd'[f].inbound = 0
    BY <1>5, ReturnForwarder, SMTT(30) DEF Remove
  <2>4. FwdTypeOK'
    <3>1. \A g \in Fwds : fwd'[g].inbound <= SendqSize
      BY <2>3, InboundBounded, SMTT(30)
    <3>2. port_map' \in [Visitors -> {Main} \cup Fwds]
      BY <1>5, Zenon DEF Remove
    <3> QED
      BY <1>5, <2>1, <2>3, <3>1, <3>2, SMTT(30) DEF Remove, Others
  <2>5. QueueInv'
    BY <1>5, <2>1, <2>3, SMTT(30) DEF Remove, Others, QueueInv
  <2>6. OwnEntry'
    BY <1>5, <2>2, <2>3, SMTT(30) DEF Remove, Others, OwnEntry, Live
  <2>7. MainInv' /\ FoundStays'
    BY <1>5, SMTT(30) DEF Remove, MainHolds, MainInv, FoundStays
  <2>8. EntryReceives'
    BY <1>5, <2>2, <2>3, SMTT(30) DEF Remove, Others, EntryReceives, Live
  <2> QED
    BY <2>4, <2>5, <2>6, <2>7, <2>8, SMTT(30)
<1> QED
  BY <1>1, <1>2, <1>3, <1>4, <1>5, SMTT(30)

LEMMA FwdNextInv == FwdInv /\ [FwdNext]_FwdVars => FwdInv'
<1>1. ASSUME FwdInv, Write \/ WriteParks \/ WriteResumes \/ WriterEnds PROVE FwdInv'
  <2>1. /\ UNCHANGED <<main, from, guard, port_map, waiters, fwd, packets, replies>>
        /\ writer' \in {"run", "parked", "done"} /\ outbound' \in 0..SendqSize
    BY <1>1, ForwarderAssumption, SMTT(30)
       DEF FwdInv, FwdTypeOK, Write, WriteParks, WriteResumes, WriterEnds
  <2> QED
    BY <1>1, <2>1, SMTT(30)
       DEF FwdInv, FwdTypeOK, QueueInv, MainInv, OwnEntry, FoundStays, EntryReceives, Live, In,
           Distinct
<1>2. ASSUME FwdInv, UNCHANGED FwdVars PROVE FwdInv'
  BY <1>2 DEF FwdInv, FwdTypeOK, QueueInv, MainInv, OwnEntry, FoundStays, EntryReceives, Live, FwdVars,
              In, Distinct
<1> QED
  BY <1>1, <1>2, MainKeeps, ForwarderKeeps, SMTT(30) DEF FwdNext

LEMMA FwdInvariance == FwdSpec => []FwdInv
BY FwdInitInv, FwdNextInv, PTL DEF FwdSpec
-----------------------------------------------------------------------------
\* Type correctness of a UDP data channel's tasks; its channels never hold
\* more than UDP_SENDQ_SIZE packets.
THEOREM FwdTypeCorrect == FwdSpec => []FwdTypeOK
<1>1. FwdInv => FwdTypeOK
  BY DEF FwdInv
<1> QED
  BY <1>1, FwdInvariance, PTL

\* A forwarder that has not ended is the one in the port map for its visitor:
\* run_data_channel_for_udp never replaces it, and what run_udp_forwarder
\* removes when it leaves is its own entry.
THEOREM OwnEntryHolds == FwdSpec => []OwnEntry
<1>1. FwdInv => OwnEntry
  BY DEF FwdInv
<1> QED
  BY <1>1, FwdInvariance, PTL

\* The entry that run_data_channel_for_udp has found stays in the port map as
\* long as it holds a guard.
THEOREM FoundStaysHolds == FwdSpec => []FoundStays
<1>1. FwdInv => FoundStays
  BY DEF FwdInv
<1> QED
  BY <1>1, FwdInvariance, PTL

\* An entry of the port map leads to its visitor's forwarder, which is live
\* unless it returned by `?`.
THEOREM EntryReceivesHolds == FwdSpec => []EntryReceives
<1>1. FwdInv => EntryReceives
  BY DEF FwdInv
<1> QED
  BY <1>1, FwdInvariance, PTL
-----------------------------------------------------------------------------
(* The connection pool *)

\* The balance is inductive together with the types.
IInv == TypeOK /\ Conservation

LEMMA DataChanSizeNat == DataChanSize \in Nat
BY PoolAssumption, SMTT(30) DEF DataChanSize

LEMMA InitIInv == Init => IInv
BY PoolAssumption, DataChanSizeNat, SMTT(30)
   DEF Init, IInv, TypeOK, Conservation, Promised, Waiting

\* The listener's steps keep the balance: a visitor is counted as waiting
\* from the moment its request is queued.
LEMMA ListenerIInv ==
  IInv /\ (Bind \/ Accept \/ SendVisitor \/ ListenerShutdown) => IInv'
<1> SUFFICES ASSUME IInv, Bind \/ Accept \/ SendVisitor \/ ListenerShutdown
             PROVE  IInv'
  BY SMTT(30)
<1> USE PoolAssumption, DataChanSizeNat
    DEF IInv, TypeOK, Conservation, Promised, Waiting
<1>1. CASE Bind
  BY <1>1, SMTT(30) DEF Bind
<1>2. CASE Accept
  BY <1>2, SMTT(30) DEF Accept
<1>3. CASE SendVisitor
  BY <1>3, SMTT(30) DEF SendVisitor
<1>4. CASE ListenerShutdown
  BY <1>4, SMTT(30) DEF ListenerShutdown
<1> QED
  BY <1>1, <1>2, <1>3, <1>4, SMTT(30)

\* So do the pool's: forwarding a visitor uses one data channel, a broken
\* data channel is replaced by a request.
LEMMA PoolIInv ==
  IInv /\ (PoolRecv \/ PoolForward \/ PoolBroken \/ PoolClosed) => IInv'
<1> SUFFICES ASSUME IInv, PoolRecv \/ PoolForward \/ PoolBroken \/ PoolClosed
             PROVE  IInv'
  OBVIOUS
<1> USE PoolAssumption, DataChanSizeNat
    DEF IInv, TypeOK, Conservation, Promised, Waiting, PoolEnd
<1>1. CASE PoolRecv
  BY <1>1, SMTT(30) DEF PoolRecv
<1>2. CASE PoolForward
  BY <1>2, SMTT(30) DEF PoolForward
<1>3. CASE PoolBroken
  BY <1>3, SMTT(30) DEF PoolBroken
<1>4. CASE PoolClosed
  BY <1>4, SMTT(30) DEF PoolClosed
<1> QED
  BY <1>1, <1>2, <1>3, <1>4

\* The control task, the client and the handshakes only move data channels
\* from one stage of their creation to the next, or lose them.
LEMMA ChannelIInv ==
  /\ IInv
  /\ \/ CtrlRequest \/ CtrlBroken \/ CtrlShutdown \/ ClientCreate
     \/ OpenFails \/ HandshakeData \/ SendData \/ ClientDown \/ DropHandle
  => IInv'
<1> SUFFICES ASSUME IInv,
                    \/ CtrlRequest \/ CtrlBroken \/ CtrlShutdown
                    \/ ClientCreate \/ OpenFails \/ HandshakeData
                    \/ SendData \/ ClientDown \/ DropHandle
             PROVE  IInv'
  BY SMTT(30)
<1> USE PoolAssumption, DataChanSizeNat
    DEF IInv, TypeOK, Conservation, Promised, Waiting, tasks
<1>1. CASE CtrlRequest
  BY <1>1, SMTT(30) DEF CtrlRequest
<1>2. CASE CtrlBroken \/ CtrlShutdown
  BY <1>2, SMTT(30) DEF CtrlBroken, CtrlShutdown, CtrlDone
<1>3. CASE ClientCreate
  BY <1>3, SMTT(30) DEF ClientCreate
<1>4. CASE OpenFails
  BY <1>4, SMTT(30) DEF OpenFails
<1>5. CASE HandshakeData
  BY <1>5, SMTT(30) DEF HandshakeData
<1>6. CASE SendData
  BY <1>6, SMTT(30) DEF SendData
<1>7. CASE ClientDown
  BY <1>7, SMTT(30) DEF ClientDown
<1>8. CASE DropHandle
  BY <1>8 DEF DropHandle
<1> QED
  BY <1>1, <1>2, <1>3, <1>4, <1>5, <1>6, <1>7, <1>8, SMTT(30)

LEMMA NextIInv == IInv /\ [Next]_vars => IInv'
<1>1. IInv /\ Next => IInv'
  BY ListenerIInv, PoolIInv, ChannelIInv, SMTT(30) DEF Next
<1>2. IInv /\ UNCHANGED vars => IInv'
  BY DEF IInv, TypeOK, Conservation, Promised, Waiting, vars, tasks
<1> QED
  BY <1>1, <1>2, SMTT(30)

LEMMA Invariance == Spec => []IInv
BY InitIInv, NextIInv, PTL DEF Spec

\* Type correctness of the service's tasks, queues and counters.
THEOREM TypeCorrect == Spec => []TypeOK
<1>1. IInv => TypeOK
  BY DEF IInv
<1> QED
  BY <1>1, Invariance, PTL

\* The balance of data channels kept by tcp_listen_and_send and
\* run_tcp_connection_pool holds for every pool size and capacity.
THEOREM ConservationHolds == Spec => []Conservation
<1>1. IInv => Conservation
  BY SMTT(30) DEF IInv
<1> QED
  BY <1>1, Invariance, PTL

\* With a visitor channel at least two larger than the pool, the channel of
\* twice that capacity has room for every data channel a handshake of
\* do_data_channel_handshake sends with the lock held.
THEOREM NeverFullUnderLockHolds == Spec => []NeverFullUnderLock
<1>1. IInv => NeverFullUnderLock
  <2> SUFFICES ASSUME IInv, sending > 0, pool # "done"
               PROVE  data_ch < DataChanSize
    BY SMTT(30) DEF NeverFullUnderLock
  <2>1. Waiting <= ChanSize + 2
    BY PoolAssumption DEF IInv, TypeOK, Waiting
  <2>2. Promised + lost = PoolSize + Waiting
    BY SMTT(30) DEF IInv, Conservation
  <2>3. data_ch < Promised + lost
    BY SMTT(30) DEF IInv, TypeOK, Promised
  <2> QED
    BY <2>1, <2>2, <2>3, PoolAssumption, SMTT(30)
    DEF DataChanSize, IInv, TypeOK, Waiting, Promised
<1> QED
  BY <1>1, Invariance, PTL
-----------------------------------------------------------------------------
(* The heartbeats *)

\* How long the client may have heard nothing while the server is there: the
\* oldest command is late by at most its age; with none on the way the server
\* is about to write one.
Awaited ==
  server # "silent" /\ heartbeat_interval # 0 =>
    /\ wire # <<>> => quiet <= heartbeat_interval + MaxDelay + wire[1]
    /\ wire = <<>> /\ server = "select" => quiet <= since + MaxDelay
    /\ wire = <<>> /\ server = "write" => quiet <= since
    /\ server = "select" => since <= heartbeat_interval
    /\ server = "write" => since <= MaxDelay

\* The commands a silent server leaves behind are as old as its silence.
Leftover ==
  server = "silent" =>
    /\ \A i \in DOMAIN wire : since <= wire[i]
    /\ wire = <<>> => since <= quiet + MaxDelay

Armed == heartbeat_timeout # 0 => quiet <= heartbeat_timeout

\* Commands are read in the order in which they were written.
Ordered == \A i, j \in DOMAIN wire : i <= j => wire[j] <= wire[i]

HBInv == HBTypeOK /\ Ordered /\ Awaited /\ Leftover /\ Armed /\ NoFalseTimeout

\* The oldest command stays the oldest.
LEMMA AppendWire ==
  ASSUME NEW S, NEW s \in Seq(S), NEW x \in S
  PROVE  /\ Append(s, x) \in Seq(S)
         /\ Append(s, x) # <<>>
         /\ s # <<>> => Append(s, x)[1] = s[1]
         /\ s = <<>> => Append(s, x)[1] = x
<1>1. /\ Append(s, x) \in Seq(S)
      /\ Append(s, x) # <<>>
      /\ \A i \in 1..Len(s) : Append(s, x)[i] = s[i]
      /\ Append(s, x)[Len(s) + 1] = x
  BY Appended
<1>2. s # <<>> => 1 \in 1..Len(s)
  OBVIOUS
<1>3. s = <<>> => Len(s) = 0
  OBVIOUS
<1> QED BY <1>1, <1>2, <1>3, SMTT(30)

\* Reading the oldest command moves the others up.
LEMMA TailWire ==
  ASSUME NEW S, NEW s \in Seq(S), s # <<>>
  PROVE  /\ Tail(s) \in Seq(S)
         /\ s[1] \in S
         /\ 1 \in DOMAIN s
         /\ \A i \in DOMAIN Tail(s) :
              i + 1 \in DOMAIN s /\ Tail(s)[i] = s[i + 1]
BY SMTT(30)

\* The initial states satisfy the invariant.
LEMMA HBInitInv == HBInit => HBInv
BY HeartbeatAssumption, SMTT(30)
DEF HBInit, HBInv, HBTypeOK, Ordered, Awaited, Leftover, Armed, NoFalseTimeout

\* A write appends the youngest command.
LEMMA BeginWriteKeeps ==
  ASSUME HBInv, server # "silent",
         server = "select", BeginWrite
  PROVE  HBInv'
<1> USE HeartbeatAssumption
<1>1. /\ wire \in Seq(0..MaxDelay)
      /\ 0 \in 0..MaxDelay
  BY SMTT(30) DEF HBInv, HBTypeOK
<1>2. /\ wire' \in Seq(0..MaxDelay)
      /\ wire' # <<>>
      /\ wire # <<>> => wire'[1] = wire[1]
      /\ wire = <<>> => wire'[1] = 0
  BY <1>1, AppendWire, SMTT(30) DEF BeginWrite
<1>3. HBTypeOK'
  BY <1>2, SMTT(30) DEF HBInv, HBTypeOK, BeginWrite, config
<1>4. Ordered'
  <2>1. \A i \in DOMAIN wire' : wire'[i] \in 0..MaxDelay
    BY <1>2, SMTT(30)
  <2>2. \A i \in DOMAIN wire' : i \in 1..(Len(wire) + 1)
    BY <1>1, SMTT(30) DEF BeginWrite
  <2>3. \A i \in 1..Len(wire) : wire'[i] = wire[i]
    BY <1>1, Appended, SMTT(30) DEF BeginWrite
  <2>4. wire'[Len(wire) + 1] = 0
    BY <1>1, Appended, SMTT(30) DEF BeginWrite
  <2>5. DOMAIN wire = 1..Len(wire) /\ Len(wire) \in Nat
    BY <1>1, SMTT(30)
  <2> QED BY <2>1, <2>2, <2>3, <2>4, <2>5, SMTT(30) DEF HBInv, Ordered
<1>5. Awaited'
  <2>1. CASE wire = <<>>
    BY <1>2, <2>1, SMTT(30) DEF HBInv, HBTypeOK, Awaited, BeginWrite, config
  <2>2. CASE wire # <<>>
    BY <1>2, <2>2, SMTT(30) DEF HBInv, HBTypeOK, Awaited, BeginWrite, config
  <2> QED BY <2>1, <2>2, SMTT(30)
<1>6. Leftover' /\ Armed' /\ NoFalseTimeout'
  BY DEF HBInv, HBTypeOK, Leftover, Armed, NoFalseTimeout, BeginWrite, config
<1> QED BY <1>3, <1>4, <1>5, <1>6, SMTT(30) DEF HBInv

\* A command that is read restarts the client's timer.
LEMMA ReadKeeps ==
  ASSUME HBInv, ReadControlCmd
  PROVE  HBInv'
<1> USE HeartbeatAssumption
<1>1. wire \in Seq(0..MaxDelay) /\ wire # <<>>
  BY SMTT(30) DEF HBInv, HBTypeOK, ReadControlCmd
<1>2. /\ wire' \in Seq(0..MaxDelay)
      /\ wire[1] \in 0..MaxDelay
      /\ 1 \in DOMAIN wire
      /\ \A i \in DOMAIN wire' : i + 1 \in DOMAIN wire /\ wire'[i] = wire[i + 1]
  BY <1>1, TailWire, SMTT(30) DEF ReadControlCmd
<1>3. \A i \in DOMAIN wire' : i \in Nat /\ wire'[i] \in 0..MaxDelay
  BY <1>2, SMTT(30)
<1>4. HBTypeOK'
  BY <1>2, SMTT(30) DEF HBInv, HBTypeOK, ReadControlCmd, config
<1>5. Ordered'
  BY <1>2, <1>3, SMTT(30) DEF HBInv, Ordered
<1>6. Awaited'
  <2>1. wire' # <<>> => wire'[1] \in 0..MaxDelay
    BY <1>2, SMTT(30)
  <2>2. quiet' = 0 /\ since' = since /\ server' = server
        /\ heartbeat_interval' = heartbeat_interval
        /\ since \in Nat /\ heartbeat_interval \in Nat
    BY SMTT(30) DEF HBInv, HBTypeOK, ReadControlCmd, config
  <2>3. server # "silent" /\ heartbeat_interval # 0 =>
          /\ server = "select" => since <= heartbeat_interval
          /\ server = "write" => since <= MaxDelay
    BY SMTT(30) DEF HBInv, Awaited
  <2> HIDE DEF HBTypeOK
  <2> QED BY <2>1, <2>2, <2>3 DEF Awaited
<1>7. Leftover'
  <2>1. server' = server /\ since' = since /\ quiet' = 0
    BY SMTT(30) DEF ReadControlCmd
  <2>2. ASSUME server = "silent"
        PROVE  since <= MaxDelay /\ \A i \in DOMAIN wire' : since <= wire'[i]
    BY <1>2, <2>2, SMTT(30) DEF HBInv, HBTypeOK, Leftover
  <2> QED BY <2>1, <2>2, SMTT(30) DEF Leftover, HBInv, HBTypeOK
<1>8. Armed' /\ NoFalseTimeout'
  BY SMTT(30) DEF HBInv, HBTypeOK, Armed, NoFalseTimeout, ReadControlCmd, config
<1> QED BY <1>4, <1>5, <1>6, <1>7, <1>8, SMTT(30) DEF HBInv

\* Time passes only while nothing is due.
LEMMA TickKeeps ==
  ASSUME HBInv, Tick
  PROVE  HBInv'
<1> USE HeartbeatAssumption
<1>1. /\ wire \in Seq(0..MaxDelay)
      /\ wire' = [i \in 1..Len(wire) |-> wire[i] + 1]
      /\ Len(wire) \in Nat
      /\ DOMAIN wire = 1..Len(wire)
  BY SMTT(30) DEF HBInv, HBTypeOK, Tick
<1>2. \A i \in 1..Len(wire) :
        /\ wire[i] \in 0..MaxDelay
        /\ wire[i] <= wire[1]
        /\ wire[1] < MaxDelay
  <2> SUFFICES ASSUME NEW i \in 1..Len(wire)
               PROVE  /\ wire[i] \in 0..MaxDelay
                      /\ wire[i] <= wire[1]
                      /\ wire[1] < MaxDelay
    BY SMTT(30)
  <2>1. wire[i] \in 0..MaxDelay /\ 1 \in DOMAIN wire /\ wire # <<>>
        /\ wire[1] \in 0..MaxDelay
    BY <1>1, SMTT(30)
  <2>2. wire[i] <= wire[1]
    <3>1. \A k, l \in DOMAIN wire : k <= l => wire[l] <= wire[k]
      BY SMTT(30) DEF HBInv, Ordered
    <3>2. 1 <= i /\ i \in DOMAIN wire
      BY <1>1, SMTT(30)
    <3> QED BY <2>1, <3>1, <3>2, SMTT(30)
  <2> QED BY <2>1, <2>2, SMTT(30) DEF Tick, Due
<1>3. wire' \in Seq(0..MaxDelay)
  BY <1>1, <1>2, SMTT(30)
<1>4. HBTypeOK'
  BY <1>3, SMTT(30) DEF HBInv, HBTypeOK, Tick, config
<1>5. Ordered'
  <2>1. \A k, l \in 1..Len(wire) : k <= l => wire[l] <= wire[k]
    BY <1>1, ZenonT(30) DEF HBInv, Ordered
  <2>2. DOMAIN wire' = 1..Len(wire)
    BY <1>1, SMTT(30)
  <2>3. \A k, l \in 1..Len(wire) : k <= l => wire'[l] <= wire'[k]
    BY <1>1, <1>2, <2>1, SMTT(30)
  <2> QED BY <2>2, <2>3 DEF Ordered
<1>6. wire' = <<>> <=> wire = <<>>
  BY <1>1, SMTT(30)
<1>7. wire # <<>> => wire'[1] = wire[1] + 1 /\ wire[1] \in 0..MaxDelay
  BY <1>1, SMTT(30)
<1>8. Awaited'
  <2>1. /\ heartbeat_interval \in Nat /\ since \in Nat /\ quiet \in Nat
        /\ since' = since + 1 /\ quiet' = quiet + 1
        /\ UNCHANGED <<heartbeat_interval, server>>
    BY SMTT(30) DEF HBInv, HBTypeOK, Tick, config
  <2>2. /\ server = "select" /\ heartbeat_interval # 0
           => since < heartbeat_interval
        /\ server = "write" => since < MaxDelay
    BY <2>1, SMTT(30) DEF Tick, Due
  <2> SUFFICES ASSUME server # "silent", heartbeat_interval # 0
               PROVE  Awaited'
    BY <2>1, SMTT(30) DEF Awaited
  <2>3. Awaited
    BY SMTT(30) DEF HBInv
  <2>4. wire # <<>> => quiet' <= heartbeat_interval + MaxDelay + wire'[1]
    BY <1>7, <2>1, <2>3, SMTT(30) DEF Awaited
  <2>5. /\ wire = <<>> /\ server = "select" => quiet' <= since' + MaxDelay
        /\ wire = <<>> /\ server = "write" => quiet' <= since'
    BY <2>1, <2>3, SMTT(30) DEF Awaited
  <2>6. /\ server = "select" => since' <= heartbeat_interval
        /\ server = "write" => since' <= MaxDelay
    BY <2>1, <2>2, SMTT(30)
  <2> QED
    BY <1>6, <2>1, <2>4, <2>5, <2>6, SMTT(30) DEF Awaited
<1>9. Leftover'
  <2> SUFFICES ASSUME server = "silent"
               PROVE  Leftover'
    BY SMTT(30) DEF Leftover, Tick
  <2>1. /\ since \in Nat /\ quiet \in Nat
        /\ since' = since + 1 /\ quiet' = quiet + 1
    BY SMTT(30) DEF HBInv, HBTypeOK, Tick
  <2>2. /\ \A i \in 1..Len(wire) : since <= wire[i]
        /\ wire = <<>> => since <= quiet + MaxDelay
    BY <1>1, SMTT(30) DEF HBInv, Leftover
  <2>3. DOMAIN wire' = 1..Len(wire)
        /\ \A i \in 1..Len(wire) : wire'[i] = wire[i] + 1
    BY <1>1
  <2>4. \A i \in DOMAIN wire' : since' <= wire'[i]
    BY <1>2, <2>1, <2>2, <2>3, SMTT(30)
  <2>5. wire' = <<>> => since' <= quiet' + MaxDelay
    BY <1>6, <2>1, <2>2, SMTT(30)
  <2> QED
    BY <2>4, <2>5, SMTT(30) DEF Leftover
<1>10. Armed' /\ NoFalseTimeout'
  BY SMTT(30) DEF HBInv, HBTypeOK, Armed, NoFalseTimeout, Tick, Due, config
<1> QED BY <1>4, <1>5, <1>8, <1>9, <1>10 DEF HBInv

\* When the client's timer runs out and leaves the room that NoFalseTimeout
\* asks for, the server has fallen silent.
LEMMA TimeOutKeeps ==
  ASSUME HBInv, TimeOut
  PROVE  HBInv'
<1> USE HeartbeatAssumption
<1>1. HBTypeOK' /\ Ordered' /\ Awaited' /\ Leftover' /\ Armed'
  BY SMTT(30) DEF HBInv, HBTypeOK, Ordered, Awaited, Leftover, Armed, TimeOut, config
<1>2. NoFalseTimeout'
  <2>1. wire # <<>> => wire[1] \in 0..MaxDelay
    BY SMTT(30) DEF HBInv, HBTypeOK
  <2> QED BY <2>1, SMTT(30) DEF HBInv, HBTypeOK, Awaited, NoFalseTimeout, TimeOut, config
<1> QED BY <1>1, <1>2, SMTT(30) DEF HBInv

\* Every step preserves the invariant.
LEMMA HBNextInv == HBInv /\ [HBNext]_timers => HBInv'
<1> SUFFICES ASSUME HBInv, [HBNext]_timers
             PROVE  HBInv'
  BY SMTT(30)
<1> USE HeartbeatAssumption
<1>1. CASE CreateDataChannel
  BY <1>1, BeginWriteKeeps, SMTT(30) DEF CreateDataChannel
<1>2. CASE SendHeartBeat
  BY <1>2, BeginWriteKeeps, SMTT(30) DEF SendHeartBeat
<1>3. CASE EndWrite
  BY <1>3, SMTT(30) DEF EndWrite, HBInv, HBTypeOK, Ordered, Awaited, Leftover, Armed,
              NoFalseTimeout, config
<1>4. CASE FallSilent
  BY <1>4, SMTT(30) DEF FallSilent, HBInv, HBTypeOK, Ordered, Awaited, Leftover, Armed,
              NoFalseTimeout, config
<1>5. CASE ReadControlCmd
  BY <1>5, ReadKeeps, SMTT(30)
<1>6. CASE TimeOut
  BY <1>6, TimeOutKeeps, SMTT(30)
<1>7. CASE Tick
  BY <1>7, TickKeeps
<1>8. CASE UNCHANGED timers
  BY <1>8, SMTT(30) DEF timers, config, HBInv, HBTypeOK, Ordered, Awaited, Leftover, Armed,
              NoFalseTimeout
<1> QED BY <1>1, <1>2, <1>3, <1>4, <1>5, <1>6, <1>7, <1>8, SMTT(30) DEF HBNext

\* A silent server leaves at most MaxDelay of commands, and then the client's
\* timer runs.
LEMMA HBInvSilence == HBInv => SilenceNoticed
<1> USE HeartbeatAssumption
<1>1. ASSUME HBInv, wire # <<>>
      PROVE  1 \in DOMAIN wire /\ wire[1] \in 0..MaxDelay
  BY <1>1, SMTT(30) DEF HBInv, HBTypeOK
<1> QED BY <1>1, SMTT(30) DEF HBInv, HBTypeOK, Leftover, Armed, SilenceNoticed

\* For every interval, timeout and delay with interval + 2 * delay < timeout the
\* client gives up only a server that is gone (the heartbeats of
\* ControlChannel::run at both ends).
THEOREM NoFalseTimeoutHolds == HBSpec => []NoFalseTimeout
<1>1. HBInv => NoFalseTimeout
  BY DEF HBInv
<1> QED BY <1>1, HBInitInv, HBNextInv, PTL DEF HBSpec

\* For every timeout other than 0 the client notices a silent server at the
\* latest a delay and a timeout after it fell silent.
THEOREM SilenceNoticedHolds == HBSpec => []SilenceNoticed
BY HBInitInv, HBNextInv, HBInvSilence, PTL DEF HBSpec
=============================================================================
