---------------------------- MODULE UdpForwarder ----------------------------
(***************************************************************************)
(* The client's end of a UDP data channel (client.rs): the task that reads *)
(* packets from the server and hands them to forwarders                    *)
(* (run_data_channel_for_udp), one forwarder per visitor                   *)
(* (run_udp_forwarder), the task that writes replies to the server, and    *)
(* the port map they share.                                                *)
(*                                                                         *)
(* The map's lock is tokio's RwLock: requests are granted in the order in  *)
(* which they were made, so a waiting writer stops later readers.          *)
(***************************************************************************)
EXTENDS Naturals, Sequences

CONSTANTS
  Visitors,       \* addresses packets come from
  SendqSize,      \* UDP_SENDQ_SIZE, capacity of both kinds of channel
  MaxForwarders,  \* bound: forwarders created
  MaxPackets,     \* bound: packets read from the server
  MaxReplies      \* bound: replies of the service

ASSUME ForwarderAssumption ==
  /\ SendqSize \in Nat \ {0}
  /\ MaxForwarders \in Nat
  /\ MaxPackets \in Nat
  /\ MaxReplies \in Nat

Fwds == 1..MaxForwarders
Main == 0       \* the reading task, as a waiter for the lock; also "no entry"

VARIABLES
  main,       \* where the reading task is
  from,       \* the address of the packet it holds
  guard,      \* it still holds the read guard of its first lookup
  port_map,   \* the forwarder whose sender is stored for each address
  waiters,    \* those waiting for the lock, in order
  fwd,        \* the forwarders
  writer,     \* the task that writes to the server
  outbound,   \* packets in the outbound channel
  packets,    \* packets read so far
  replies     \* replies so far

FwdVars == <<main, from, guard, port_map, waiters, fwd, writer, outbound,
          packets, replies>>

Forwarder == [state : {"none", "run", "reply", "leave", "done", "failed"},
              from : Visitors, inbound : Nat]

FwdTypeOK ==
  /\ main \in {"read", "lookup", "write", "connect", "reread", "send", "done"}
  /\ from \in Visitors
  /\ guard \in BOOLEAN
  /\ port_map \in [Visitors -> {Main} \cup Fwds]
  /\ waiters \in Seq({Main} \cup Fwds)
  /\ fwd \in [Fwds -> Forwarder]
  /\ \A f \in Fwds : fwd[f].inbound <= SendqSize
  /\ writer \in {"run", "parked", "done"}
  /\ outbound \in 0..SendqSize
  /\ packets \in 0..MaxPackets
  /\ replies \in 0..MaxReplies

FwdInit ==
  /\ main = "read"
  /\ from \in Visitors
  /\ guard = FALSE
  /\ port_map = [v \in Visitors |-> Main]
  /\ waiters = <<>>
  /\ fwd = [f \in Fwds |-> [state |-> "none", from |-> from, inbound |-> 0]]
  /\ writer = "run"
  /\ outbound = 0
  /\ packets = 0
  /\ replies = 0

\* The lock: who is next, and whether the reading task holds it.
First(w) == waiters # <<>> /\ Head(waiters) = w
MainHolds == guard \/ main \in {"connect", "send"}

Goto(to) == main' = to
Await(rest, to) == Goto(to) /\ waiters' = Append(rest, Main)

\* A request that is given up leaves the queue.
Cancel(w) ==
  \/ /\ \A i \in DOMAIN waiters : waiters[i] # w
     /\ UNCHANGED waiters
  \/ \E i \in DOMAIN waiters :
       /\ waiters[i] = w
       /\ waiters' = [j \in 1..(Len(waiters) - 1) |->
                        IF j < i THEN waiters[j] ELSE waiters[j + 1]]
-----------------------------------------------------------------------------
(* run_data_channel_for_udp *)

\* A packet has arrived; the read lock is requested.
ReadPacket(v) ==
  /\ main = "read"
  /\ packets < MaxPackets
  /\ packets' = packets + 1
  /\ from' = v
  /\ Await(waiters, "lookup")
  /\ UNCHANGED <<guard, port_map, fwd, writer, outbound, replies>>

\* Mutant: the map is not consulted.
LookupAlways ==
  /\ main = "lookup"
  /\ First(Main)
  /\ Await(Tail(waiters), "write")
  /\ UNCHANGED <<from, guard, port_map, fwd, writer, outbound, packets, replies>>

\* The first lookup.  Without an entry the guard is dropped and the write lock
\* requested; with one the guard lives on while the read lock is requested
\* for the second time.
Lookup ==
  /\ main = "lookup"
  /\ First(Main)
  /\ IF port_map[from] = Main
     THEN Await(Tail(waiters), "write") /\ UNCHANGED guard
     ELSE Await(Tail(waiters), "reread") /\ guard' = TRUE
  /\ UNCHANGED <<from, port_map, fwd, writer, outbound, packets, replies>>

GrabWriter ==
  /\ main = "write"
  /\ First(Main)
  /\ Goto("connect")
  /\ waiters' = Tail(waiters)
  /\ UNCHANGED <<from, guard, port_map, fwd, writer, outbound, packets, replies>>

\* udp_connect succeeds, and the mapping and its forwarder are created; or it
\* fails.  The write lock is released.
Connect(f) ==
  /\ main = "connect"
  /\ fwd[f].state = "none"
  /\ fwd' = [fwd EXCEPT ![f].state = "run", ![f].from = from]
  /\ port_map' = [port_map EXCEPT ![from] = f]
  /\ Await(waiters, "reread")
  /\ UNCHANGED <<from, guard, writer, outbound, packets, replies>>

ConnectFails ==
  /\ main = "connect"
  /\ Await(waiters, "reread")
  /\ UNCHANGED <<from, guard, port_map, fwd, writer, outbound, packets, replies>>

\* The second lookup, whose guard is held while the packet is sent.
Reread ==
  /\ main = "reread"
  /\ First(Main)
  /\ waiters' = Tail(waiters)
  /\ IF port_map[from] = Main
     THEN Goto("read") /\ guard' = FALSE
     ELSE Goto("send") /\ UNCHANGED guard
  /\ UNCHANGED <<from, port_map, fwd, writer, outbound, packets, replies>>

\* Mutant: the inbound channel has no limit.
SendUnbounded ==
  /\ main = "send"
  /\ fwd' = [fwd EXCEPT ![port_map[from]].inbound = @ + 1]
  /\ Goto("read")
  /\ guard' = FALSE
  /\ UNCHANGED <<from, port_map, waiters, writer, outbound, packets, replies>>

\* tx.send(packet.data).await: waits for room, and fails, which is ignored,
\* when the forwarder is gone.
Send ==
  /\ main = "send"
  /\ LET f == port_map[from] IN
     \/ /\ fwd[f].state \in {"done", "failed"}
        /\ UNCHANGED fwd
     \/ /\ fwd[f].state \notin {"done", "failed"}
        /\ fwd[f].inbound < SendqSize
        /\ fwd' = [fwd EXCEPT ![f].inbound = @ + 1]
  /\ Goto("read")
  /\ guard' = FALSE
  /\ UNCHANGED <<from, port_map, waiters, writer, outbound, packets, replies>>

\* Mutant: a task that ends keeps its guard.
MainEndsKeepsGuard ==
  /\ main # "done"
  /\ Goto("done")
  /\ Cancel(Main)
  /\ UNCHANGED <<from, guard, port_map, fwd, writer, outbound, packets, replies>>

\* The connection ends, or the end of the control channel cancels the task at
\* any await: its guards and its request are dropped.
MainEnds ==
  /\ main # "done"
  /\ Goto("done")
  /\ guard' = FALSE
  /\ Cancel(Main)
  /\ UNCHANGED <<from, port_map, fwd, writer, outbound, packets, replies>>
-----------------------------------------------------------------------------
(* run_udp_forwarder.  Its inbound channel never ends: the sender is in the *)
(* port map, which the forwarder itself keeps alive.                        *)

\* Returning by `?`, as "failed", leaves the entry in the map.
Return(f, as) == fwd' = [fwd EXCEPT ![f].state = as, ![f].inbound = 0]

\* A packet for the service is sent, or cannot be.
Inbound(f) ==
  /\ fwd[f].state = "run"
  /\ fwd[f].inbound > 0
  /\ \/ fwd' = [fwd EXCEPT ![f].inbound = @ - 1]
     \/ Return(f, "failed")
  /\ UNCHANGED <<main, from, guard, port_map, waiters, writer, outbound,
                 packets, replies>>

\* The service replies; the reply waits for room in the outbound channel.
Reply(f) ==
  /\ fwd[f].state = "run"
  /\ replies < MaxReplies
  /\ replies' = replies + 1
  /\ fwd' = [fwd EXCEPT ![f].state = "reply"]
  /\ UNCHANGED <<main, from, guard, port_map, waiters, writer, outbound, packets>>

Outbound(f) ==
  /\ fwd[f].state = "reply"
  /\ \/ /\ writer # "done"
        /\ outbound < SendqSize
        /\ outbound' = outbound + 1
        /\ fwd' = [fwd EXCEPT ![f].state = "run"]
     \/ /\ writer = "done"
        /\ Return(f, "failed")
        /\ UNCHANGED outbound
  /\ UNCHANGED <<main, from, guard, port_map, waiters, writer, packets, replies>>

\* No traffic for UDP_TIMEOUT, or an error from the socket: the write lock is
\* requested.
Leave(f) ==
  /\ fwd[f].state = "run"
  /\ fwd' = [fwd EXCEPT ![f].state = "leave"]
  /\ waiters' = Append(waiters, f)
  /\ UNCHANGED <<main, from, guard, port_map, writer, outbound, packets, replies>>

\* Mutant: the lock is not waited for.
RemoveUnlocked(f) ==
  /\ fwd[f].state = "leave"
  /\ Cancel(f)
  /\ port_map' = [port_map EXCEPT ![fwd[f].from] = Main]
  /\ Return(f, "done")
  /\ UNCHANGED <<main, from, guard, writer, outbound, packets, replies>>

\* Mutant: the entry is not removed.
RemoveKeepsEntry(f) ==
  /\ First(f)
  /\ ~MainHolds
  /\ waiters' = Tail(waiters)
  /\ Return(f, "done")
  /\ UNCHANGED <<main, from, guard, port_map, writer, outbound, packets, replies>>

\* The write lock is granted and the entry removed.
Remove(f) ==
  /\ First(f)
  /\ ~MainHolds
  /\ waiters' = Tail(waiters)
  /\ port_map' = [port_map EXCEPT ![fwd[f].from] = Main]
  /\ Return(f, "done")
  /\ UNCHANGED <<main, from, guard, writer, outbound, packets, replies>>
-----------------------------------------------------------------------------
(* The task that writes replies to the server *)

Write ==
  /\ writer = "run"
  /\ outbound > 0
  /\ \/ writer' = writer /\ outbound' = outbound - 1
     \/ writer' = "done" /\ outbound' = 0
  /\ UNCHANGED <<main, from, guard, port_map, waiters, fwd, packets, replies>>

\* The write of a packet does not end: the connection is full and the server does
\* not read, or nobody wakes the writer of the UDP transport (UdpStream,
\* ParkedWriter).
WriteParks ==
  /\ writer = "run"
  /\ outbound > 0
  /\ writer' = "parked"
  /\ outbound' = outbound - 1
  /\ UNCHANGED <<main, from, guard, port_map, waiters, fwd, packets, replies>>

\* ... until there is room or a wake after all, or the connection fails.
WriteResumes ==
  /\ writer = "parked"
  /\ \/ writer' = "run" /\ UNCHANGED outbound
     \/ writer' = "done" /\ outbound' = 0
  /\ UNCHANGED <<main, from, guard, port_map, waiters, fwd, packets, replies>>

\* Every sender is gone.
WriterEnds ==
  /\ writer = "run"
  /\ outbound = 0
  /\ main = "done"
  /\ \A f \in Fwds : fwd[f].state \in {"none", "done", "failed"}
  /\ writer' = "done"
  /\ UNCHANGED <<main, from, guard, port_map, waiters, fwd, outbound, packets,
                 replies>>

FwdNext ==
  \/ \E v \in Visitors : ReadPacket(v)
  \/ Lookup \/ GrabWriter \/ ConnectFails \/ Reread \/ Send \/ MainEnds
  \/ \E f \in Fwds : \/ Connect(f) \/ Inbound(f) \/ Reply(f) \/ Outbound(f)
                     \/ Leave(f) \/ Remove(f)
  \/ Write \/ WriteParks \/ WriteResumes \/ WriterEnds

FwdSpec == FwdInit /\ [][FwdNext]_FwdVars

\* Tasks that can go on do, and a forwarder without traffic reaches its timeout.
\* Nothing makes packets or replies arrive, connections fail or end, or a write
\* that is parked go on.
FwdFairSpec ==
  /\ FwdSpec
  /\ WF_FwdVars(Lookup) /\ WF_FwdVars(GrabWriter) /\ WF_FwdVars(Reread) /\ WF_FwdVars(Send)
  /\ WF_FwdVars(ConnectFails \/ \E f \in Fwds : Connect(f))
  /\ \A f \in Fwds : /\ WF_FwdVars(Inbound(f)) /\ WF_FwdVars(Outbound(f))
                     /\ WF_FwdVars(Leave(f)) /\ WF_FwdVars(Remove(f))
  /\ WF_FwdVars(Write) /\ WF_FwdVars(WriterEnds)
-----------------------------------------------------------------------------
(* Properties *)

Live(f) == fwd[f].state \in {"run", "reply", "leave"}

\* A forwarder that has not ended is the one in the map for its visitor:
\* packets reach it, a visitor never has two, and the entry it removes when it
\* leaves (run_udp_forwarder) is its own.
OwnEntry ==
  \A f \in Fwds : Live(f) => port_map[fwd[f].from] = f

\* The entry that the reading task found under its guard stays there until the
\* guard is dropped, also while the send waits for room.
FoundStays ==
  guard \/ main = "send" => port_map[from] # Main

\* "Now there should be a udp forwarder that can receive the packet"
\* (run_data_channel_for_udp): an entry leads to its visitor's own forwarder,
\* which takes packets, unless that one returned by `?`.  Its entry is left
\* behind, and the visitor's packets are dropped from then on.
EntryReceives ==
  \A v \in Visitors :
    LET f == port_map[v] IN
    f # Main => fwd[f].from = v /\ (Live(f) \/ fwd[f].state = "failed")

\* When the reading task has ended and the service is quiet (its replies are
\* bounded here), the forwarders and the writing task end, and with them the
\* write half of the connection.  The exception is a write that hangs: nothing
\* cancels the writing task, which run_data_channel_for_udp only spawns, and it
\* keeps the forwarders that have a reply for it, but no other.
AllEnd ==
  main = "done" ~>
    \/ writer = "done" /\ \A f \in Fwds : ~Live(f)
    \/ writer = "parked" /\ \A f \in Fwds : Live(f) => fwd[f].state = "reply"

\* The reading task, once it has looked a packet's visitor up, gets to the
\* next packet, unless a write to the server hangs for good.
PacketHandedOver ==
  \/ <>[](writer = "parked")
  \/ main \in {"lookup", "write", "connect", "reread"} ~> main \in {"read", "done"}
=============================================================================
