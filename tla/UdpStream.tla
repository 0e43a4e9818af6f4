------------------------------ MODULE UdpStream ------------------------------
(***************************************************************************)
(* One stream of the UDP transport (transport/udp.rs with                  *)
(* transport/reliability.rs): the connecting endpoint, the endpoint the    *)
(* listener creates for it, and a network that loses, duplicates and       *)
(* reorders datagrams.                                                     *)
(*                                                                         *)
(* A chunk is what one poll_write takes; the bytes in it are one value.    *)
(* The queue packet_rx between the socket and the stream's task belongs to *)
(* the network.  Timers are choices: `old` says that an entry of           *)
(* write_queue was sent longer ago than the timeout of its mode (200 ms in *)
(* Tcp mode, 30 s in Udp mode).  The acknowledgement fields of packets     *)
(* that are neither Sack nor Nack are never read and are left out.         *)
(***************************************************************************)
EXTENDS Naturals, Sequences, FiniteSets

CONSTANTS
  Data,             \* the contents of chunks
  None,             \* no contents
  Service,          \* service type of the channel the stream carries
  Cap,              \* 1024, the length of write_queue that stops a writer,
                    \* and the capacity of the channel write_tx
  FrameChunks,      \* 2, chunks of a framed message: its length and its body
  Window,           \* 64, width of the selective acknowledgement
  MaxRetransmits,   \* 100, retransmissions before the stream times out
  MaxWrites,        \* bound: chunks an endpoint writes
  Pingers,          \* bound: the ends that send keepalives
  MaxStreams        \* bound: times the listener creates the stream

End == {"conn", "acc"}

ASSUME StreamAssumption ==
  /\ None \notin Data
  /\ Service \in {"Tcp", "Udp"}
  /\ Cap \in Nat \ {0}
  /\ FrameChunks \in Nat \ {0}
  /\ Window \in Nat \ {0}
  /\ MaxRetransmits \in Nat
  /\ MaxWrites \in [End -> Nat]
  /\ Pingers \subseteq End
  /\ MaxStreams \in Nat

VARIABLES
  st,        \* the endpoints' StreamState, UdpStreamInner and tasks
  net,       \* datagrams sent
  streams,   \* streams the listener has created for this id
  written,   \* chunks accepted by poll_write, in order
  got        \* chunks returned by poll_read, in order

vars == <<st, net, streams, written, got>>

Peer(e) == IF e = "conn" THEN "acc" ELSE "conn"

Kinds == {"Stream", "StreamOpen", "StreamOpenAck", "StreamClose", "Sack",
          "Nack", "KeepalivePing", "KeepalivePong"}

\* Sequence numbers start at 1.
Seqs == Nat \ {0}

\* TransportPacketHeader with its payload.  A Nack carries its range in seq
\* and ack.
Packet ==
  [to : End, kind : {"Stream"}, seq : Seqs, ack : {0}, bits : {{}}, data : Data]
    \cup
  [to : End, kind : Kinds \ {"Stream"}, seq : Nat, ack : Nat, bits : SUBSET Nat,
   data : {None}]

Bare(to, kind) ==
  [to |-> to, kind |-> kind, seq |-> 0, ack |-> 0, bits |-> {}, data |-> None]

StreamPacket(to, p) ==
  [Bare(to, "Stream") EXCEPT !.seq = p.seq, !.data = p.data]

\* What is in read_buffer and write_rx, and the request for a StreamClose.
Chunk == [seq : Seqs, data : Data]
CloseRequest == [seq |-> 0, data |-> None]
SentPacket == [seq : Seqs, data : Data, retransmits : Nat, old : BOOLEAN]

StreamState ==
  [app : {"none", "connecting", "open", "gone"},
   running : BOOLEAN, closed : BOOLEAN, established : BOOLEAN,
   mode : {"Tcp", "Udp"},
   next_write_seq : Seqs, next_read_seq : Seqs,
   write_queue : SUBSET SentPacket,
   write_rx : Seq(Chunk \cup {CloseRequest}),
   read_buffer : SUBSET Chunk,
   read_buf : Seq(Data),
   read_waker : BOOLEAN, write_waker : BOOLEAN,
   shut : BOOLEAN, eof : BOOLEAN]

TypeOK ==
  /\ st \in [End -> StreamState]
  /\ net \subseteq Packet
  /\ streams \in Nat
  /\ written \in [End -> Seq(Data)]
  /\ got \in [End -> Seq(Data)]

\* UdpStream::new
NewStream(app) ==
  [app |-> app, running |-> app # "none", closed |-> FALSE,
   established |-> FALSE, mode |-> "Tcp",
   next_write_seq |-> 1, next_read_seq |-> 1, write_queue |-> {},
   write_rx |-> <<>>, read_buffer |-> {}, read_buf |-> <<>>,
   read_waker |-> FALSE, write_waker |-> FALSE,
   shut |-> FALSE, eof |-> FALSE]

Init ==
  /\ st = [e \in End |-> NewStream(IF e = "conn" THEN "connecting" ELSE "none")]
  /\ net = {}
  /\ streams = 0
  /\ written = [e \in End |-> <<>>]
  /\ got = [e \in End |-> <<>>]

Has(S, seq) == \E p \in S : p.seq = seq

\* The keys of write_queue, which is a map by sequence number: as many as its
\* length.
Keys(queue) == {p.seq : p \in queue}

\* Mutant: the end of the task wakes nobody.
ExitedNoWake(r) == [r EXCEPT !.running = FALSE, !.closed = TRUE]

\* The task leaves its loop: the stream is closed and both wakers fire.
Exited(r) ==
  [r EXCEPT !.running = FALSE, !.closed = TRUE,
            !.read_waker = FALSE, !.write_waker = FALSE]

\* The answers to a datagram are sent.  The datagram stays in net, which holds
\* all that was ever sent: the network may deliver it again at any time, in
\* any order, and one that is lost is one that nobody receives.
Answer(out) == net' = net \cup out
-----------------------------------------------------------------------------
(* The application's side: UdpStream::connect, AsyncRead and AsyncWrite *)

\* One round of the connect loop.
ConnectSend ==
  /\ st["conn"].app = "connecting"
  /\ ~st["conn"].closed /\ ~st["conn"].established
  /\ net' = net \cup {Bare("acc", "StreamOpen")}
  /\ UNCHANGED <<st, streams, written, got>>

ConnectDone ==
  /\ st["conn"].app = "connecting"
  /\ ~st["conn"].closed /\ st["conn"].established
  /\ st' = [st EXCEPT !["conn"].app = "open"]
  /\ UNCHANGED <<net, streams, written, got>>

\* "stream closed" or "handshake timeout": the stream is dropped.
ConnectFail ==
  /\ st["conn"].app = "connecting"
  /\ st' = [st EXCEPT !["conn"].app = "gone"]
  /\ UNCHANGED <<net, streams, written, got>>

\* write_tx.try_send: dropped when the channel is full or the task is gone.
TrySend(r, chunk) ==
  IF r.running /\ Len(r.write_rx) < Cap
  THEN Append(r.write_rx, chunk)
  ELSE r.write_rx

\* The data channel of a Udp service: the client writes its hello, changes
\* mode and writes again only after it has read the server's command; the
\* server changes mode when it has read the hello, before it writes.
MayWrite(e) ==
  \/ Service = "Tcp"
  \/ e = "conn" /\ Len(written[e]) < FrameChunks
  \/ st[e].mode = "Udp" /\ Len(got[e]) >= FrameChunks

MayRead(e) == Service = "Tcp" \/ e = "acc" \/ st[e].mode = "Udp"

\* poll_write by a task that is not parked.
PollWrite(e, d) ==
  /\ st[e].app = "open"
  /\ MayWrite(e)
  /\ ~st[e].closed /\ ~st[e].write_waker
  /\ Len(written[e]) < MaxWrites[e]
  /\ \/ /\ Cardinality(Keys(st[e].write_queue)) >= Cap
        /\ st' = [st EXCEPT ![e].write_waker = TRUE]
        /\ UNCHANGED written
     \/ /\ Cardinality(Keys(st[e].write_queue)) < Cap
        /\ LET seq == st[e].next_write_seq IN
           st' = [st EXCEPT
             ![e].next_write_seq = seq + 1,
             ![e].write_queue = @ \cup {[seq |-> seq, data |-> d,
                                         retransmits |-> 0, old |-> FALSE]},
             ![e].write_rx = TrySend(st[e], [seq |-> seq, data |-> d])]
        /\ written' = [written EXCEPT ![e] = Append(@, d)]
  /\ UNCHANGED <<net, streams, got>>

\* poll_read by a task that is not parked: buffered bytes, end of file, or
\* Pending.
PollRead(e) ==
  /\ st[e].app = "open"
  /\ MayRead(e)
  /\ ~st[e].read_waker
  /\ \/ /\ st[e].read_buf # <<>>
        /\ \E k \in 1..Len(st[e].read_buf) :
             /\ got' = [got EXCEPT ![e] = @ \o SubSeq(st[e].read_buf, 1, k)]
             /\ st' = [st EXCEPT ![e].read_buf = SubSeq(@, k + 1, Len(@))]
     \/ /\ st[e].read_buf = <<>>
        /\ st[e].closed /\ ~st[e].eof
        /\ st' = [st EXCEPT ![e].eof = TRUE]
        /\ UNCHANGED got
     \/ /\ st[e].read_buf = <<>>
        /\ ~st[e].closed
        /\ st' = [st EXCEPT ![e].read_waker = TRUE]
        /\ UNCHANGED got
  /\ UNCHANGED <<net, streams, written>>

\* poll_shutdown closes both directions at once.  copy_bidirectional calls it
\* for a Tcp service; nothing calls it for a Udp service.
PollShutdown(e) ==
  /\ Service = "Tcp"
  /\ st[e].app = "open"
  /\ ~st[e].shut
  /\ st' = [st EXCEPT
       ![e].shut = TRUE, ![e].closed = TRUE,
       ![e].write_rx = TrySend(st[e], CloseRequest)]
  /\ UNCHANGED <<net, streams, written, got>>

\* set_udp_nack_mode
SetUdpNackMode(e) ==
  /\ Service = "Udp"
  /\ st[e].app = "open"
  /\ st[e].mode = "Tcp"
  /\ Len(IF e = "conn" THEN written[e] ELSE got[e]) >= FrameChunks
  /\ st' = [st EXCEPT ![e].mode = "Udp"]
  /\ UNCHANGED <<net, streams, written, got>>

\* The owner drops the stream, which sends nothing to the peer.
DropStream(e) ==
  /\ st[e].app = "open"
  /\ st' = [st EXCEPT ![e].app = "gone", ![e].read_waker = FALSE,
                      ![e].write_waker = FALSE]
  /\ UNCHANGED <<net, streams, written, got>>
-----------------------------------------------------------------------------
(* The stream's task: handle_incoming *)

Incoming(e, m, kind) ==
  /\ m \in net
  /\ m.to = e /\ m.kind = kind
  /\ st[e].running /\ ~st[e].closed

OnOpen(e, m) ==
  /\ Incoming(e, m, "StreamOpen")
  /\ st' = [st EXCEPT ![e].established = TRUE]
  /\ Answer({Bare(Peer(e), "StreamOpenAck")})
  /\ UNCHANGED <<streams, written, got>>

OnOpenAck(e, m) ==
  /\ Incoming(e, m, "StreamOpenAck")
  /\ st' = [st EXCEPT ![e].established = TRUE]
  /\ UNCHANGED <<net, streams, written, got>>

OnClose(e, m) ==
  /\ Incoming(e, m, "StreamClose")
  /\ st' = [st EXCEPT ![e].closed = TRUE, ![e].read_waker = FALSE,
                      ![e].write_waker = FALSE]
  /\ UNCHANGED <<net, streams, written, got>>

\* Mutants: the cumulative acknowledgement is one too high, one too low.
BuildAckHigh(to, r) == [Bare(to, "Sack") EXCEPT !.ack = r.next_read_seq]
BuildAckLow(to, r) == [Bare(to, "Sack") EXCEPT !.ack = r.next_read_seq - 2]

\* build_ack, as the Sack that carries it.
BuildAck(to, r) ==
  LET ack == r.next_read_seq - 1 IN
  [Bare(to, "Sack") EXCEPT
     !.ack = ack,
     !.bits = {i \in 0..(Window - 1) : Has(r.read_buffer, ack + 1 + i)}]

Duplicate(r, seq) == seq < r.next_read_seq \/ Has(r.read_buffer, seq)

\* Mutant: the drain takes the last chunk of read_buffer.
DataAtLast(S, seq) == (CHOOSE p \in S : \A q \in S : q.seq <= p.seq).data

DataAt(S, seq) == (CHOOSE p \in S : p.seq = seq).data

\* Mutant: next_read_seq is not advanced.
PushDataNoAdvance(r, buf, n) ==
  [r EXCEPT !.read_buffer = {p \in buf : p.seq >= n},
            !.read_buf = @ \o [i \in 1..(n - r.next_read_seq) |->
                                 DataAt(buf, r.next_read_seq + i - 1)]]

\* push_data of a new chunk; the contiguous run ends before n.
PushData(r, buf, n) ==
  [r EXCEPT !.read_buffer = {p \in buf : p.seq >= n},
            !.next_read_seq = n,
            !.read_buf = @ \o [i \in 1..(n - r.next_read_seq) |->
                                 DataAt(buf, r.next_read_seq + i - 1)],
            !.read_waker = FALSE]

OnStreamNew(e, m) ==
  /\ Incoming(e, m, "Stream")
  /\ ~Duplicate(st[e], m.seq)
  /\ LET r   == st[e]
         buf == r.read_buffer \cup {[seq |-> m.seq, data |-> m.data]}
     IN \E n \in {r.next_read_seq} \cup {p.seq + 1 : p \in buf} :
          /\ \A k \in r.next_read_seq..(n - 1) : Has(buf, k)
          /\ ~Has(buf, n)
          /\ st' = [st EXCEPT ![e] = PushData(r, buf, n)]
          /\ Answer(
               IF r.mode = "Tcp" THEN {BuildAck(Peer(e), PushData(r, buf, n))}
               ELSE IF m.seq > r.next_read_seq
               THEN {[Bare(Peer(e), "Nack") EXCEPT
                        !.seq = r.next_read_seq, !.ack = m.seq - 1]}
               ELSE {})
  /\ UNCHANGED <<streams, written, got>>

\* A duplicate is acknowledged again.
OnStreamDuplicate(e, m) ==
  /\ Incoming(e, m, "Stream")
  /\ Duplicate(st[e], m.seq)
  /\ st' = [st EXCEPT ![e].read_waker = FALSE]
  /\ Answer(IF st[e].mode = "Tcp" THEN {BuildAck(Peer(e), st[e])} ELSE {})
  /\ UNCHANGED <<streams, written, got>>

Acked(p, m) ==
  \/ p.seq <= m.ack
  \/ p.seq > m.ack /\ p.seq - (m.ack + 1) \in m.bits

\* Mutant: an acknowledgement wakes no writer.
ResendNoWake(e, kept, resend) ==
  /\ st' = [st EXCEPT ![e].write_queue = kept]
  /\ Answer({StreamPacket(Peer(e), p) : p \in resend})
  /\ UNCHANGED <<streams, written, got>>

\* The packets in resend, a part of kept, are sent again; the writer is woken
\* when there is room.
Resend(e, kept, resend) ==
  /\ st' = [st EXCEPT
       ![e].write_queue =
          (kept \ resend) \cup {[p EXCEPT !.old = FALSE] : p \in resend},
       ![e].write_waker = @ /\ Cardinality(Keys(kept)) >= Cap]
  /\ Answer({StreamPacket(Peer(e), p) : p \in resend})
  /\ UNCHANGED <<streams, written, got>>

\* handle_ack: what is left in write_queue, and what of it is sent again.
Kept(e, m) == {p \in st[e].write_queue : ~Acked(p, m)}
Gaps(e, m) == {p \in Kept(e, m) : p.seq - (m.ack + 1) < Window}

OnSack(e, m) ==
  /\ Incoming(e, m, "Sack")
  /\ Resend(e, Kept(e, m), Gaps(e, m))

\* handle_nack
OnNack(e, m) ==
  /\ Incoming(e, m, "Nack")
  /\ LET kept == st[e].write_queue
     IN Resend(e, kept, {p \in kept : /\ st[e].mode = "Udp"
                                         /\ m.seq <= p.seq /\ p.seq <= m.ack})

OnPing(e, m) ==
  /\ Incoming(e, m, "KeepalivePing")
  /\ Answer({Bare(Peer(e), "KeepalivePong")})
  /\ UNCHANGED <<st, streams, written, got>>
-----------------------------------------------------------------------------
(* The stream's task: write_rx, handle_tick and the way out *)

WriteNext(e) ==
  /\ st[e].running
  /\ st[e].write_rx # <<>>
  /\ LET c == Head(st[e].write_rx) IN
     net' = net \cup {IF c = CloseRequest THEN Bare(Peer(e), "StreamClose")
                      ELSE StreamPacket(Peer(e), c)}
  /\ st' = [st EXCEPT ![e].write_rx = Tail(@)]
  /\ UNCHANGED <<streams, written, got>>

\* Time passes: everything sent so far is older than the mode's timeout.
Elapse(e) ==
  /\ st[e].running
  /\ \E p \in st[e].write_queue : ~p.old
  /\ st' = [st EXCEPT ![e].write_queue = {[p EXCEPT !.old = TRUE] : p \in @}]
  /\ UNCHANGED <<net, streams, written, got>>

Due(e) == {p \in st[e].write_queue : p.old}
TimedOut(e) == \E p \in Due(e) : p.retransmits >= MaxRetransmits

\* Mutants: no limit on retransmissions, a closed stream keeps ticking.
TickExitNoLimit(e) ==
  /\ st[e].running
  /\ st[e].closed \/ st[e].write_queue = {}
  /\ st' = [st EXCEPT ![e] = Exited(@)]
  /\ UNCHANGED <<net, streams, written, got>>

TickExitNotClosed(e) ==
  /\ st[e].running
  /\ \/ st[e].write_queue = {}
     \/ st[e].mode = "Tcp" /\ TimedOut(e)
  /\ st' = [st EXCEPT ![e] = Exited(@)]
  /\ UNCHANGED <<net, streams, written, got>>

\* handle_tick fails on a closed stream, after 300 s of silence with nothing
\* to send, and when a packet has been retransmitted too often.
TickExit(e) ==
  /\ st[e].running
  /\ \/ st[e].closed
     \/ st[e].write_queue = {}
     \/ st[e].mode = "Tcp" /\ TimedOut(e)
  /\ st' = [st EXCEPT ![e] = Exited(@)]
  /\ UNCHANGED <<net, streams, written, got>>

\* The keepalive of a tick, when nothing was sent for 5 s.
Ping(e, ping) == IF ping THEN {Bare(Peer(e), "KeepalivePing")} ELSE {}

\* A tick that retransmits what is due, in Tcp mode.
TickTcp(e, ping) ==
  /\ st[e].running /\ ~st[e].closed
  /\ st[e].mode = "Tcp" /\ ~TimedOut(e)
  /\ ping \/ Due(e) # {}
  /\ ping => e \in Pingers
  /\ st' = [st EXCEPT
       ![e].write_queue =
          (@ \ Due(e)) \cup {[p EXCEPT !.old = FALSE, !.retransmits = @ + 1] :
                               p \in Due(e)}]
  /\ net' = net \cup Ping(e, ping) \cup {StreamPacket(Peer(e), p) : p \in Due(e)}
  /\ UNCHANGED <<streams, written, got>>

\* A tick that forgets what is due, in Udp mode; no writer is woken.
TickUdp(e, ping) ==
  /\ st[e].running /\ ~st[e].closed
  /\ st[e].mode = "Udp"
  /\ ping \/ Due(e) # {}
  /\ ping => e \in Pingers
  /\ st' = [st EXCEPT ![e].write_queue = @ \ Due(e)]
  /\ net' = net \cup Ping(e, ping)
  /\ UNCHANGED <<streams, written, got>>

\* shutdown_rx fires, or write_rx ends, because the stream was dropped.
TaskStop(e) ==
  /\ st[e].running
  /\ st[e].app = "gone"
  /\ st' = [st EXCEPT ![e] = Exited(@)]
  /\ UNCHANGED <<net, streams, written, got>>

\* recv_from fails on the connecting side.
SocketError ==
  /\ st["conn"].running /\ ~st["conn"].closed
  /\ st' = [st EXCEPT !["conn"].closed = TRUE, !["conn"].read_waker = FALSE,
                      !["conn"].write_waker = FALSE]
  /\ UNCHANGED <<net, streams, written, got>>
-----------------------------------------------------------------------------
(* ListenerPacketRuntime::on_packet for an id without an active stream *)

\* The new stream is handed the packet, which is still in net.
ListenerOpen(m) ==
  /\ m \in net /\ m.to = "acc" /\ m.kind = "StreamOpen"
  /\ ~st["acc"].running
  /\ streams < MaxStreams
  /\ streams' = streams + 1
  /\ st' = [st EXCEPT !["acc"] = NewStream("open")]
  /\ written' = [written EXCEPT !["acc"] = <<>>]
  /\ got' = [got EXCEPT !["acc"] = <<>>]
  /\ UNCHANGED net

ListenerReject(m) ==
  /\ m \in net /\ m.to = "acc" /\ m.kind # "StreamOpen"
  /\ ~st["acc"].running
  /\ Answer({Bare("conn", "StreamClose")})
  /\ UNCHANGED <<st, streams, written, got>>

App(e) ==
  \/ \E d \in Data : PollWrite(e, d)
  \/ PollRead(e)
  \/ PollShutdown(e)
  \/ SetUdpNackMode(e)
  \/ DropStream(e)

HandleIncoming(e, m) ==
  \/ OnOpen(e, m) \/ OnOpenAck(e, m) \/ OnClose(e, m)
  \/ OnStreamNew(e, m) \/ OnStreamDuplicate(e, m)
  \/ OnSack(e, m) \/ OnNack(e, m) \/ OnPing(e, m)

HandleTick(e) ==
  \/ TickExit(e)
  \/ \E ping \in BOOLEAN : TickTcp(e, ping) \/ TickUdp(e, ping)

Next ==
  \/ ConnectSend \/ ConnectDone \/ ConnectFail \/ SocketError
  \/ \E e \in End : \/ App(e) \/ WriteNext(e) \/ Elapse(e)
                    \/ HandleTick(e) \/ TaskStop(e)
                    \/ \E m \in net : HandleIncoming(e, m)
  \/ \E m \in net : ListenerOpen(m) \/ ListenerReject(m)

Spec == Init /\ [][Next]_vars
-----------------------------------------------------------------------------
(* Fairness: the ticker fires every 50 ms and time passes.  A Sack resets  *)
(* the age of a packet, so the tick finds it due again and again rather    *)
(* than for good; a network repeats one Sack only finitely often.  Nothing *)
(* is assumed of the network.                                              *)
FairSpec ==
  /\ Spec
  /\ \A e \in End : WF_vars(Elapse(e)) /\ SF_vars(HandleTick(e))
-----------------------------------------------------------------------------
(* Properties *)

\* poll_read returns the chunks that the peer's poll_write accepted, in order,
\* each once, whatever the network loses, repeats or reorders: sequence
\* numbers, push_data and the drain of read_buffer together.  A StreamOpen
\* delayed past the end of a stream makes the listener create another under
\* its id, which also reads from the beginning what the connecting end wrote;
\* the connecting end, which does not notice, is left out then.
InOrder ==
  \A e \in End : e = "acc" \/ streams <= 1 =>
    /\ Len(got[e]) <= Len(written[Peer(e)])
    /\ \A i \in 1..Len(got[e]) : got[e][i] = written[Peer(e)][i]

Received(e, seq) ==
  seq < st[e].next_read_seq \/ Has(st[e].read_buffer, seq)

\* A sender in Tcp mode forgets a chunk only after the receiver has it:
\* build_ack and handle_ack agree on what the bits of a Sack mean, also for a
\* Sack that was overtaken.  A second stream under the same id knows nothing
\* of what the first has received.
AckedIsReceived ==
  streams <= 1 =>
    \A e \in End : st[e].mode = "Tcp" =>
      \A seq \in 1..Len(written[e]) :
        Has(st[e].write_queue, seq) \/ Received(Peer(e), seq)

\* A parked reader has nothing to read, and some task will still wake it:
\* poll_shutdown closes the stream without waking the reader and leaves that
\* to the end of the task.
ParkedReader ==
  \A e \in End : st[e].read_waker =>
    st[e].read_buf = <<>> /\ st[e].running

\* A parked writer has a full queue, so that a later Sack will wake it.
ParkedWriter ==
  \A e \in End : st[e].write_waker =>
    Cardinality(Keys(st[e].write_queue)) >= Cap /\ st[e].running

\* The transport implements a reliable stream, as long as the listener creates
\* one stream for an id: every step of it accepts a chunk, hands over chunks in
\* order, or changes neither end's data.
Stream == INSTANCE ReliableStream WITH written <- written, got <- got
StreamSpec == Stream!Spec

\* A chunk does not stay in the write queue of a Tcp stream for ever: it is
\* acknowledged, or the retransmissions run out and the stream is closed.
ChunksSettle ==
  \A e \in End : \A seq \in 1..MaxWrites[e] :
    (Len(written[e]) >= seq) ~> (~Has(st[e].write_queue, seq) \/ st[e].closed)

\* A reader parked on a closed stream is woken, although poll_shutdown itself
\* wakes nobody.
CloseWakesReader ==
  \A e \in End : (st[e].closed /\ st[e].read_waker) ~> ~st[e].read_waker
=============================================================================
