--------------------------- MODULE UdpStreamProofs ---------------------------
(***************************************************************************)
(* Proofs about UdpStream, for every capacity, window, number of           *)
(* retransmissions, number of streams and traffic: types, parked readers   *)
(* and writers, and that most steps keep the meaning of sequence numbers.  *)
(***************************************************************************)
EXTENDS UdpStream, TLAPS

-----------------------------------------------------------------------------
(* Types *)

LEMMA PeerEnd == \A e \in End : Peer(e) \in End /\ Peer(Peer(e)) = e /\ Peer(e) # e
BY DEF End, Peer

\* The record of one endpoint is replaced.
LEMMA Replaced ==
  ASSUME st \in [End -> StreamState], NEW e \in End, NEW r \in StreamState,
         st' = [st EXCEPT ![e] = r]
  PROVE  /\ st' \in [End -> StreamState]
         /\ st'[e] = r
         /\ \A g \in End : g # e => st'[g] = st[g]
OBVIOUS

LEMMA BareType ==
  ASSUME NEW to \in End, NEW kind \in Kinds \ {"Stream"}
  PROVE  Bare(to, kind) \in Packet
<1>1. [to |-> to, kind |-> kind, seq |-> 0, ack |-> 0, bits |-> {}, data |-> None]
        \in [to : End, kind : Kinds \ {"Stream"}, seq : Nat, ack : Nat,
             bits : SUBSET Nat, data : {None}]
  OBVIOUS
<1> QED
  BY <1>1, Zenon DEF Bare, Packet

LEMMA StreamPacketType ==
  ASSUME NEW to \in End, NEW p, p.seq \in Seqs, p.data \in Data
  PROVE  /\ StreamPacket(to, p) \in Packet
         /\ StreamPacket(to, p).to = to
         /\ StreamPacket(to, p).kind = "Stream"
         /\ StreamPacket(to, p).seq = p.seq
         /\ StreamPacket(to, p).data = p.data
<1> DEFINE b == Bare(to, "Stream")
<1>1. b \in [to : End, kind : {"Stream"}, seq : {0}, ack : {0}, bits : {{}},
             data : {None}] /\ b.to = to
  BY DEF Bare
<1> HIDE DEF b
<1>2. [b EXCEPT !.seq = p.seq, !.data = p.data]
        \in [to : End, kind : {"Stream"}, seq : Seqs, ack : {0}, bits : {{}},
             data : Data]
  BY <1>1, Zenon
<1>3. StreamPacket(to, p) = [b EXCEPT !.seq = p.seq, !.data = p.data]
  BY Zenon DEF StreamPacket, b
<1>4. StreamPacket(to, p) \in Packet
  BY <1>2, <1>3, Zenon DEF Packet
<1> QED
  BY <1>1, <1>3, <1>4

LEMMA BuildAckType ==
  ASSUME NEW to \in End, NEW r \in StreamState
  PROVE  /\ BuildAck(to, r) \in Packet
         /\ BuildAck(to, r).to = to
         /\ BuildAck(to, r).kind = "Sack"
         /\ BuildAck(to, r).ack = r.next_read_seq - 1
         /\ BuildAck(to, r).bits =
              {i \in 0..(Window - 1) :
                 Has(r.read_buffer, r.next_read_seq - 1 + 1 + i)}
<1> DEFINE ack == r.next_read_seq - 1
           bits == {i \in 0..(Window - 1) : Has(r.read_buffer, ack + 1 + i)}
<1>1. ack \in Nat /\ bits \in SUBSET Nat
  BY DEF StreamState, Seqs
<1> DEFINE b == Bare(to, "Sack")
<1>2. b \in [to : End, kind : Kinds \ {"Stream"}, seq : Nat, ack : Nat,
             bits : SUBSET Nat, data : {None}] /\ b.to = to /\ b.kind = "Sack"
  BY DEF Bare, Kinds
<1>3. BuildAck(to, r) = [b EXCEPT !.ack = ack, !.bits = bits]
  BY Zenon DEF BuildAck
<1> HIDE DEF ack, bits, b
<1>4. [b EXCEPT !.ack = ack, !.bits = bits]
        \in [to : End, kind : Kinds \ {"Stream"}, seq : Nat, ack : Nat,
             bits : SUBSET Nat, data : {None}]
  BY <1>1, <1>2, Zenon
<1>5. BuildAck(to, r) \in Packet
  BY <1>3, <1>4, Zenon DEF Packet
<1>6. /\ BuildAck(to, r).to = to
      /\ BuildAck(to, r).kind = "Sack"
      /\ BuildAck(to, r).ack = ack
      /\ BuildAck(to, r).bits = bits
  BY <1>2, <1>3
<1> QED
  BY <1>5, <1>6, Zenon DEF ack, bits

LEMMA NewStreamType ==
  ASSUME NEW app \in {"none", "connecting", "open", "gone"}
  PROVE  NewStream(app) \in StreamState
<1>1. 1 \in Seqs /\ <<>> \in Seq(Data) /\ <<>> \in Seq(Chunk \cup {CloseRequest})
  BY DEF Seqs
<1> QED
  BY <1>1, Zenon DEF NewStream, StreamState

\* One end changes its record, and datagrams are sent.
LEMMA StepType ==
  ASSUME TypeOK, NEW e \in End, NEW s \in StreamState,
         st' = [st EXCEPT ![e] = s], net' \subseteq Packet,
         UNCHANGED <<streams, written, got>>
  PROVE  TypeOK'
<1>1. st' \in [End -> StreamState]
  BY Replaced DEF TypeOK
<1> QED
  BY <1>1 DEF TypeOK


\* Steps of an end that set its flags.
LEMMA FlagsType ==
  ASSUME TypeOK, NEW e \in End,
         \/ ConnectDone \/ ConnectFail \/ SocketError
         \/ SetUdpNackMode(e) \/ DropStream(e) \/ TickExit(e) \/ TaskStop(e)
  PROVE  TypeOK'
<1>0. st["conn"] \in StreamState /\ st[e] \in StreamState
  BY DEF TypeOK, End
<1>1. CASE ConnectDone
  <2>1. st' = [st EXCEPT !["conn"] = [st["conn"] EXCEPT !.app = "open"]]
    BY <1>1, Zenon DEF ConnectDone
  <2>2. [st["conn"] EXCEPT !.app = "open"] \in StreamState
    BY <1>0, ZenonT(30) DEF StreamState
  <2>3. UNCHANGED <<net, streams, written, got>>
    BY <1>1 DEF ConnectDone
  <2> QED
    BY <2>1, <2>2, <2>3, StepType, Zenon DEF TypeOK, End
<1>2. CASE ConnectFail
  <2>1. st' = [st EXCEPT !["conn"] = [st["conn"] EXCEPT !.app = "gone"]]
    BY <1>2, Zenon DEF ConnectFail
  <2>2. [st["conn"] EXCEPT !.app = "gone"] \in StreamState
    BY <1>0, ZenonT(30) DEF StreamState
  <2>3. UNCHANGED <<net, streams, written, got>>
    BY <1>2 DEF ConnectFail
  <2> QED
    BY <2>1, <2>2, <2>3, StepType, Zenon DEF TypeOK, End
<1>3. CASE SocketError
  <2>1. st' = [st EXCEPT !["conn"] = [st["conn"] EXCEPT !.closed = TRUE,
                 !.read_waker = FALSE, !.write_waker = FALSE]]
    BY <1>3, Zenon DEF SocketError
  <2>2. [st["conn"] EXCEPT !.closed = TRUE, !.read_waker = FALSE,
                        !.write_waker = FALSE] \in StreamState
    BY <1>0, ZenonT(30) DEF StreamState
  <2>3. UNCHANGED <<net, streams, written, got>>
    BY <1>3 DEF SocketError
  <2> QED
    BY <2>1, <2>2, <2>3, StepType, Zenon DEF TypeOK, End
<1>4. CASE SetUdpNackMode(e)
  <2>1. st' = [st EXCEPT ![e] = [st[e] EXCEPT !.mode = "Udp"]]
    BY <1>4, Zenon DEF SetUdpNackMode
  <2>2. [st[e] EXCEPT !.mode = "Udp"] \in StreamState
    BY <1>0, ZenonT(30) DEF StreamState
  <2>3. UNCHANGED <<net, streams, written, got>>
    BY <1>4 DEF SetUdpNackMode
  <2> QED
    BY <2>1, <2>2, <2>3, StepType, Zenon DEF TypeOK, End
<1>5. CASE DropStream(e)
  <2>1. st' = [st EXCEPT ![e] = [st[e] EXCEPT !.app = "gone",
                 !.read_waker = FALSE, !.write_waker = FALSE]]
    BY <1>5, Zenon DEF DropStream
  <2>2. [st[e] EXCEPT !.app = "gone", !.read_waker = FALSE,
                        !.write_waker = FALSE] \in StreamState
    BY <1>0, ZenonT(30) DEF StreamState
  <2>3. UNCHANGED <<net, streams, written, got>>
    BY <1>5 DEF DropStream
  <2> QED
    BY <2>1, <2>2, <2>3, StepType, Zenon DEF TypeOK, End
<1>6. CASE TickExit(e)
  <2>1. st' = [st EXCEPT ![e] = Exited(st[e])]
    BY <1>6, Zenon DEF TickExit
  <2>2. Exited(st[e]) \in StreamState
    BY <1>0, ZenonT(30) DEF StreamState, Exited
  <2>3. UNCHANGED <<net, streams, written, got>>
    BY <1>6 DEF TickExit
  <2> QED
    BY <2>1, <2>2, <2>3, StepType, Zenon DEF TypeOK, End
<1>7. CASE TaskStop(e)
  <2>1. st' = [st EXCEPT ![e] = Exited(st[e])]
    BY <1>7, Zenon DEF TaskStop
  <2>2. Exited(st[e]) \in StreamState
    BY <1>0, ZenonT(30) DEF StreamState, Exited
  <2>3. UNCHANGED <<net, streams, written, got>>
    BY <1>7 DEF TaskStop
  <2> QED
    BY <2>1, <2>2, <2>3, StepType, Zenon DEF TypeOK, End
<1> QED
  BY <1>1, <1>2, <1>3, <1>4, <1>5, <1>6, <1>7

LEMMA TrySendType ==
  ASSUME NEW r \in StreamState, NEW c \in Chunk \cup {CloseRequest}
  PROVE  TrySend(r, c) \in Seq(Chunk \cup {CloseRequest})
<1>1. r.write_rx \in Seq(Chunk \cup {CloseRequest})
  BY DEF StreamState
<1>2. Append(r.write_rx, c) \in Seq(Chunk \cup {CloseRequest})
  BY <1>1
<1> QED
  BY <1>1, <1>2 DEF TrySend

LEMMA PollWriteType ==
  ASSUME TypeOK, NEW e \in End, NEW d \in Data, PollWrite(e, d)
  PROVE  TypeOK'
<1>0. st[e] \in StreamState /\ st \in [End -> StreamState]
  BY DEF TypeOK
<1> DEFINE Parks == st' = [st EXCEPT ![e].write_waker = TRUE] /\ UNCHANGED written
<1>1. CASE Parks
  <2>1. [st[e] EXCEPT !.write_waker = TRUE] \in StreamState
    BY <1>0, ZenonT(30) DEF StreamState
  <2>2. UNCHANGED <<net, streams, got>>
    BY DEF PollWrite
  <2> QED
    BY <1>1, <2>1, <2>2, StepType, Zenon DEF TypeOK
<1>2. CASE ~Parks
  <2> DEFINE seq == st[e].next_write_seq
             sent == [seq |-> seq, data |-> d, retransmits |-> 0, old |-> FALSE]
             queue == st[e].write_queue \cup {sent}
             rx == TrySend(st[e], [seq |-> seq, data |-> d])
             s == [st[e] EXCEPT !.next_write_seq = seq + 1,
                                !.write_queue = queue, !.write_rx = rx]
  <2>1. /\ st' = [st EXCEPT ![e] = s]
        /\ written' = [written EXCEPT ![e] = Append(written[e], d)]
        /\ UNCHANGED <<net, streams, got>>
    BY <1>2, ZenonT(30) DEF PollWrite
  <2>2. seq \in Seqs /\ seq + 1 \in Seqs
    BY <1>0 DEF StreamState, Seqs
  <2> HIDE DEF seq
  <2>3. sent \in SentPacket /\ [seq |-> seq, data |-> d] \in Chunk
    BY <2>2 DEF SentPacket, Chunk
  <2>4. rx \in Seq(Chunk \cup {CloseRequest})
    BY <1>0, <2>3, TrySendType
  <2>5. queue \in SUBSET SentPacket
    <3>1. st[e].write_queue \in SUBSET SentPacket
      BY <1>0 DEF StreamState
    <3> HIDE DEF sent
    <3> QED BY <2>3, <3>1
  <2> HIDE DEF rx, queue
  <2>6. s \in StreamState
    BY <1>0, <2>2, <2>4, <2>5, ZenonT(30) DEF StreamState
  <2> HIDE DEF s
  <2>7. st' \in [End -> StreamState]
    BY <1>0, <2>1, <2>6, Replaced
  <2>8. written' \in [End -> Seq(Data)]
    BY <2>1 DEF TypeOK
  <2> QED
    BY <2>1, <2>7, <2>8 DEF TypeOK
<1> QED
  BY <1>1, <1>2

\* A sequence of which a part was taken.
LEMMA Split ==
  ASSUME NEW S, NEW q \in Seq(S), NEW k \in 1..Len(q)
  PROVE  LET a == SubSeq(q, 1, k)
             b == SubSeq(q, k + 1, Len(q))
         IN /\ a \in Seq(S) /\ Len(a) = k
            /\ b \in Seq(S) /\ Len(b) = Len(q) - k
            /\ \A i \in 1..k : a[i] = q[i]
            /\ \A i \in 1..(Len(q) - k) : b[i] = q[k + i]
<1>1. Len(q) \in Nat /\ k \in Nat /\ 1 <= k /\ k <= Len(q)
  OBVIOUS
<1>2. /\ SubSeq(q, 1, k) \in Seq(S)
      /\ Len(SubSeq(q, 1, k)) = k
      /\ \A i \in 1..k : SubSeq(q, 1, k)[i] = q[i]
  BY <1>1
<1>3. /\ SubSeq(q, k + 1, Len(q)) \in Seq(S)
      /\ Len(SubSeq(q, k + 1, Len(q))) = Len(q) - k
      /\ \A i \in 1..(Len(q) - k) : SubSeq(q, k + 1, Len(q))[i] = q[k + i]
  BY <1>1
<1> QED
  BY <1>2, <1>3, Zenon

LEMMA PollReadType ==
  ASSUME TypeOK, NEW e \in End, PollRead(e)
  PROVE  TypeOK'
<1>0. st[e] \in StreamState /\ st \in [End -> StreamState]
  BY DEF TypeOK
<1>1. ASSUME NEW k \in 1..Len(st[e].read_buf),
             got' = [got EXCEPT ![e] = @ \o SubSeq(st[e].read_buf, 1, k)],
             st' = [st EXCEPT ![e].read_buf = SubSeq(@, k + 1, Len(@))]
      PROVE  TypeOK'
  <2> DEFINE q == st[e].read_buf
             a == SubSeq(q, 1, k)
             b == SubSeq(q, k + 1, Len(q))
  <2>1. q \in Seq(Data)
    BY <1>0 DEF StreamState
  <2>2. a \in Seq(Data) /\ b \in Seq(Data)
    BY <2>1, Split
  <2>3. st' = [st EXCEPT ![e] = [st[e] EXCEPT !.read_buf = b]]
    BY <1>1, Zenon
  <2>4. got' = [got EXCEPT ![e] = got[e] \o a]
    BY <1>1, Zenon
  <2> HIDE DEF a, b
  <2>5. [st[e] EXCEPT !.read_buf = b] \in StreamState
    BY <1>0, <2>2, Zenon DEF StreamState
  <2>6. st' \in [End -> StreamState]
    BY <1>0, <2>3, <2>5, Replaced
  <2>7. got' \in [End -> Seq(Data)]
    BY <2>2, <2>4, SMTT(30) DEF TypeOK
  <2>8. UNCHANGED <<net, streams, written>>
    BY DEF PollRead
  <2> QED
    BY <2>6, <2>7, <2>8 DEF TypeOK
<1>2. ASSUME NEW s \in {[st[e] EXCEPT !.eof = TRUE],
                        [st[e] EXCEPT !.read_waker = TRUE]},
             st' = [st EXCEPT ![e] = s], UNCHANGED got
      PROVE  TypeOK'
  <2>1. s \in StreamState
    <3>1. [st[e] EXCEPT !.eof = TRUE] \in StreamState
      BY <1>0, Zenon DEF StreamState
    <3>2. [st[e] EXCEPT !.read_waker = TRUE] \in StreamState
      BY <1>0, ZenonT(30) DEF StreamState
    <3> QED BY <3>1, <3>2, Zenon
  <2>2. UNCHANGED <<net, streams, written>>
    BY DEF PollRead
  <2> QED
    BY <1>2, <2>1, <2>2, StepType, Zenon DEF TypeOK
<1> QED
  BY <1>1, <1>2, Zenon DEF PollRead

LEMMA PollShutdownType ==
  ASSUME TypeOK, NEW e \in End, PollShutdown(e)
  PROVE  TypeOK'
<1>0. st[e] \in StreamState
  BY DEF TypeOK
<1> DEFINE rx == TrySend(st[e], CloseRequest)
           s == [st[e] EXCEPT !.shut = TRUE, !.closed = TRUE, !.write_rx = rx]
<1>1. st' = [st EXCEPT ![e] = s] /\ UNCHANGED <<net, streams, written, got>>
  BY Zenon DEF PollShutdown
<1>2. rx \in Seq(Chunk \cup {CloseRequest})
  BY <1>0, TrySendType
<1> HIDE DEF rx
<1>3. s \in StreamState
  BY <1>0, <1>2, ZenonT(30) DEF StreamState
<1> HIDE DEF s
<1> QED
  BY <1>1, <1>3, StepType, Zenon DEF TypeOK

\* Steps that answer a datagram and at most set flags.
LEMMA AnswerType ==
  ASSUME TypeOK, NEW e \in End, NEW m \in net,
         OnOpen(e, m) \/ OnOpenAck(e, m) \/ OnClose(e, m) \/ OnPing(e, m)
           \/ OnStreamDuplicate(e, m)
  PROVE  TypeOK'
<1>0. st[e] \in StreamState /\ net \subseteq Packet
  BY DEF TypeOK
<1>1. Peer(e) \in End
  BY PeerEnd
<1>2. CASE OnOpen(e, m) \/ OnOpenAck(e, m)
  <2>1. [st[e] EXCEPT !.established = TRUE] \in StreamState
    BY <1>0, ZenonT(30) DEF StreamState
  <2>2. st' = [st EXCEPT ![e] = [st[e] EXCEPT !.established = TRUE]]
        /\ UNCHANGED <<streams, written, got>>
    BY <1>2, Zenon DEF OnOpen, OnOpenAck
  <2>3. Bare(Peer(e), "StreamOpenAck") \in Packet
    BY <1>1, BareType DEF Kinds
  <2>4. net' \subseteq Packet
    BY <1>0, <1>2, <2>3 DEF OnOpen, OnOpenAck, Answer
  <2> QED
    BY <2>1, <2>2, <2>4, StepType, Zenon
<1>3. CASE OnClose(e, m)
  <2> DEFINE s == [st[e] EXCEPT !.closed = TRUE, !.read_waker = FALSE,
                                !.write_waker = FALSE]
  <2>1. s \in StreamState
    BY <1>0, ZenonT(30) DEF StreamState
  <2>2. st' = [st EXCEPT ![e] = s] /\ UNCHANGED <<net, streams, written, got>>
    BY <1>3, Zenon DEF OnClose
  <2> HIDE DEF s
  <2> QED
    BY <2>1, <2>2, StepType, Zenon DEF TypeOK
<1>4. CASE OnPing(e, m)
  <2>1. Bare(Peer(e), "KeepalivePong") \in Packet
    BY <1>1, BareType DEF Kinds
  <2> QED
    BY <1>4, <2>1 DEF OnPing, Answer, TypeOK
<1>5. CASE OnStreamDuplicate(e, m)
  <2> DEFINE s == [st[e] EXCEPT !.read_waker = FALSE]
  <2>1. s \in StreamState
    BY <1>0, ZenonT(30) DEF StreamState
  <2>2. st' = [st EXCEPT ![e] = s] /\ UNCHANGED <<streams, written, got>>
    BY <1>5, Zenon DEF OnStreamDuplicate
  <2>3. BuildAck(Peer(e), st[e]) \in Packet
    BY <1>0, <1>1, BuildAckType
  <2>4. net' \subseteq Packet
    BY <1>0, <1>5, <2>3 DEF OnStreamDuplicate, Answer
  <2> HIDE DEF s
  <2> QED
    BY <2>1, <2>2, <2>4, StepType, ZenonT(30)
<1> QED
  BY <1>2, <1>3, <1>4, <1>5

\* What the drain of read_buffer hands to the reader.
LEMMA Drained ==
  ASSUME NEW buf \in SUBSET Chunk, NEW a \in Seqs, NEW n \in Seqs,
         \A k \in a..(n - 1) : Has(buf, k)
  PROVE  LET q == [i \in 1..(n - a) |-> DataAt(buf, a + i - 1)]
         IN /\ q \in Seq(Data)
            /\ n >= a => Len(q) = n - a
            /\ \A i \in 1..(n - a) :
                 \E p \in buf : p.seq = a + i - 1 /\ q[i] = p.data
<1> DEFINE q == [i \in 1..(n - a) |-> DataAt(buf, a + i - 1)]
<1>1. ASSUME NEW k \in a..(n - 1)
      PROVE  \E p \in buf : p.seq = k /\ DataAt(buf, k) = p.data
  BY <1>1, Zenon DEF Has, DataAt
<1>2. ASSUME NEW i \in 1..(n - a)
      PROVE  \E p \in buf : p.seq = a + i - 1 /\ q[i] = p.data
  <2>1. a + i - 1 \in a..(n - 1)
    BY DEF Seqs
  <2>2. q[i] = DataAt(buf, a + i - 1)
    OBVIOUS
  <2> QED
    BY <1>1, <2>1, <2>2, Zenon
<1>3. \A i \in 1..(n - a) : q[i] \in Data
  BY <1>2 DEF Chunk
<1>4. q \in Seq(Data) /\ (n >= a => Len(q) = n - a)
  <2>1. q \in [1..(n - a) -> Data]
    <3>1. q = [i \in 1..(n - a) |-> q[i]]
      OBVIOUS
    <3> HIDE DEF q
    <3> QED BY <1>3, <3>1
  <2> HIDE DEF q
  <2>2. CASE n >= a
    BY <2>1, <2>2 DEF Seqs
  <2>3. CASE n < a
    <3>1. 1..(n - a) = 1..0
      BY <2>3 DEF Seqs
    <3> QED
      BY <2>1, <2>3, <3>1 DEF Seqs
  <2> QED
    BY <2>2, <2>3 DEF Seqs
<1> QED
  BY <1>2, <1>4, Zenon

LEMMA PushDataType ==
  ASSUME NEW r \in StreamState, NEW buf \in SUBSET Chunk, NEW n \in Seqs,
         \A k \in r.next_read_seq..(n - 1) : Has(buf, k)
  PROVE  PushData(r, buf, n) \in StreamState
<1> DEFINE q == [i \in 1..(n - r.next_read_seq) |->
                   DataAt(buf, r.next_read_seq + i - 1)]
           kept == {p \in buf : p.seq >= n}
<1>1. r.next_read_seq \in Seqs /\ r.read_buf \in Seq(Data)
  BY DEF StreamState
<1>2. q \in Seq(Data)
  BY <1>1, Drained, Zenon
<1>3. PushData(r, buf, n) =
        [r EXCEPT !.read_buffer = kept, !.next_read_seq = n,
                  !.read_buf = r.read_buf \o q, !.read_waker = FALSE]
  BY Zenon DEF PushData
<1> HIDE DEF q
<1>4. r.read_buf \o q \in Seq(Data) /\ kept \in SUBSET Chunk
  BY <1>1, <1>2
<1> HIDE DEF kept
<1>5. [r EXCEPT !.read_buffer = kept, !.next_read_seq = n,
                !.read_buf = r.read_buf \o q, !.read_waker = FALSE]
        \in StreamState
  BY <1>4, ZenonT(30) DEF StreamState
<1> QED
  BY <1>3, <1>5, Zenon

LEMMA OnStreamNewType ==
  ASSUME TypeOK, NEW e \in End, NEW m \in net, OnStreamNew(e, m)
  PROVE  TypeOK'
<1> DEFINE r == st[e]
           c == [seq |-> m.seq, data |-> m.data]
           buf == r.read_buffer \cup {c}
           nack == [Bare(Peer(e), "Nack") EXCEPT
                      !.seq = r.next_read_seq, !.ack = m.seq - 1]
<1>0. r \in StreamState /\ net \subseteq Packet /\ Peer(e) \in End
  BY PeerEnd DEF TypeOK
<1>1. m.seq \in Seqs /\ m.data \in Data /\ r.next_read_seq \in Seqs
  BY <1>0 DEF OnStreamNew, Incoming, Packet, StreamState
<1>2. buf \in SUBSET Chunk
  <2>1. c \in Chunk
    BY <1>1 DEF Chunk
  <2>2. r.read_buffer \in SUBSET Chunk
    BY <1>0 DEF StreamState
  <2> HIDE DEF c
  <2> QED BY <2>1, <2>2
<1>3. PICK n \in {r.next_read_seq} \cup {p.seq + 1 : p \in buf} :
        /\ \A k \in r.next_read_seq..(n - 1) : Has(buf, k)
        /\ st' = [st EXCEPT ![e] = PushData(r, buf, n)]
        /\ Answer(IF r.mode = "Tcp" THEN {BuildAck(Peer(e), PushData(r, buf, n))}
                  ELSE IF m.seq > r.next_read_seq THEN {nack} ELSE {})
  BY Zenon DEF OnStreamNew
<1> HIDE DEF buf
<1>4. n \in Seqs
  BY <1>1, <1>2, <1>3, SMTT(30) DEF Chunk, Seqs
<1>5. PushData(r, buf, n) \in StreamState
  BY <1>0, <1>2, <1>3, <1>4, PushDataType
<1>6. m.seq > r.next_read_seq => nack \in Packet
  <2> SUFFICES ASSUME m.seq > r.next_read_seq PROVE nack \in Packet
    OBVIOUS
  <2> DEFINE b == Bare(Peer(e), "Nack")
             P == [to : End, kind : Kinds \ {"Stream"}, seq : Nat, ack : Nat,
                   bits : SUBSET Nat, data : {None}]
  <2>1. b \in P
    BY <1>0 DEF Bare, Kinds
  <2>2. m.seq - 1 \in Nat /\ r.next_read_seq \in Nat
    BY <1>1 DEF Seqs
  <2> HIDE DEF b
  <2>3. [b EXCEPT !.seq = r.next_read_seq, !.ack = m.seq - 1] \in P
    BY <2>1, <2>2, ZenonT(30)
  <2> QED
    BY <2>3, Zenon DEF Packet, b
<1>7. BuildAck(Peer(e), PushData(r, buf, n)) \in Packet
  BY <1>0, <1>5, BuildAckType, SMTT(30)
<1> HIDE DEF nack
<1>8. net' \subseteq Packet
  BY <1>0, <1>3, <1>6, <1>7 DEF Answer
<1> QED
  BY <1>3, <1>5, <1>8, StepType, Zenon DEF OnStreamNew

\* What a sender does to a packet of its queue.
LEMMA SentType ==
  ASSUME NEW p \in SentPacket
  PROVE  /\ p.seq \in Seqs /\ p.data \in Data
         /\ [p EXCEPT !.old = FALSE] \in SentPacket
         /\ [p EXCEPT !.old = TRUE] \in SentPacket
         /\ [p EXCEPT !.old = FALSE, !.retransmits = @ + 1] \in SentPacket
<1>1. p.retransmits \in Nat /\ p.retransmits + 1 \in Nat
  BY DEF SentPacket
<1>2. [p EXCEPT !.old = FALSE] \in SentPacket
  BY Zenon DEF SentPacket
<1>3. [p EXCEPT !.old = TRUE] \in SentPacket
  BY Zenon DEF SentPacket
<1>4. [p EXCEPT !.old = FALSE, !.retransmits = @ + 1] \in SentPacket
  BY <1>1, ZenonT(30) DEF SentPacket
<1> QED
  BY <1>2, <1>3, <1>4 DEF SentPacket

LEMMA Packets ==
  ASSUME NEW Q \in SUBSET SentPacket, NEW to \in End
  PROVE  {StreamPacket(to, p) : p \in Q} \subseteq Packet
BY SentType, StreamPacketType, ZenonT(30)

LEMMA ResendType ==
  ASSUME TypeOK, NEW e \in End, NEW kept \in SUBSET st[e].write_queue,
         NEW again \in SUBSET kept, Resend(e, kept, again)
  PROVE  TypeOK'
<1> DEFINE queue == (kept \ again) \cup {[p EXCEPT !.old = FALSE] : p \in again}
           waker == st[e].write_waker /\ Cardinality(Keys(kept)) >= Cap
           s == [st[e] EXCEPT !.write_queue = queue, !.write_waker = waker]
<1>0. st[e] \in StreamState /\ net \subseteq Packet /\ Peer(e) \in End
  BY PeerEnd DEF TypeOK
<1>1. st' = [st EXCEPT ![e] = s] /\ UNCHANGED <<streams, written, got>>
  BY ZenonT(30) DEF Resend
<1>2. kept \in SUBSET SentPacket /\ again \in SUBSET SentPacket
  BY <1>0, SMTT(30) DEF StreamState
<1>3. queue \in SUBSET SentPacket
  BY <1>2, SentType, Zenon
<1>4. waker \in BOOLEAN
  BY Zenon
<1> HIDE DEF queue, waker
<1>5. s \in StreamState
  BY <1>0, <1>3, <1>4, ZenonT(30) DEF StreamState
<1>6. net' \subseteq Packet
  BY <1>0, <1>2, Packets DEF Resend, Answer
<1> HIDE DEF s
<1> QED
  BY <1>1, <1>5, <1>6, StepType, Zenon

LEMMA SenderType ==
  ASSUME TypeOK, NEW e \in End,
         WriteNext(e) \/ Elapse(e)
           \/ \E ping \in BOOLEAN : TickTcp(e, ping) \/ TickUdp(e, ping)
  PROVE  TypeOK'
<1>0. st[e] \in StreamState /\ net \subseteq Packet /\ Peer(e) \in End
  BY PeerEnd DEF TypeOK
<1>1. st[e].write_queue \in SUBSET SentPacket /\ Due(e) \in SUBSET SentPacket
  BY <1>0 DEF StreamState, Due
<1>2. CASE WriteNext(e)
  <2> DEFINE rx == st[e].write_rx
             c == Head(rx)
             s == [st[e] EXCEPT !.write_rx = Tail(rx)]
             out == IF c = CloseRequest THEN Bare(Peer(e), "StreamClose")
                    ELSE StreamPacket(Peer(e), c)
  <2>1. /\ st' = [st EXCEPT ![e] = s] /\ net' = net \cup {out}
        /\ rx # <<>> /\ UNCHANGED <<streams, written, got>>
    BY <1>2, Zenon DEF WriteNext
  <2>2. rx \in Seq(Chunk \cup {CloseRequest})
    BY <1>0 DEF StreamState
  <2>3. c \in Chunk \cup {CloseRequest} /\ Tail(rx) \in Seq(Chunk \cup {CloseRequest})
    BY <2>1, <2>2
  <2>4. s \in StreamState
    BY <1>0, <2>3, Zenon DEF StreamState
  <2> HIDE DEF c, s
  <2>5. c # CloseRequest => c.seq \in Seqs /\ c.data \in Data
    BY <2>3 DEF Chunk
  <2>6. Bare(Peer(e), "StreamClose") \in Packet
    BY <1>0, BareType DEF Kinds
  <2>7. c # CloseRequest => StreamPacket(Peer(e), c) \in Packet
    BY <1>0, <2>5, StreamPacketType, SMTT(30)
  <2>8. net' \subseteq Packet
    BY <1>0, <2>1, <2>6, <2>7
  <2> QED
    BY <2>1, <2>4, <2>8, StepType, Zenon
<1>3. CASE Elapse(e)
  <2> DEFINE queue == {[p EXCEPT !.old = TRUE] : p \in st[e].write_queue}
             s == [st[e] EXCEPT !.write_queue = queue]
  <2>1. st' = [st EXCEPT ![e] = s] /\ UNCHANGED <<net, streams, written, got>>
    BY <1>3, ZenonT(30) DEF Elapse
  <2>2. queue \in SUBSET SentPacket
    BY <1>1, SentType, Zenon
  <2> HIDE DEF queue
  <2>3. s \in StreamState
    BY <1>0, <2>2, Zenon DEF StreamState
  <2> HIDE DEF s
  <2> QED
    BY <2>1, <2>3, StepType, Zenon DEF TypeOK
<1>4. ASSUME NEW ping \in BOOLEAN
      PROVE  Ping(e, ping) \subseteq Packet
  BY <1>0, BareType DEF Ping, Kinds
<1>5. ASSUME NEW ping \in BOOLEAN, TickTcp(e, ping)
      PROVE  TypeOK'
  <2> DEFINE queue == (st[e].write_queue \ Due(e)) \cup
                        {[p EXCEPT !.old = FALSE, !.retransmits = @ + 1] :
                           p \in Due(e)}
             s == [st[e] EXCEPT !.write_queue = queue]
  <2>1. st' = [st EXCEPT ![e] = s] /\ UNCHANGED <<streams, written, got>>
    BY <1>5, ZenonT(30) DEF TickTcp
  <2>2. queue \in SUBSET SentPacket
    BY <1>1, SentType, Zenon
  <2> HIDE DEF queue
  <2>3. s \in StreamState
    BY <1>0, <2>2, ZenonT(30) DEF StreamState
  <2>4. net' \subseteq Packet
    BY <1>0, <1>1, <1>4, <1>5, Packets, ZenonT(30) DEF TickTcp
  <2> HIDE DEF s
  <2> QED
    BY <2>1, <2>3, <2>4, StepType, Zenon
<1>6. ASSUME NEW ping \in BOOLEAN, TickUdp(e, ping)
      PROVE  TypeOK'
  <2> DEFINE s == [st[e] EXCEPT !.write_queue = st[e].write_queue \ Due(e)]
  <2>1. st' = [st EXCEPT ![e] = s] /\ UNCHANGED <<streams, written, got>>
    BY <1>6, Zenon DEF TickUdp
  <2>2. st[e].write_queue \ Due(e) \in SUBSET SentPacket
    BY <1>1
  <2>3. s \in StreamState
    BY <1>0, <2>2, Zenon DEF StreamState
  <2>4. net' \subseteq Packet
    BY <1>0, <1>4, <1>6 DEF TickUdp
  <2> HIDE DEF s
  <2> QED
    BY <2>1, <2>3, <2>4, StepType, Zenon
<1> QED
  BY <1>2, <1>3, <1>5, <1>6

LEMMA OpenType ==
  ASSUME TypeOK,
         ConnectSend \/ \E m \in net : ListenerOpen(m) \/ ListenerReject(m)
  PROVE  TypeOK'
<1>1. CASE ConnectSend
  <2>1. Bare("acc", "StreamOpen") \in Packet
    BY BareType DEF Kinds, End
  <2> QED
    BY <1>1, <2>1 DEF ConnectSend, TypeOK
<1>2. ASSUME NEW m \in net, ListenerReject(m)
      PROVE  TypeOK'
  <2>1. Bare("conn", "StreamClose") \in Packet
    BY BareType DEF Kinds, End
  <2> QED
    BY <1>2, <2>1 DEF ListenerReject, Answer, TypeOK
<1>3. ASSUME NEW m \in net, ListenerOpen(m)
      PROVE  TypeOK'
  <2>1. NewStream("open") \in StreamState
    BY NewStreamType
  <2>2. st' = [st EXCEPT !["acc"] = NewStream("open")]
    BY <1>3, Zenon DEF ListenerOpen
  <2>3. st' \in [End -> StreamState]
    BY <2>1, <2>2, Replaced DEF TypeOK, End
  <2>4. written' \in [End -> Seq(Data)] /\ got' \in [End -> Seq(Data)]
    <3>1. <<>> \in Seq(Data)
      OBVIOUS
    <3>2. /\ written' = [written EXCEPT !["acc"] = <<>>]
          /\ got' = [got EXCEPT !["acc"] = <<>>]
      BY <1>3, Zenon DEF ListenerOpen
    <3> QED
      BY <3>1, <3>2, Zenon DEF TypeOK
  <2>5. streams' \in Nat /\ net' \subseteq Packet
    BY <1>3 DEF ListenerOpen, TypeOK
  <2> QED
    BY <2>3, <2>4, <2>5 DEF TypeOK
<1> QED
  BY <1>1, <1>2, <1>3

LEMMA InitType ==
  ASSUME Init
  PROVE  TypeOK
<1>1. NewStream("connecting") \in StreamState /\ NewStream("none") \in StreamState
  BY NewStreamType
<1>2. st \in [End -> StreamState]
  BY <1>1 DEF Init
<1> QED
  BY <1>2 DEF Init, TypeOK

LEMMA NextType ==
  ASSUME TypeOK, [Next]_vars
  PROVE  TypeOK'
<1>1. ASSUME NEW e \in End, App(e)
      PROVE  TypeOK'
  BY <1>1, PollWriteType, PollReadType, PollShutdownType, FlagsType DEF App
<1>2. ASSUME NEW e \in End, NEW m \in net, HandleIncoming(e, m)
      PROVE  TypeOK'
  <2>1. CASE OnSack(e, m)
    <3>1. Kept(e, m) \subseteq st[e].write_queue /\ Gaps(e, m) \subseteq Kept(e, m)
      BY DEF Kept, Gaps
    <3> QED
      BY <2>1, <3>1, ResendType, SMTT(30) DEF OnSack
  <2>2. CASE OnNack(e, m)
    BY <2>2, ResendType DEF OnNack
  <2> QED
    BY <1>2, <2>1, <2>2, AnswerType, OnStreamNewType DEF HandleIncoming
<1>3. ASSUME NEW e \in End, HandleTick(e) \/ WriteNext(e) \/ Elapse(e) \/ TaskStop(e)
      PROVE  TypeOK'
  BY <1>3, SenderType, FlagsType DEF HandleTick
<1>4. CASE ConnectDone \/ ConnectFail \/ SocketError
  BY <1>4, FlagsType DEF End
<1>5. CASE ConnectSend \/ \E m \in net : ListenerOpen(m) \/ ListenerReject(m)
  BY <1>5, OpenType
<1>6. CASE UNCHANGED vars
  BY <1>6 DEF TypeOK, vars
<1> QED
  BY <1>1, <1>2, <1>3, <1>4, <1>5, <1>6, SMTT(30) DEF Next

\* Every reachable state of the transport has its type: no sequence number
\* falls below 1, so that the subtraction in build_ack never saturates, and
\* only packets of kind Stream carry data.
THEOREM TypeCorrect == Spec => []TypeOK
BY InitType, NextType, PTL DEF Spec

\* What handle_incoming does with a new chunk, m, that was buffered with the
\* others in buf.
LEMMA NewChunk ==
  ASSUME TypeOK, NEW e \in End, NEW m \in net, OnStreamNew(e, m)
  PROVE  \E buf \in SUBSET Chunk, n \in Seqs :
           /\ buf = st[e].read_buffer \cup {[seq |-> m.seq, data |-> m.data]}
           /\ n \in {st[e].next_read_seq} \cup {p.seq + 1 : p \in buf}
           /\ \A k \in st[e].next_read_seq..(n - 1) : Has(buf, k)
           /\ st' = [st EXCEPT ![e] = PushData(st[e], buf, n)]
           /\ \A x \in net' :
                \/ x \in net
                \/ x.kind = "Nack"
                \/ x = BuildAck(Peer(e), PushData(st[e], buf, n))
<1> DEFINE r == st[e]
           c == [seq |-> m.seq, data |-> m.data]
           buf == r.read_buffer \cup {c}
           nack == [Bare(Peer(e), "Nack") EXCEPT
                      !.seq = r.next_read_seq, !.ack = m.seq - 1]
<1>0. r \in StreamState /\ net \subseteq Packet
  BY SMTT(30) DEF TypeOK
<1>1. m.seq \in Seqs /\ m.data \in Data /\ r.next_read_seq \in Seqs
  BY <1>0, SMTT(30) DEF OnStreamNew, Incoming, Packet, StreamState
<1>2. buf \in SUBSET Chunk
  <2>1. c \in Chunk
    BY <1>1 DEF Chunk
  <2>2. r.read_buffer \in SUBSET Chunk
    BY <1>0 DEF StreamState
  <2> HIDE DEF c
  <2> QED BY <2>1, <2>2
<1>3. PICK n \in {r.next_read_seq} \cup {p.seq + 1 : p \in buf} :
        /\ \A k \in r.next_read_seq..(n - 1) : Has(buf, k)
        /\ st' = [st EXCEPT ![e] = PushData(r, buf, n)]
        /\ Answer(IF r.mode = "Tcp" THEN {BuildAck(Peer(e), PushData(r, buf, n))}
                  ELSE IF m.seq > r.next_read_seq THEN {nack} ELSE {})
  BY Zenon DEF OnStreamNew
<1>4. nack.kind = "Nack"
  BY ZenonT(30) DEF Bare
<1> HIDE DEF buf, nack
<1>5. n \in Seqs
  BY <1>1, <1>2, <1>3, SMTT(30) DEF Chunk, Seqs
<1>6. \A x \in net' : \/ x \in net
                      \/ x.kind = "Nack"
                      \/ x = BuildAck(Peer(e), PushData(r, buf, n))
  BY <1>3, <1>4, ZenonT(30) DEF Answer
<1>7. buf = r.read_buffer \cup {[seq |-> m.seq, data |-> m.data]}
  BY SMTT(30) DEF buf
<1> HIDE DEF r
<1> QED
  BY <1>2, <1>3, <1>5, <1>6, <1>7, ZenonT(30) DEF r

-----------------------------------------------------------------------------
(* Parked readers and writers *)

\* A parked reader has nothing to read, a parked writer of a stream in Tcp mode
\* has a full queue, and the task of their stream runs; so does that of every
\* stream that is not closed.
Parked(e) ==
  /\ st[e].read_waker => st[e].read_buf = <<>> /\ st[e].running
  /\ st[e].write_waker =>
       /\ st[e].running
       /\ st[e].mode = "Tcp" => Cardinality(Keys(st[e].write_queue)) >= Cap
  /\ st[e].app # "none" /\ ~st[e].closed => st[e].running
  /\ st[e].mode = "Udp" => Service = "Udp"

LEMMA ParkedStep ==
  ASSUME \A g \in End : Parked(g), NEW e \in End, Parked(e)',
         \A g \in End : g # e => st'[g] = st[g]
  PROVE  \A g \in End : Parked(g)'
BY SMTT(30) DEF Parked

LEMMA SameKeys ==
  ASSUME NEW Q, NEW R, \A r \in R : \E q \in Q : r.seq = q.seq,
         \A q \in Q : \E r \in R : r.seq = q.seq
  PROVE  Keys(R) = Keys(Q)
BY SMTT(30) DEF Keys

\* Packets that are sent again, or found old, keep their numbers.
LEMMA KeysKept ==
  ASSUME NEW Q \in SUBSET SentPacket, NEW A \in SUBSET Q
  PROVE  /\ Keys({[p EXCEPT !.old = TRUE] : p \in Q}) = Keys(Q)
         /\ Keys((Q \ A) \cup {[p EXCEPT !.old = FALSE] : p \in A}) = Keys(Q)
         /\ Keys((Q \ A) \cup {[p EXCEPT !.old = FALSE, !.retransmits = @ + 1] :
                                 p \in A}) = Keys(Q)
<1>1. ASSUME NEW p \in SentPacket
      PROVE  /\ [p EXCEPT !.old = TRUE].seq = p.seq
             /\ [p EXCEPT !.old = FALSE].seq = p.seq
             /\ [p EXCEPT !.old = FALSE, !.retransmits = @ + 1].seq = p.seq
  BY DEF SentPacket
<1>2. Keys({[p EXCEPT !.old = TRUE] : p \in Q}) = Keys(Q)
  <2> DEFINE R == {[p EXCEPT !.old = TRUE] : p \in Q}
  <2>1. ASSUME NEW r \in R PROVE \E q \in Q : r.seq = q.seq
    <3>1. \E q \in Q : r = [q EXCEPT !.old = TRUE]
      BY SMTT(30)
    <3> QED
      BY <1>1, <3>1, SMTT(30)
  <2>2. ASSUME NEW q \in Q PROVE \E r \in R : r.seq = q.seq
    <3>1. [q EXCEPT !.old = TRUE] \in R
      BY Zenon
    <3> QED
      BY <1>1, <3>1, Zenon
  <2> HIDE DEF R
  <2>3. Keys(R) = Keys(Q)
    BY <2>1, <2>2, SameKeys, Zenon
  <2> QED
    BY <2>3, Zenon DEF R
<1>3. Keys((Q \ A) \cup {[p EXCEPT !.old = FALSE] : p \in A}) = Keys(Q)
  <2> DEFINE R == (Q \ A) \cup {[p EXCEPT !.old = FALSE] : p \in A}
  <2>1. ASSUME NEW r \in R PROVE \E q \in Q : r.seq = q.seq
    <3>1. CASE r \in Q
      BY <3>1, Zenon
    <3>2. CASE r \in {[p EXCEPT !.old = FALSE] : p \in A}
      <4>1. PICK q \in A : r = [q EXCEPT !.old = FALSE]
        BY <3>2, Zenon
      <4>2. q \in Q /\ q \in SentPacket
        BY Zenon
      <4>3. r.seq = q.seq
        BY <1>1, <4>1, <4>2, Zenon
      <4> QED
        BY <4>2, <4>3, Zenon
    <3> QED
      BY <3>1, <3>2, Zenon
  <2>2. ASSUME NEW q \in Q PROVE \E r \in R : r.seq = q.seq
    <3>1. q \in A => [q EXCEPT !.old = FALSE] \in R
      BY Zenon
    <3> QED
      BY <1>1, <3>1, Zenon
  <2> HIDE DEF R
  <2>3. Keys(R) = Keys(Q)
    BY <2>1, <2>2, SameKeys, Zenon
  <2> QED
    BY <2>3, Zenon DEF R
<1>4. Keys((Q \ A) \cup {[p EXCEPT !.old = FALSE, !.retransmits = @ + 1] :
                              p \in A}) = Keys(Q)
  <2> DEFINE R == (Q \ A) \cup {[p EXCEPT !.old = FALSE, !.retransmits = @ + 1] :
                                     p \in A}
  <2>1. ASSUME NEW r \in R PROVE \E q \in Q : r.seq = q.seq
    <3>1. CASE r \in Q
      BY <3>1, Zenon
    <3>2. CASE r \in {[p EXCEPT !.old = FALSE, !.retransmits = @ + 1] : p \in A}
      <4>1. PICK q \in A : r = [q EXCEPT !.old = FALSE, !.retransmits = @ + 1]
        BY <3>2, Zenon
      <4>2. q \in Q /\ q \in SentPacket
        BY Zenon
      <4>3. r.seq = q.seq
        BY <1>1, <4>1, <4>2, Zenon
      <4> QED
        BY <4>2, <4>3, Zenon
    <3> QED
      BY <3>1, <3>2, Zenon
  <2>2. ASSUME NEW q \in Q PROVE \E r \in R : r.seq = q.seq
    <3>1. q \in A => [q EXCEPT !.old = FALSE, !.retransmits = @ + 1] \in R
      BY ZenonT(30)
    <3> QED
      BY <1>1, <3>1, Zenon
  <2> HIDE DEF R
  <2>3. Keys(R) = Keys(Q)
    BY <2>1, <2>2, SameKeys, Zenon
  <2> QED
    BY <2>3, Zenon DEF R
<1> QED
  BY <1>2, <1>3, <1>4, Zenon

\* Steps of one end other than poll_read and push_data.
LEMMA ParkedOther ==
  ASSUME TypeOK, NEW e \in End, Parked(e),
         \/ ConnectDone /\ e = "conn"
         \/ ConnectFail /\ e = "conn"
         \/ SocketError /\ e = "conn"
         \/ \E d \in Data : PollWrite(e, d)
         \/ PollShutdown(e) \/ SetUdpNackMode(e) \/ DropStream(e)
         \/ WriteNext(e) \/ Elapse(e) \/ HandleTick(e) \/ TaskStop(e)
         \/ \E m \in net : \/ OnOpen(e, m) \/ OnOpenAck(e, m) \/ OnClose(e, m)
                            \/ OnStreamDuplicate(e, m) \/ OnPing(e, m)
                            \/ OnSack(e, m) \/ OnNack(e, m)
  PROVE  Parked(e)' /\ \A g \in End : g # e => st'[g] = st[g]
<1>0. st \in [End -> StreamState] /\ st[e] \in StreamState
  BY SMTT(30) DEF TypeOK
<1>21. st[e].write_queue \in SUBSET SentPacket
  BY <1>0 DEF StreamState
<1>1. CASE ConnectDone /\ e = "conn"
  BY <1>0, <1>1, ZenonT(30) DEF ConnectDone, Parked, StreamState
<1>2. CASE ConnectFail /\ e = "conn"
  BY <1>0, <1>2, ZenonT(30) DEF ConnectFail, Parked, StreamState
<1>3. CASE SocketError /\ e = "conn"
  BY <1>0, <1>3 DEF SocketError, Parked, StreamState
<1>4. ASSUME NEW d \in Data, PollWrite(e, d)
      PROVE  Parked(e)' /\ \A g \in End : g # e => st'[g] = st[g]
  <2> DEFINE seq == st[e].next_write_seq
             queue == st[e].write_queue \cup {[seq |-> seq, data |-> d,
                                               retransmits |-> 0, old |-> FALSE]}
             rx == TrySend(st[e], [seq |-> seq, data |-> d])
  <2>1. \/ /\ Cardinality(Keys(st[e].write_queue)) >= Cap
           /\ st' = [st EXCEPT ![e].write_waker = TRUE]
        \/ st' = [st EXCEPT ![e].next_write_seq = seq + 1,
                            ![e].write_queue = queue, ![e].write_rx = rx]
    BY <1>4, Zenon DEF PollWrite
  <2>4. st[e].running /\ ~st[e].write_waker
    BY <1>4, Zenon DEF PollWrite, Parked
  <2> HIDE DEF seq, queue, rx
  <2>2. CASE /\ Cardinality(Keys(st[e].write_queue)) >= Cap
             /\ st' = [st EXCEPT ![e].write_waker = TRUE]
    BY <1>0, <2>2, <2>4, ZenonT(30) DEF Parked, StreamState
  <2>3. CASE st' = [st EXCEPT ![e].next_write_seq = seq + 1,
                              ![e].write_queue = queue, ![e].write_rx = rx]
    BY <1>0, <2>3, <2>4, ZenonT(30) DEF Parked, StreamState
  <2> QED
    BY <2>1, <2>2, <2>3, Zenon
<1>5. CASE PollShutdown(e)
  BY <1>0, <1>5, SMTT(30) DEF PollShutdown, Parked, StreamState
<1>6. CASE SetUdpNackMode(e)
  BY <1>0, <1>6, SMTT(30) DEF SetUdpNackMode, Parked, StreamState
<1>7. CASE DropStream(e)
  BY <1>0, <1>7 DEF DropStream, Parked, StreamState
<1>8. CASE WriteNext(e)
  BY <1>0, <1>8, ZenonT(30) DEF WriteNext, Parked, StreamState
<1>9. CASE Elapse(e)
  <2> DEFINE queue == {[p EXCEPT !.old = TRUE] : p \in st[e].write_queue}
  <2>1. st' = [st EXCEPT ![e].write_queue = queue]
    BY <1>9, Zenon DEF Elapse
  <2>2. Keys(queue) = Keys(st[e].write_queue)
    BY <1>21, KeysKept, Zenon
  <2> HIDE DEF queue
  <2> QED
    BY <1>0, <2>1, <2>2, ZenonT(30) DEF Parked, StreamState
<1>10. CASE TickExit(e)
  BY <1>0, <1>10, ZenonT(30) DEF TickExit, Exited, Parked, StreamState
<1>11. ASSUME NEW ping \in BOOLEAN, TickTcp(e, ping)
       PROVE  Parked(e)' /\ \A g \in End : g # e => st'[g] = st[g]
  <2> DEFINE queue == (st[e].write_queue \ Due(e)) \cup
                        {[p EXCEPT !.old = FALSE, !.retransmits = @ + 1] :
                           p \in Due(e)}
  <2>1. st' = [st EXCEPT ![e].write_queue = queue]
    BY <1>11, Zenon DEF TickTcp
  <2>2. Due(e) \in SUBSET st[e].write_queue
    BY Zenon DEF Due
  <2>3. Keys(queue) = Keys(st[e].write_queue)
    BY <1>21, <2>2, KeysKept, ZenonT(30)
  <2> HIDE DEF queue
  <2> QED
    BY <1>0, <2>1, <2>3, ZenonT(30) DEF Parked, StreamState
<1>12. ASSUME NEW ping \in BOOLEAN, TickUdp(e, ping)
       PROVE  Parked(e)' /\ \A g \in End : g # e => st'[g] = st[g]
  BY <1>0, <1>12 DEF TickUdp, Parked, StreamState
<1>13. CASE TaskStop(e)
  BY <1>0, <1>13, ZenonT(30) DEF TaskStop, Exited, Parked, StreamState
<1>14. ASSUME NEW m \in net, OnOpen(e, m)
       PROVE  Parked(e)' /\ \A g \in End : g # e => st'[g] = st[g]
  BY <1>0, <1>14 DEF OnOpen, Parked, StreamState
<1>15. ASSUME NEW m \in net, OnOpenAck(e, m)
       PROVE  Parked(e)' /\ \A g \in End : g # e => st'[g] = st[g]
  BY <1>0, <1>15, ZenonT(30) DEF OnOpenAck, Parked, StreamState
<1>16. ASSUME NEW m \in net, OnClose(e, m)
       PROVE  Parked(e)' /\ \A g \in End : g # e => st'[g] = st[g]
  BY <1>0, <1>16, ZenonT(30) DEF OnClose, Parked, StreamState
<1>17. ASSUME NEW m \in net, OnStreamDuplicate(e, m)
       PROVE  Parked(e)' /\ \A g \in End : g # e => st'[g] = st[g]
  BY <1>0, <1>17, ZenonT(30) DEF OnStreamDuplicate, Parked, StreamState
<1>18. ASSUME NEW m \in net, OnPing(e, m)
       PROVE  Parked(e)' /\ \A g \in End : g # e => st'[g] = st[g]
  BY <1>0, <1>18, ZenonT(30) DEF OnPing, Parked, StreamState
<1>19. ASSUME NEW kept \in SUBSET st[e].write_queue, NEW again \in SUBSET kept,
              Resend(e, kept, again)
       PROVE  Parked(e)' /\ \A g \in End : g # e => st'[g] = st[g]
  <2> DEFINE queue == (kept \ again) \cup {[p EXCEPT !.old = FALSE] : p \in again}
             waker == st[e].write_waker /\ Cardinality(Keys(kept)) >= Cap
  <2>1. st' = [st EXCEPT ![e].write_queue = queue, ![e].write_waker = waker]
    BY <1>19, Zenon DEF Resend
  <2>2. Keys(queue) = Keys(kept)
    BY <1>21, KeysKept, Zenon
  <2>3. waker => st[e].write_waker /\ Cardinality(Keys(queue)) >= Cap
    BY <2>2, Zenon
  <2> HIDE DEF queue, waker
  <2> QED
    BY <1>0, <2>1, <2>3, ZenonT(30) DEF Parked, StreamState
<1>20. ASSUME NEW m \in net, OnSack(e, m) \/ OnNack(e, m)
       PROVE  Parked(e)' /\ \A g \in End : g # e => st'[g] = st[g]
  <2>1. CASE OnSack(e, m)
    BY <1>19, <2>1, ZenonT(30) DEF OnSack, Kept, Gaps
  <2>2. CASE OnNack(e, m)
    BY <1>19, <2>2, ZenonT(30) DEF OnNack
  <2> QED
    BY <1>20, <2>1, <2>2, ZenonT(30)
<1> QED
  BY <1>1, <1>2, <1>3, <1>4, <1>5, <1>6, <1>7, <1>8, <1>9, <1>10, <1>11, <1>12,
     <1>13, <1>14, <1>15, <1>16, <1>17, <1>18, <1>20, ZenonT(30) DEF HandleTick


\* poll_read parks only with nothing to read, and push_data wakes.
LEMMA ParkedRead ==
  ASSUME TypeOK, NEW e \in End, Parked(e),
         PollRead(e) \/ \E m \in net : OnStreamNew(e, m)
  PROVE  Parked(e)' /\ \A g \in End : g # e => st'[g] = st[g]
<1>0. st \in [End -> StreamState] /\ st[e] \in StreamState
  BY DEF TypeOK
<1>1. CASE PollRead(e)
  <2>0. st[e].app = "open" /\ ~st[e].read_waker
    BY <1>1 DEF PollRead
  <2>1. ASSUME NEW b, st' = [st EXCEPT ![e].read_buf = b]
        PROVE  Parked(e)' /\ \A g \in End : g # e => st'[g] = st[g]
    BY <1>0, <2>0, <2>1 DEF Parked, StreamState
  <2>2. CASE st' = [st EXCEPT ![e].eof = TRUE]
    BY <1>0, <2>0, <2>2, ZenonT(30) DEF Parked, StreamState
  <2>3. CASE /\ st[e].read_buf = <<>> /\ ~st[e].closed
             /\ st' = [st EXCEPT ![e].read_waker = TRUE]
    BY <1>0, <2>0, <2>3, ZenonT(30) DEF Parked, StreamState
  <2> QED
    BY <1>1, <2>1, <2>2, <2>3, ZenonT(30) DEF PollRead
<1>2. ASSUME NEW m \in net, OnStreamNew(e, m)
      PROVE  Parked(e)' /\ \A g \in End : g # e => st'[g] = st[g]
  <2>1. PICK buf \in SUBSET Chunk, n \in Seqs :
          st' = [st EXCEPT ![e] = PushData(st[e], buf, n)]
    BY <1>2, NewChunk, ZenonT(30)
  <2>2. /\ st'[e] = PushData(st[e], buf, n)
        /\ \A g \in End : g # e => st'[g] = st[g]
    BY <1>0, <2>1
  <2> DEFINE kept == {p \in buf : p.seq >= n}
             b == st[e].read_buf \o
                    [i \in 1..(n - st[e].next_read_seq) |->
                       DataAt(buf, st[e].next_read_seq + i - 1)]
  <2>3. st'[e] = [st[e] EXCEPT !.read_buffer = kept, !.next_read_seq = n,
                               !.read_buf = b, !.read_waker = FALSE]
    BY <2>2, ZenonT(30) DEF PushData
  <2> HIDE DEF kept, b
  <2>4. st[e].running
    BY <1>2, Zenon DEF OnStreamNew, Incoming
  <2>5. Parked(e)'
    BY <1>0, <2>3, <2>4, ZenonT(30) DEF Parked, StreamState
  <2> QED
    BY <2>2, <2>5, Zenon
<1> QED
  BY <1>1, <1>2, ZenonT(30)

LEMMA ParkedNext ==
  ASSUME TypeOK, \A e \in End : Parked(e), [Next]_vars
  PROVE  \A e \in End : Parked(e)'
<1>1. ASSUME NEW e \in End,
             App(e) \/ WriteNext(e) \/ Elapse(e) \/ HandleTick(e) \/ TaskStop(e)
               \/ \E m \in net : HandleIncoming(e, m)
      PROVE  \A g \in End : Parked(g)'
  <2>1. Parked(e)' /\ \A g \in End : g # e => st'[g] = st[g]
    BY <1>1, ParkedOther, ParkedRead, ZenonT(30) DEF App, HandleIncoming
  <2> QED
    BY <2>1, ParkedStep, SMTT(30)
<1>2. CASE ConnectDone \/ ConnectFail \/ SocketError
  <2>1. /\ "conn" \in End /\ Parked("conn")'
        /\ \A g \in End : g # "conn" => st'[g] = st[g]
    BY <1>2, ParkedOther, ZenonT(30) DEF End
  <2> QED
    BY <2>1, ParkedStep, SMTT(30)
<1>3. CASE ConnectSend \/ (\E m \in net : ListenerReject(m)) \/ UNCHANGED vars
  <2>1. st' = st
    BY <1>3, Zenon DEF ConnectSend, ListenerReject, vars
  <2> QED
    BY <2>1, Zenon DEF Parked
<1>4. ASSUME NEW m \in net, ListenerOpen(m)
      PROVE  \A g \in End : Parked(g)'
  <2>1. /\ st'["acc"] = NewStream("open")
        /\ \A g \in End : g # "acc" => st'[g] = st[g]
    BY <1>4 DEF ListenerOpen, TypeOK, End
  <2>2. /\ ~st'["acc"].read_waker /\ ~st'["acc"].write_waker
        /\ st'["acc"].mode # "Udp" /\ st'["acc"].running
    <3>4. NewStream("open").mode = "Tcp" /\ "Tcp" # "Udp"
      BY SMTT(30) DEF NewStream
    <3>1. ~NewStream("open").read_waker /\ ~NewStream("open").write_waker
      BY Zenon DEF NewStream
    <3>2. NewStream("open").running = ("open" # "none")
      BY Zenon DEF NewStream
    <3>3. "open" # "none"
      BY SMTT(30)
    <3> QED
      BY <2>1, <3>1, <3>2, <3>3, <3>4, ZenonT(30)
  <2>3. "acc" \in End /\ Parked("acc")'
    BY <2>2 DEF Parked, End
  <2> QED
    BY <2>1, <2>3, ParkedStep, ZenonT(30)
<1> QED
  BY <1>1, <1>2, <1>3, <1>4 DEF Next

LEMMA ParkedHolds == Spec => []\A e \in End : Parked(e)
<1>1. Init => \A e \in End : Parked(e)
  <2> SUFFICES ASSUME Init, NEW e \in End PROVE Parked(e)
    BY SMTT(30)
  <2>1. /\ st[e].read_waker = FALSE /\ st[e].write_waker = FALSE
        /\ st[e].running = (st[e].app # "none")
        /\ st[e].mode = "Tcp"
    BY DEF Init, NewStream
  <2>2. "Tcp" # "Udp"
    BY SMTT(30)
  <2> QED
    BY <2>1, <2>2, ZenonT(30) DEF Parked
<1>2. TypeOK /\ (\A e \in End : Parked(e)) /\ [Next]_vars
        => (\A e \in End : Parked(e))'
  BY ParkedNext, Zenon
<1> QED
  BY <1>1, <1>2, TypeCorrect, PTL DEF Spec

\* A reader that poll_read has parked is always woken by a task that still
\* runs, and never sleeps on data.
THEOREM ParkedReaderHolds == Spec => []ParkedReader
<1>1. (\A e \in End : Parked(e)) => ParkedReader
  BY Zenon DEF Parked, ParkedReader
<1> QED
  BY <1>1, ParkedHolds, PTL

\* A writer that poll_write has parked waits on a full queue, in front of a
\* task that still runs: whatever makes room in the queue, an ack, a Sack or a
\* Nack, wakes it in the same step. This is a theorem of Tcp services alone:
\* in Udp mode the queue is emptied without waking the writer.
THEOREM ParkedWriterHolds ==
  ASSUME Service = "Tcp"
  PROVE  Spec => []ParkedWriter
<1>1. TypeOK /\ (\A e \in End : Parked(e)) => ParkedWriter
  <2> SUFFICES ASSUME TypeOK, \A e \in End : Parked(e), NEW e \in End,
                      st[e].write_waker
               PROVE  Cardinality(Keys(st[e].write_queue)) >= Cap /\ st[e].running
    BY Zenon DEF ParkedWriter
  <2>1. st[e] \in StreamState
    BY DEF TypeOK
  <2>2. st[e].mode = "Tcp"
    <3>1. st[e].mode \in {"Tcp", "Udp"}
      BY <2>1 DEF StreamState
    <3>2. "Tcp" # "Udp"
      BY SMTT(30)
    <3> QED
      BY <3>1, <3>2, ZenonT(30) DEF Parked
  <2> QED
    BY <2>2, Zenon DEF Parked
<1> QED
  BY <1>1, ParkedHolds, TypeCorrect, PTL
-----------------------------------------------------------------------------
(* What the sequence numbers mean *)

\* A chunk with this number and contents is one that end e wrote.
Says(e, seq, d) == seq \in 1..Len(written[e]) /\ d = written[e][seq]

Sendable(e, c) == c = CloseRequest \/ Says(e, c.seq, c.data)

\* The sender numbers its chunks from 1, and queues them as they were written.
Sender(e) ==
  /\ st[e].next_write_seq = Len(written[e]) + 1
  /\ \A p \in st[e].write_queue : Says(e, p.seq, p.data)
  /\ \A i \in 1..Len(st[e].write_rx) : Sendable(e, st[e].write_rx[i])

\* The datagrams to end e carry what the other end wrote.
Wire(e) ==
  \A m \in net : m.kind = "Stream" /\ m.to = e => Says(Peer(e), m.seq, m.data)

\* What was read, g, and what is to be read, b, follow one another in what was
\* written, w, and end before number n.
InLine(n, g, b, w) ==
  /\ n = Len(g) + Len(b) + 1
  /\ n <= Len(w) + 1
  /\ \A i \in 1..Len(g) : g[i] = w[i]
  /\ \A i \in 1..Len(b) : b[i] = w[Len(g) + i]

\* The reader is in line with what the other end wrote, and the chunks that
\* wait for a gap to close are from there.
Reader(e) ==
  /\ \A p \in st[e].read_buffer :
       Says(Peer(e), p.seq, p.data) /\ p.seq >= st[e].next_read_seq
  /\ InLine(st[e].next_read_seq, got[e], st[e].read_buf, written[Peer(e)])

\* A Sack tells what its sender has received.
Sound(m) ==
  /\ m.ack < st[Peer(m.to)].next_read_seq
  /\ \A i \in m.bits : Received(Peer(m.to), m.ack + 1 + i)

Acks ==
  \A m \in net : m.kind = "Sack" => Sound(m)

Queued(e) ==
  st[e].mode = "Tcp" =>
    \A seq \in 1..Len(written[e]) :
      Has(st[e].write_queue, seq) \/ Received(Peer(e), seq)

\* Before the listener creates the stream, nothing happens at its end.
Fresh ==
  streams = 0 =>
    /\ st["acc"].app = "none" /\ ~st["acc"].running
    /\ st["acc"].next_read_seq = 1 /\ st["acc"].read_buffer = {}
    /\ written["acc"] = <<>> /\ got["acc"] = <<>>

\* The inductive invariant.  What the connecting end reads and what is
\* acknowledged is only known of the first stream that the listener creates.
Flow ==
  /\ TypeOK
  /\ Fresh
  /\ \A e \in End : Sender(e)
  /\ Wire("acc") /\ Reader("acc")
  /\ streams <= 1 =>
       /\ Wire("conn") /\ Reader("conn")
       /\ Acks /\ \A e \in End : Queued(e)

-----------------------------------------------------------------------------
(* Steps that accept nothing and hand over nothing *)

\* The end keeps its place in both directions, and what it has queued, up to
\* what was acknowledged.
Steady(e) ==
  /\ st'[e].app = "none" <=> st[e].app = "none"
  /\ st'[e].running => st[e].running
  /\ st'[e].next_write_seq = st[e].next_write_seq
  /\ st'[e].next_read_seq = st[e].next_read_seq
  /\ st'[e].read_buffer = st[e].read_buffer
  /\ st'[e].read_buf = st[e].read_buf
  /\ \A p \in st'[e].write_queue :
       \E q \in st[e].write_queue : q.seq = p.seq /\ q.data = p.data
  /\ \A i \in 1..Len(st'[e].write_rx) :
       \/ st'[e].write_rx[i] = CloseRequest
       \/ \E j \in 1..Len(st[e].write_rx) : st'[e].write_rx[i] = st[e].write_rx[j]
  /\ st'[e].mode = "Tcp" =>
       /\ st[e].mode = "Tcp"
       /\ \A p \in st[e].write_queue :
            Has(st'[e].write_queue, p.seq)
              \/ (streams <= 1 => Received(Peer(e), p.seq))

\* A datagram may be sent.
Honest(m) ==
  /\ m.kind = "Stream" => Says(Peer(m.to), m.seq, m.data)
  /\ m.kind = "Sack" => Sound(m)

Calm ==
  /\ UNCHANGED <<streams, written, got>>
  /\ \A e \in End : Steady(e)
  /\ \A m \in net' : m \in net \/ Honest(m)

LEMMA CalmKeeps ==
  ASSUME Flow, Calm, TypeOK'
  PROVE  Flow'
<1>0. TypeOK /\ UNCHANGED <<streams, written, got>>
  BY DEF Flow, Calm
<1>1. \A e \in End : \A seq, d : Says(e, seq, d)' <=> Says(e, seq, d)
  BY <1>0, SMTT(30) DEF Says
<1>2. \A e \in End : \A seq : Received(e, seq)' <=> Received(e, seq)
  BY SMTT(30) DEF Received, Has, Calm, Steady
<1>3. Fresh'
  <2>1. Fresh /\ Steady("acc")
    BY SMTT(30) DEF Flow, Calm, End
  <2> QED BY <1>0, <2>1, SMTT(30) DEF Fresh, Steady
<1>4. ASSUME NEW e \in End
      PROVE  Sender(e)'
  <2>1. Sender(e) /\ Steady(e)
    BY SMTT(30) DEF Flow, Calm
  <2>2. (st[e].next_write_seq = Len(written[e]) + 1)'
    BY <1>0, <2>1, SMTT(30) DEF Sender, Steady
  <2>3. ASSUME NEW p \in st'[e].write_queue
        PROVE  Says(e, p.seq, p.data)'
    <3>1. PICK q \in st[e].write_queue : q.seq = p.seq /\ q.data = p.data
      BY <2>1, SMTT(30) DEF Steady
    <3> QED
      BY <1>1, <2>1, <3>1, SMTT(30) DEF Sender
  <2>4. ASSUME NEW i \in 1..Len(st'[e].write_rx)
        PROVE  Sendable(e, st[e].write_rx[i])'
    <3>1. CASE st'[e].write_rx[i] = CloseRequest
      BY <3>1, SMTT(30) DEF Sendable
    <3>2. CASE \E j \in 1..Len(st[e].write_rx) : st'[e].write_rx[i] = st[e].write_rx[j]
      <4>1. Sendable(e, st'[e].write_rx[i])
        BY <2>1, <3>2, SMTT(30) DEF Sender
      <4> QED
        BY <1>1, <4>1, SMTT(30) DEF Sendable
    <3> QED
      BY <2>1, <3>1, <3>2, SMTT(30) DEF Steady
  <2> QED
    BY <2>2, <2>3, <2>4, SMTT(30) DEF Sender
<1>5. ASSUME NEW e \in End, Wire(e)
      PROVE  Wire(e)'
  <2>1. ASSUME NEW m \in net', m.kind = "Stream", m.to = e
        PROVE  Says(Peer(e), m.seq, m.data)
    BY <1>5, <2>1, Zenon DEF Wire, Calm, Honest
  <2> QED
    BY <1>1, <2>1, PeerEnd DEF Wire
<1>6. ASSUME NEW e \in End, Reader(e)
      PROVE  Reader(e)'
  BY <1>0, <1>1, <1>6, PeerEnd, ZenonT(30) DEF Reader, Calm, Steady
<1>7. ASSUME NEW m \in Packet, Sound(m)
      PROVE  Sound(m)'
  <2>1. Peer(m.to) \in End
    BY PeerEnd, SMTT(30) DEF Packet
  <2> QED
    BY <1>2, <1>7, <2>1, SMTT(30) DEF Sound, Calm, Steady
<1>8. ASSUME Acks
      PROVE  Acks'
  BY <1>7, <1>8, SMTT(30) DEF Acks, Calm, Honest, TypeOK
<1>9. ASSUME NEW e \in End, Queued(e), streams <= 1
      PROVE  Queued(e)'
  <2>1. ASSUME st'[e].mode = "Tcp", NEW seq \in 1..Len(written[e])
        PROVE  Has(st'[e].write_queue, seq) \/ Received(Peer(e), seq)
    BY <1>9, <2>1 DEF Queued, Calm, Steady, Has
  <2> QED
    BY <1>0, <1>2, <2>1, PeerEnd, SMTT(30) DEF Queued, Has
<1> QED
  BY <1>0, <1>3, <1>4, <1>5, <1>6, <1>8, <1>9, SMTT(30) DEF Flow, End

\* One end takes a step, the other does not.
LEMMA SteadyStep ==
  ASSUME TypeOK, NEW e \in End, Steady(e),
         \A g \in End : g # e => st'[g] = st[g]
  PROVE  \A g \in End : Steady(g)
<1>1. ASSUME NEW g \in End, st'[g] = st[g]
      PROVE  Steady(g)
  BY <1>1, ZenonT(30) DEF Steady, Has
<1> QED
  BY <1>1, Zenon

\* Only flags change.
LEMMA SteadyFlags ==
  ASSUME NEW e \in End,
         st'[e].app = "none" <=> st[e].app = "none",
         st'[e].running => st[e].running,
         st'[e].mode = "Tcp" => st[e].mode = "Tcp",
         st'[e].next_write_seq = st[e].next_write_seq,
         st'[e].next_read_seq = st[e].next_read_seq,
         st'[e].read_buffer = st[e].read_buffer,
         st'[e].read_buf = st[e].read_buf,
         st'[e].write_queue = st[e].write_queue,
         st'[e].write_rx = st[e].write_rx
  PROVE  Steady(e)
BY DEF Steady, Has

LEMMA FlagsCalm ==
  ASSUME TypeOK, NEW e \in End,
         \/ ConnectDone /\ e = "conn"
         \/ ConnectFail /\ e = "conn"
         \/ SocketError /\ e = "conn"
         \/ SetUdpNackMode(e) \/ DropStream(e) \/ TickExit(e) \/ TaskStop(e)
         \/ /\ \/ st' = [st EXCEPT ![e].write_waker = TRUE]
               \/ st' = [st EXCEPT ![e].read_waker = TRUE]
               \/ st' = [st EXCEPT ![e].eof = TRUE]
            /\ UNCHANGED <<net, streams, written, got>>
  PROVE  Calm
<1>0. st \in [End -> StreamState] /\ st[e] \in StreamState
  BY DEF TypeOK
<1>1. CASE ConnectDone /\ e = "conn"
  <2>1. Steady(e)
    BY <1>0, <1>1, SteadyFlags, ZenonT(30) DEF ConnectDone, StreamState
  <2>2. \A g \in End : g # e => st'[g] = st[g]
    BY <1>0, <1>1, SMTT(30) DEF ConnectDone
  <2> QED
    BY <1>1, <2>1, <2>2, SteadyStep, SMTT(30) DEF Calm, ConnectDone
<1>2. CASE ConnectFail /\ e = "conn"
  <2>1. Steady(e)
    BY <1>0, <1>2, SteadyFlags, ZenonT(30) DEF ConnectFail, StreamState
  <2>2. \A g \in End : g # e => st'[g] = st[g]
    BY <1>0, <1>2 DEF ConnectFail
  <2> QED
    BY <1>2, <2>1, <2>2, SteadyStep, SMTT(30) DEF Calm, ConnectFail
<1>3. CASE SocketError /\ e = "conn"
  <2>1. Steady(e)
    BY <1>0, <1>3, SteadyFlags, ZenonT(30) DEF SocketError, StreamState
  <2>2. \A g \in End : g # e => st'[g] = st[g]
    BY <1>0, <1>3 DEF SocketError
  <2> QED
    BY <1>3, <2>1, <2>2, SteadyStep, ZenonT(30) DEF Calm, SocketError
<1>4. CASE SetUdpNackMode(e)
  <2>1. Steady(e)
    BY <1>0, <1>4, SteadyFlags, ZenonT(30) DEF SetUdpNackMode, StreamState
  <2>2. \A g \in End : g # e => st'[g] = st[g]
    BY <1>0, <1>4 DEF SetUdpNackMode
  <2> QED
    BY <1>4, <2>1, <2>2, SteadyStep DEF Calm, SetUdpNackMode
<1>5. CASE DropStream(e)
  <2>1. Steady(e)
    BY <1>0, <1>5, SteadyFlags, ZenonT(30) DEF DropStream, StreamState
  <2>2. \A g \in End : g # e => st'[g] = st[g]
    BY <1>0, <1>5 DEF DropStream
  <2> QED
    BY <1>5, <2>1, <2>2, SteadyStep, ZenonT(30) DEF Calm, DropStream
<1>6. CASE TickExit(e)
  <2>1. Steady(e)
    BY <1>0, <1>6, SteadyFlags, ZenonT(30) DEF TickExit, Exited, StreamState
  <2>2. \A g \in End : g # e => st'[g] = st[g]
    BY <1>0, <1>6 DEF TickExit
  <2> QED
    BY <1>6, <2>1, <2>2, SteadyStep, SMTT(30) DEF Calm, TickExit
<1>7. CASE TaskStop(e)
  <2>1. Steady(e)
    BY <1>0, <1>7, SteadyFlags, ZenonT(30) DEF TaskStop, Exited, StreamState
  <2>2. \A g \in End : g # e => st'[g] = st[g]
    BY <1>0, <1>7, SMTT(30) DEF TaskStop
  <2> QED
    BY <1>7, <2>1, <2>2, SteadyStep, SMTT(30) DEF Calm, TaskStop
<1>8. CASE /\ \/ st' = [st EXCEPT ![e].write_waker = TRUE]
            \/ st' = [st EXCEPT ![e].read_waker = TRUE]
            \/ st' = [st EXCEPT ![e].eof = TRUE]
         /\ UNCHANGED <<net, streams, written, got>>
  <2>1. Steady(e)
    <3>1. CASE st' = [st EXCEPT ![e].write_waker = TRUE]
      BY <1>0, <3>1, SteadyFlags, ZenonT(30) DEF StreamState
    <3>2. CASE st' = [st EXCEPT ![e].read_waker = TRUE]
      BY <1>0, <3>2, SteadyFlags, ZenonT(30) DEF StreamState
    <3>3. CASE st' = [st EXCEPT ![e].eof = TRUE]
      BY <1>0, <3>3, SteadyFlags, ZenonT(30) DEF StreamState
    <3> QED
      BY <1>8, <3>1, <3>2, <3>3, SMTT(30)
  <2>2. \A g \in End : g # e => st'[g] = st[g]
    BY <1>0, <1>8, SMTT(30)
  <2> QED
    BY <1>8, <2>1, <2>2, SteadyStep, SMTT(30) DEF Calm
<1> QED
  BY <1>1, <1>2, <1>3, <1>4, <1>5, <1>6, <1>7, <1>8, SMTT(30)

LEMMA BareHonest ==
  ASSUME NEW to \in End, NEW kind \in Kinds \ {"Stream", "Sack"}
  PROVE  Honest(Bare(to, kind))
BY DEF Bare, Honest

\* An acknowledgement says what its sender has.
LEMMA AckSays ==
  ASSUME NEW e \in End, NEW r \in StreamState
  PROVE  LET m == BuildAck(Peer(e), r)
         IN /\ m.kind = "Sack" /\ m.to = Peer(e) /\ Peer(m.to) = e
            /\ m.ack < r.next_read_seq
            /\ \A i \in m.bits : Has(r.read_buffer, m.ack + 1 + i)
<1> DEFINE m == BuildAck(Peer(e), r)
<1>1. Peer(e) \in End /\ Peer(Peer(e)) = e
  BY PeerEnd, SMTT(30)
<1>2. /\ m.to = Peer(e) /\ m.kind = "Sack" /\ m.ack = r.next_read_seq - 1
      /\ m.bits = {i \in 0..(Window - 1) :
                     Has(r.read_buffer, r.next_read_seq - 1 + 1 + i)}
  BY <1>1, BuildAckType
<1> HIDE DEF m
<1>3. r.next_read_seq \in Seqs
  BY DEF StreamState
<1>4. m.ack < r.next_read_seq
  BY <1>2, <1>3, SMTT(30) DEF Seqs
<1>5. \A i \in m.bits : Has(r.read_buffer, m.ack + 1 + i)
  BY <1>2
<1>6. /\ m.kind = "Sack" /\ m.to = Peer(e) /\ Peer(m.to) = e
      /\ m.ack < r.next_read_seq
      /\ \A i \in m.bits : Has(r.read_buffer, m.ack + 1 + i)
  BY <1>1, <1>2, <1>4, <1>5, ZenonT(30)
<1> QED
  BY <1>6, Zenon DEF m

LEMMA BuildAckHonest ==
  ASSUME NEW e \in End, st[e] \in StreamState
  PROVE  Honest(BuildAck(Peer(e), st[e]))
BY AckSays, ZenonT(30) DEF Honest, Sound, Received

\* A chunk that is sent again is still the one that was written.
LEMMA StreamHonest ==
  ASSUME NEW e \in End, NEW p, p.seq \in Seqs, p.data \in Data,
         Says(e, p.seq, p.data)
  PROVE  Honest(StreamPacket(Peer(e), p))
<1>1. Peer(e) \in End /\ Peer(Peer(e)) = e
  BY PeerEnd, SMTT(30)
<1>2. LET m == StreamPacket(Peer(e), p)
      IN /\ m.to = Peer(e) /\ m.kind = "Stream" /\ m.seq = p.seq
         /\ m.data = p.data
  BY <1>1, StreamPacketType, SMTT(30)
<1> QED
  BY <1>1, <1>2, SMTT(30) DEF Honest

LEMMA AnswerCalm ==
  ASSUME TypeOK, NEW e \in End, NEW m \in net,
         OnOpen(e, m) \/ OnOpenAck(e, m) \/ OnClose(e, m) \/ OnPing(e, m)
           \/ OnStreamDuplicate(e, m)
  PROVE  Calm
<1>0. st \in [End -> StreamState] /\ st[e] \in StreamState /\ Peer(e) \in End
  BY PeerEnd DEF TypeOK
<1>1. CASE OnOpen(e, m) \/ OnOpenAck(e, m)
  <2>0. st' = [st EXCEPT ![e].established = TRUE]
    BY <1>1, Zenon DEF OnOpen, OnOpenAck
  <2>1. Steady(e)
    BY <1>0, <2>0, SteadyFlags, ZenonT(30) DEF StreamState
  <2>2. \A g \in End : g # e => st'[g] = st[g]
    BY <1>0, <2>0, SMTT(30)
  <2>3. Honest(Bare(Peer(e), "StreamOpenAck"))
    BY <1>0, BareHonest DEF Kinds
  <2> QED
    BY <1>1, <2>1, <2>2, <2>3, SteadyStep, SMTT(30) DEF Calm, OnOpen, OnOpenAck, Answer
<1>2. CASE OnClose(e, m)
  <2>1. Steady(e)
    BY <1>0, <1>2, SteadyFlags, ZenonT(30) DEF OnClose, StreamState
  <2>2. \A g \in End : g # e => st'[g] = st[g]
    BY <1>0, <1>2, SMTT(30) DEF OnClose
  <2> QED
    BY <1>2, <2>1, <2>2, SteadyStep, ZenonT(30) DEF Calm, OnClose
<1>3. CASE OnPing(e, m)
  <2>1. Steady(e)
    BY <1>3, SteadyFlags, SMTT(30) DEF OnPing
  <2>2. Honest(Bare(Peer(e), "KeepalivePong"))
    BY <1>0, BareHonest DEF Kinds
  <2> QED
    BY <1>3, <2>1, <2>2, SteadyStep, SMTT(30) DEF Calm, OnPing, Answer
<1>4. CASE OnStreamDuplicate(e, m)
  <2>1. Steady(e)
    BY <1>0, <1>4, SteadyFlags, ZenonT(30) DEF OnStreamDuplicate, StreamState
  <2>2. \A g \in End : g # e => st'[g] = st[g]
    BY <1>0, <1>4, SMTT(30) DEF OnStreamDuplicate
  <2>3. Honest(BuildAck(Peer(e), st[e]))
    BY <1>0, BuildAckHonest, SMTT(30)
  <2> QED
    BY <1>4, <2>1, <2>2, <2>3, SteadyStep, SMTT(30) DEF Calm, OnStreamDuplicate, Answer
<1> QED
  BY <1>1, <1>2, <1>3, <1>4, SMTT(30)

\* What a new queue of end e holds and keeps.
FromQueue(e, queue) ==
  \A p \in queue : \E q \in st[e].write_queue : q.seq = p.seq /\ q.data = p.data

KeepsQueue(e, queue) ==
  \A p \in st[e].write_queue :
    Has(queue, p.seq) \/ (streams <= 1 => Received(Peer(e), p.seq))

\* Of what the flow depends on, a step of end e changes its queue only.
SetQueue(e, queue) ==
  /\ st'[e].app = st[e].app /\ st'[e].running = st[e].running
  /\ st'[e].next_write_seq = st[e].next_write_seq
  /\ st'[e].next_read_seq = st[e].next_read_seq
  /\ st'[e].read_buffer = st[e].read_buffer
  /\ st'[e].read_buf = st[e].read_buf
  /\ st'[e].write_queue = queue
  /\ st'[e].write_rx = st[e].write_rx
  /\ st'[e].mode = st[e].mode
  /\ \A g \in End : g # e => st'[g] = st[g]

LEMMA SteadyQueue ==
  ASSUME TypeOK, NEW e \in End, SetQueue(e, st'[e].write_queue),
         FromQueue(e, st'[e].write_queue),
         st[e].mode = "Tcp" => KeepsQueue(e, st'[e].write_queue)
  PROVE  \A g \in End : Steady(g)
<1>1. Steady(e)
  BY DEF Steady, SetQueue, FromQueue, KeepsQueue
<1> QED
  BY <1>1, SteadyStep, SMTT(30) DEF SetQueue

\* What an acknowledgement removes from the queue was received.
LEMMA ResendCalm ==
  ASSUME Flow, NEW e \in End, NEW kept \in SUBSET st[e].write_queue,
         NEW again \in SUBSET kept, Resend(e, kept, again),
         \A p \in st[e].write_queue :
           p \in kept \/ (streams <= 1 => Received(Peer(e), p.seq))
  PROVE  Calm
<1> DEFINE queue == (kept \ again) \cup {[p EXCEPT !.old = FALSE] : p \in again}
           waker == st[e].write_waker /\ Cardinality(Keys(kept)) >= Cap
<1>0. TypeOK /\ Sender(e) /\ st[e] \in StreamState
  BY ZenonT(30) DEF Flow, TypeOK
<1>1. st[e].write_queue \in SUBSET SentPacket
  BY <1>0, SMTT(30) DEF StreamState
<1>2. SetQueue(e, queue)
  <2>1. st' = [st EXCEPT ![e].write_queue = queue, ![e].write_waker = waker]
    BY Zenon DEF Resend
  <2> HIDE DEF queue, waker
  <2> QED
    BY <1>0, <2>1, SMTT(30) DEF SetQueue, StreamState, TypeOK
<1>3. \A p \in SentPacket : LET q == [p EXCEPT !.old = FALSE]
                            IN q.seq = p.seq /\ q.data = p.data
  BY DEF SentPacket
<1>4. ASSUME NEW p \in queue
      PROVE  \E q \in st[e].write_queue : q.seq = p.seq /\ q.data = p.data
  <2>1. CASE p \in kept
    BY <2>1, SMTT(30)
  <2>2. CASE p \in {[q EXCEPT !.old = FALSE] : q \in again}
    <3>1. PICK q \in again : p = [q EXCEPT !.old = FALSE]
      BY <2>2, SMTT(30)
    <3> QED
      BY <1>1, <1>3, <3>1, SMTT(30)
  <2> QED
    BY <2>1, <2>2, SMTT(30)
<1>5. ASSUME NEW p \in kept
      PROVE  Has(queue, p.seq)
  <2>1. CASE p \in again
    BY <1>1, <1>3, <2>1, ZenonT(30) DEF Has
  <2>2. CASE p \notin again
    BY <2>2, SMTT(30) DEF Has
  <2> QED
    BY <2>1, <2>2
<1> HIDE DEF queue, waker
<1>6. FromQueue(e, queue) /\ KeepsQueue(e, queue)
  BY <1>4, <1>5, SMTT(30) DEF FromQueue, KeepsQueue
<1>8. \A g \in End : Steady(g)
  <2>1. queue = st'[e].write_queue
    BY <1>2, ZenonT(30) DEF SetQueue
  <2> QED
    BY <1>0, <1>2, <1>6, <2>1, SteadyQueue, ZenonT(30)
<1>7. ASSUME NEW p \in again
      PROVE  Honest(StreamPacket(Peer(e), p))
  BY <1>0, <1>1, SentType, StreamHonest, ZenonT(30) DEF Sender
<1> QED
  BY <1>7, <1>8, ZenonT(30) DEF Calm, Resend, Answer

LEMMA AckCalm ==
  ASSUME Flow, NEW e \in End, NEW m \in net, OnSack(e, m) \/ OnNack(e, m)
  PROVE  Calm
<1>1. CASE OnNack(e, m)
  BY <1>1, ResendCalm, ZenonT(30) DEF OnNack
<1>2. CASE OnSack(e, m)
  <2>1. Kept(e, m) \subseteq st[e].write_queue /\ Gaps(e, m) \subseteq Kept(e, m)
    BY ZenonT(30) DEF Kept, Gaps
  <2>2. ASSUME NEW p \in st[e].write_queue, p \notin Kept(e, m), streams <= 1
        PROVE  Received(Peer(e), p.seq)
    <3>1. Sound(m) /\ m.to = e
      BY <1>2, <2>2, SMTT(30) DEF Flow, Acks, OnSack, Incoming
    <3>2. Acked(p, m)
      BY <2>2 DEF Kept
    <3>3. /\ p.seq \in Nat /\ m.ack \in Nat /\ m.bits \subseteq Nat
          /\ st[Peer(e)].next_read_seq \in Nat
      <4>1. m \in Packet /\ st[e] \in StreamState /\ st[Peer(e)] \in StreamState
        BY PeerEnd, ZenonT(30) DEF Flow, TypeOK
      <4>2. p \in SentPacket
        BY <4>1, SMTT(30) DEF StreamState
      <4>3. p.seq \in Nat
        BY <4>2, SMTT(30) DEF SentPacket, Seqs
      <4>4. m.ack \in Nat /\ m.bits \subseteq Nat
        BY <4>1, SMTT(30) DEF Packet
      <4> QED
        BY <4>1, <4>3, <4>4, ZenonT(30) DEF StreamState, Seqs
    <3>4. CASE p.seq <= m.ack
      BY <3>1, <3>3, <3>4, SMTT(30) DEF Sound, Received
    <3>5. CASE p.seq > m.ack /\ p.seq - (m.ack + 1) \in m.bits
      <4>1. m.ack + 1 + (p.seq - (m.ack + 1)) = p.seq
        BY <3>3
      <4> QED
        BY <3>1, <3>5, <4>1, SMTT(30) DEF Sound
    <3> QED
      BY <3>2, <3>4, <3>5, SMTT(30) DEF Acked
  <2> QED
    BY <1>2, <2>1, <2>2, ResendCalm, ZenonT(30) DEF OnSack
<1> QED
  BY <1>1, <1>2, ZenonT(30)

LEMMA ShutdownCalm ==
  ASSUME TypeOK, NEW e \in End, PollShutdown(e)
  PROVE  Calm
<1>0. st \in [End -> StreamState] /\ st[e] \in StreamState
  BY DEF TypeOK
<1>1. /\ st'[e].app = st[e].app /\ st'[e].running = st[e].running
      /\ st'[e].next_write_seq = st[e].next_write_seq
      /\ st'[e].next_read_seq = st[e].next_read_seq
      /\ st'[e].read_buffer = st[e].read_buffer
      /\ st'[e].read_buf = st[e].read_buf
      /\ st'[e].write_queue = st[e].write_queue
      /\ st'[e].write_rx = TrySend(st[e], CloseRequest)
      /\ st'[e].mode = st[e].mode
  BY <1>0 DEF PollShutdown, StreamState
<1>2. st[e].write_rx \in Seq(Chunk \cup {CloseRequest})
  BY <1>0, ZenonT(30) DEF StreamState
<1>3. \A i \in 1..Len(st'[e].write_rx) :
        \/ st'[e].write_rx[i] = CloseRequest
        \/ \E j \in 1..Len(st[e].write_rx) : st'[e].write_rx[i] = st[e].write_rx[j]
  <2>1. CASE st'[e].write_rx = st[e].write_rx
    BY <2>1, SMTT(30)
  <2>2. CASE st'[e].write_rx = Append(st[e].write_rx, CloseRequest)
    BY <1>2, <2>2, SMTT(30)
  <2> QED
    BY <1>1, <2>1, <2>2, ZenonT(30) DEF TrySend
<1>4. Steady(e)
  BY <1>1, <1>3, SMTT(30) DEF Steady, Has
<1>5. \A g \in End : g # e => st'[g] = st[g]
  BY <1>0, SMTT(30) DEF PollShutdown
<1> QED
  BY <1>4, <1>5, SteadyStep, ZenonT(30) DEF Calm, PollShutdown

LEMMA WriteNextCalm ==
  ASSUME Flow, NEW e \in End, WriteNext(e)
  PROVE  Calm
<1> DEFINE c == Head(st[e].write_rx)
<1>0. /\ TypeOK /\ Sender(e) /\ st[e] \in StreamState
      /\ st \in [End -> StreamState] /\ Peer(e) \in End
  BY PeerEnd, SMTT(30) DEF Flow, TypeOK
<1>1. /\ st'[e].app = st[e].app /\ st'[e].running = st[e].running
      /\ st'[e].next_write_seq = st[e].next_write_seq
      /\ st'[e].next_read_seq = st[e].next_read_seq
      /\ st'[e].read_buffer = st[e].read_buffer
      /\ st'[e].read_buf = st[e].read_buf
      /\ st'[e].write_queue = st[e].write_queue
      /\ st'[e].write_rx = Tail(st[e].write_rx)
      /\ st'[e].mode = st[e].mode
  BY <1>0, ZenonT(30) DEF WriteNext, StreamState
<1>2. st[e].write_rx \in Seq(Chunk \cup {CloseRequest}) /\ st[e].write_rx # <<>>
  BY <1>0, SMTT(30) DEF StreamState, WriteNext
<1>3. \A i \in 1..Len(st'[e].write_rx) :
        \E j \in 1..Len(st[e].write_rx) : st'[e].write_rx[i] = st[e].write_rx[j]
  <2> SUFFICES ASSUME NEW i \in 1..Len(st'[e].write_rx)
               PROVE  \E j \in 1..Len(st[e].write_rx) :
                        st'[e].write_rx[i] = st[e].write_rx[j]
    BY SMTT(30)
  <2>1. i + 1 \in 1..Len(st[e].write_rx) /\ st'[e].write_rx[i] = st[e].write_rx[i + 1]
    BY <1>1, <1>2, SMTT(30)
  <2> QED
    BY <2>1, SMTT(30)
<1>4. Steady(e)
  BY <1>1, <1>3, SMTT(30) DEF Steady, Has
<1>5. \A g \in End : g # e => st'[g] = st[g]
  BY <1>0, SMTT(30) DEF WriteNext
<1>6. c = st[e].write_rx[1] /\ 1 \in 1..Len(st[e].write_rx)
  BY <1>2, SMTT(30)
<1>7. c \in Chunk \cup {CloseRequest} /\ Sendable(e, c)
  BY <1>0, <1>2, <1>6, SMTT(30) DEF Sender
<1>8. c # CloseRequest => Honest(StreamPacket(Peer(e), c))
  BY <1>7, StreamHonest, SMTT(30) DEF Sendable, Chunk
<1>9. Honest(Bare(Peer(e), "StreamClose"))
  BY <1>0, BareHonest, SMTT(30) DEF Kinds
<1>10. net' = net \cup {IF c = CloseRequest THEN Bare(Peer(e), "StreamClose")
                        ELSE StreamPacket(Peer(e), c)}
  BY ZenonT(30) DEF WriteNext
<1> HIDE DEF c
<1>11. \A m \in net' : m \in net \/ Honest(m)
  BY <1>8, <1>9, <1>10, SMTT(30)
<1> QED
  BY <1>0, <1>4, <1>5, <1>11, SteadyStep, ZenonT(30) DEF Calm, WriteNext

LEMMA ClockCalm ==
  ASSUME Flow, NEW e \in End,
         Elapse(e) \/ \E ping \in BOOLEAN : TickTcp(e, ping) \/ TickUdp(e, ping)
  PROVE  Calm
<1>0. /\ TypeOK /\ Sender(e) /\ st[e] \in StreamState
      /\ st \in [End -> StreamState] /\ Peer(e) \in End
  BY PeerEnd, ZenonT(30) DEF Flow, TypeOK
<1>1. st[e].write_queue \in SUBSET SentPacket /\ Due(e) \subseteq st[e].write_queue
  BY <1>0, SMTT(30) DEF StreamState, Due
<1>2. CASE Elapse(e)
  <2> DEFINE queue == {[p EXCEPT !.old = TRUE] : p \in st[e].write_queue}
  <2>1. SetQueue(e, queue)
    <3>1. st' = [st EXCEPT ![e].write_queue = queue]
      BY <1>2, ZenonT(30) DEF Elapse
    <3> HIDE DEF queue
    <3> QED
      BY <1>0, <3>1, SMTT(30) DEF SetQueue, StreamState
  <2>2. \A p \in SentPacket : LET q == [p EXCEPT !.old = TRUE]
                              IN q.seq = p.seq /\ q.data = p.data
    BY DEF SentPacket
  <2>3. ASSUME NEW p \in queue
        PROVE  \E q \in st[e].write_queue : q.seq = p.seq /\ q.data = p.data
    <3>1. PICK q \in st[e].write_queue : p = [q EXCEPT !.old = TRUE]
      BY Zenon
    <3> QED
      BY <1>1, <2>2, <3>1, SMTT(30)
  <2>4. \A p \in st[e].write_queue : Has(queue, p.seq)
    BY <1>1, <2>2, ZenonT(30) DEF Has
  <2> HIDE DEF queue
  <2>5. \A g \in End : Steady(g)
    <3>1. FromQueue(e, queue) /\ KeepsQueue(e, queue)
      BY <2>3, <2>4, SMTT(30) DEF FromQueue, KeepsQueue
    <3>2. queue = st'[e].write_queue
      BY <2>1, ZenonT(30) DEF SetQueue
    <3> QED
      BY <1>0, <2>1, <3>1, <3>2, SteadyQueue, ZenonT(30)
  <2> QED
    BY <1>2, <2>5, SMTT(30) DEF Calm, Elapse
<1>3. ASSUME NEW ping \in BOOLEAN
      PROVE  \A m \in Ping(e, ping) : Honest(m)
  BY <1>0, BareHonest, SMTT(30) DEF Ping, Kinds
<1>4. ASSUME NEW ping \in BOOLEAN, TickTcp(e, ping)
      PROVE  Calm
  <2> DEFINE again(p) == [p EXCEPT !.old = FALSE, !.retransmits = @ + 1]
             queue == (st[e].write_queue \ Due(e)) \cup {again(p) : p \in Due(e)}
  <2>1. SetQueue(e, queue)
    <3>1. st' = [st EXCEPT ![e].write_queue = queue]
      BY <1>4, ZenonT(30) DEF TickTcp
    <3> HIDE DEF queue
    <3> QED
      BY <1>0, <3>1 DEF SetQueue, StreamState
  <2>2. \A p \in SentPacket : again(p).seq = p.seq /\ again(p).data = p.data
    BY SMTT(30) DEF SentPacket
  <2> HIDE DEF again
  <2>3. ASSUME NEW p \in queue
        PROVE  \E q \in st[e].write_queue : q.seq = p.seq /\ q.data = p.data
    BY <1>1, <2>2, SMTT(30)
  <2>4. ASSUME NEW p \in st[e].write_queue
        PROVE  Has(queue, p.seq)
    BY <1>1, <2>2, SMTT(30) DEF Has
  <2> HIDE DEF queue
  <2>5. \A g \in End : Steady(g)
    <3>1. FromQueue(e, queue) /\ KeepsQueue(e, queue)
      BY <2>3, <2>4, SMTT(30) DEF FromQueue, KeepsQueue
    <3>2. queue = st'[e].write_queue
      BY <2>1, ZenonT(30) DEF SetQueue
    <3> QED
      BY <1>0, <2>1, <3>1, <3>2, SteadyQueue, ZenonT(30)
  <2>6. ASSUME NEW p \in Due(e)
        PROVE  Honest(StreamPacket(Peer(e), p))
    BY <1>0, <1>1, SentType, StreamHonest, ZenonT(30) DEF Sender
  <2> QED
    BY <1>3, <1>4, <2>5, <2>6, ZenonT(30) DEF Calm, TickTcp
<1>5. ASSUME NEW ping \in BOOLEAN, TickUdp(e, ping)
      PROVE  Calm
  <2> DEFINE queue == st[e].write_queue \ Due(e)
  <2>1. SetQueue(e, queue) /\ st[e].mode # "Tcp"
    <3>1. st' = [st EXCEPT ![e].write_queue = queue] /\ st[e].mode # "Tcp"
      BY <1>5, ZenonT(30) DEF TickUdp
    <3> HIDE DEF queue
    <3> QED
      BY <1>0, <3>1 DEF SetQueue, StreamState
  <2>2. FromQueue(e, queue)
    BY DEF FromQueue
  <2> HIDE DEF queue
  <2>3. \A g \in End : Steady(g)
    <3>1. queue = st'[e].write_queue
      BY <2>1, Zenon DEF SetQueue
    <3> QED
      BY <1>0, <2>1, <2>2, <3>1, SteadyQueue, ZenonT(30)
  <2> QED
    BY <1>3, <1>5, <2>3, SMTT(30) DEF Calm, TickUdp
<1> QED
  BY <1>2, <1>4, <1>5, SMTT(30)

LEMMA RejectCalm ==
  ASSUME TypeOK, ConnectSend \/ (\E m \in net : ListenerReject(m)) \/ UNCHANGED vars
  PROVE  Calm
<1>1. UNCHANGED <<st, streams, written, got>>
  BY SMTT(30) DEF ConnectSend, ListenerReject, vars
<1>2. \A e \in End : Steady(e)
  BY <1>1, SteadyFlags, SMTT(30)
<1>3. Honest(Bare("acc", "StreamOpen")) /\ Honest(Bare("conn", "StreamClose"))
  BY BareHonest DEF Kinds, End
<1> QED
  BY <1>1, <1>2, <1>3, ZenonT(30)
     DEF Calm, ConnectSend, ListenerReject, Answer, vars
=============================================================================
