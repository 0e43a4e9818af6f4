------------------------- MODULE UdpStreamFlowProofs -------------------------
(***************************************************************************)
(* The steps of UdpStream that move chunks keep the meaning of sequence    *)
(* numbers; hence data arrives in order, acknowledgements are sound, and   *)
(* the transport implements a reliable stream.                             *)
(***************************************************************************)
EXTENDS UdpStreamProofs

LEMMA InLineShort ==
  ASSUME NEW n, NEW g \in Seq(Data), NEW b \in Seq(Data), NEW w \in Seq(Data),
         InLine(n, g, b, w)
  PROVE  Len(g) + Len(b) <= Len(w) /\ Len(g) <= Len(w)
<1>1. Len(w) \in Nat /\ Len(g) \in Nat /\ Len(b) \in Nat
  OBVIOUS
<1>2. n = Len(g) + Len(b) + 1 /\ n <= Len(w) + 1
  BY DEF InLine
<1> QED
  BY <1>1, <1>2

LEMMA InLineLonger ==
  ASSUME NEW n, NEW g \in Seq(Data), NEW b \in Seq(Data), NEW w \in Seq(Data),
         NEW d \in Data, InLine(n, g, b, w)
  PROVE  InLine(n, g, b, Append(w, d))
<1> PICK v : v = Append(w, d)
  BY Zenon
<1>1. Len(w) \in Nat /\ Len(g) \in Nat /\ Len(b) \in Nat
  OBVIOUS
<1>2. Len(v) = Len(w) + 1 /\ \A i \in 1..Len(w) : v[i] = w[i]
  OBVIOUS
<1>3. n = Len(g) + Len(b) + 1 /\ n <= Len(w) + 1
  BY DEF InLine
<1>4. n <= Len(v) + 1 /\ Len(g) + Len(b) <= Len(w)
  BY <1>1, <1>2, <1>3, SMTT(30)
<1>5. ASSUME NEW i \in 1..Len(g)
      PROVE  g[i] = v[i]
  <2>1. i \in 1..Len(w)
    BY <1>1, <1>4
  <2> QED
    BY <1>2, <2>1 DEF InLine
<1>6. ASSUME NEW i \in 1..Len(b)
      PROVE  b[i] = v[Len(g) + i]
  <2>1. Len(g) + i \in 1..Len(w)
    BY <1>1, <1>4
  <2> QED
    BY <1>2, <2>1 DEF InLine
<1>7. InLine(n, g, b, v)
  BY <1>3, <1>4, <1>5, <1>6, ZenonT(30) DEF InLine
<1> QED
  BY <1>7

\* poll_write accepts a chunk.
LEMMA AcceptFlow ==
  ASSUME Flow, TypeOK', NEW e \in End, NEW d \in Data,
         PollWrite(e, d), ~UNCHANGED written
  PROVE  Flow'
<1> PICK n : n = st[e].next_write_seq
  OBVIOUS
<1> DEFINE c == [seq |-> n, data |-> d]
           sent == [seq |-> n, data |-> d, retransmits |-> 0, old |-> FALSE]
<1>0. /\ TypeOK /\ st \in [End -> StreamState] /\ st[e] \in StreamState
      /\ \A g \in End : Sender(g)
  BY Zenon DEF Flow, TypeOK
<1>1. /\ st' = [st EXCEPT ![e].next_write_seq = n + 1,
                          ![e].write_queue = st[e].write_queue \cup {sent},
                          ![e].write_rx = TrySend(st[e], c)]
      /\ written' = [written EXCEPT ![e] = Append(written[e], d)]
      /\ UNCHANGED <<net, streams, got>>
      /\ st[e].app = "open"
  BY ZenonT(30) DEF PollWrite
<1> HIDE DEF c, sent
<1>2. /\ st'[e].app = st[e].app /\ st'[e].running = st[e].running
      /\ st'[e].next_write_seq = n + 1
      /\ st'[e].next_read_seq = st[e].next_read_seq
      /\ st'[e].read_buffer = st[e].read_buffer
      /\ st'[e].read_buf = st[e].read_buf
      /\ st'[e].write_queue = st[e].write_queue \cup {sent}
      /\ st'[e].write_rx = TrySend(st[e], c)
      /\ st'[e].mode = st[e].mode
      /\ \A g \in End : g # e => st'[g] = st[g]
  BY <1>0, <1>1, SMTT(30) DEF StreamState
<1>3. /\ written[e] \in Seq(Data) /\ n = Len(written[e]) + 1
      /\ written'[e] = Append(written[e], d)
      /\ \A g \in End : g # e => written'[g] = written[g]
  BY <1>0, <1>1, SMTT(30) DEF TypeOK, Sender
<1>4. /\ Len(written'[e]) = n /\ written'[e][n] = d
      /\ \A i \in 1..Len(written[e]) : written'[e][i] = written[e][i]
      /\ n \in Nat
  BY <1>3
<1>5. ASSUME NEW g \in End, NEW seq, NEW x, Says(g, seq, x)
      PROVE  Says(g, seq, x)'
  <2>1. CASE g = e
    BY <1>3, <1>4, <1>5, <2>1, SMTT(30) DEF Says
  <2>2. CASE g # e
    BY <1>3, <1>5, <2>2, Zenon DEF Says
  <2> QED
    BY <2>1, <2>2, ZenonT(30)
<1>6. Says(e, n, d)'
  BY <1>3, <1>4, SMTT(30) DEF Says
<1>7. \A g \in End : \A seq : Received(g, seq)' <=> Received(g, seq)
  BY <1>2, SMTT(30) DEF Received, Has
<1>8. Fresh'
  BY <1>1, <1>2, <1>3, ZenonT(30) DEF Flow, Fresh, End
<1>9. ASSUME NEW g \in End
      PROVE  Sender(g)'
  <2>1. CASE g # e
    <3>1. Sender(g) /\ st'[g] = st[g] /\ written'[g] = written[g]
      BY <1>0, <1>2, <1>3, <2>1, ZenonT(30)
    <3> QED
      BY <3>1, ZenonT(30) DEF Sender, Sendable, Says
  <2>2. CASE g = e
    <3>1. Sender(e)
      BY <1>0, ZenonT(30)
    <3>2. ASSUME NEW p \in st'[e].write_queue
          PROVE  Says(e, p.seq, p.data)'
      <4>1. CASE p = sent
        BY <1>6, <4>1, ZenonT(30) DEF sent
      <4>2. CASE p \in st[e].write_queue
        BY <1>5, <3>1, <4>2, ZenonT(30) DEF Sender
      <4> QED
        BY <1>2, <4>1, <4>2, ZenonT(30)
    <3>3. st[e].write_rx \in Seq(Chunk \cup {CloseRequest})
      BY <1>0 DEF StreamState
    <3>4. Sendable(e, c)'
      BY <1>6, ZenonT(30) DEF Sendable, c
    <3>5. \A i \in 1..Len(st[e].write_rx) : Sendable(e, st[e].write_rx[i])
      BY <3>1 DEF Sender
    <3>6. \A x : Sendable(e, x) => (x = CloseRequest \/ Says(e, x.seq, x.data)')
      BY <1>5, ZenonT(30) DEF Sendable
    <3>7. ASSUME NEW i \in 1..Len(st'[e].write_rx)
          PROVE  Sendable(e, st[e].write_rx[i])'
      <4>1. CASE st'[e].write_rx = st[e].write_rx
        BY <3>5, <3>6, <4>1, SMTT(30) DEF Sendable
      <4>2. CASE st'[e].write_rx = Append(st[e].write_rx, c)
        <5>1. CASE i \in 1..Len(st[e].write_rx)
          <6>1. st'[e].write_rx[i] = st[e].write_rx[i]
            BY <3>3, <4>2, <5>1, SMTT(30)
          <6> QED
            BY <3>5, <3>6, <5>1, <6>1, ZenonT(30) DEF Sendable
        <5>2. CASE i \notin 1..Len(st[e].write_rx)
          <6>1. st'[e].write_rx[i] = c
            BY <3>3, <4>2, <5>2, SMTT(30)
          <6> QED
            BY <3>4, <6>1, ZenonT(30) DEF Sendable
        <5> QED
          BY <5>1, <5>2, ZenonT(30)
      <4> QED
        BY <1>2, <4>1, <4>2, ZenonT(30) DEF TrySend
    <3>8. (st[e].next_write_seq = Len(written[e]) + 1)'
      BY <1>2, <1>4, SMTT(30)
    <3> QED
      BY <2>2, <3>2, <3>7, <3>8, SMTT(30) DEF Sender
  <2> QED
    BY <2>1, <2>2, ZenonT(30)
<1>10. ASSUME NEW g \in End, Wire(g)
       PROVE  Wire(g)'
  BY <1>1, <1>5, <1>10, PeerEnd, ZenonT(30) DEF Wire
<1>11. ASSUME NEW g \in End, Reader(g)
       PROVE  Reader(g)'
  <2>1. /\ st'[g].next_read_seq = st[g].next_read_seq
        /\ st'[g].read_buffer = st[g].read_buffer
        /\ st'[g].read_buf = st[g].read_buf
        /\ got'[g] = got[g]
    BY <1>1, <1>2, ZenonT(30)
  <2>2. \A p \in st[g].read_buffer :
          Says(Peer(g), p.seq, p.data)' /\ p.seq >= st[g].next_read_seq
    BY <1>5, <1>11, PeerEnd, ZenonT(30) DEF Reader
  <2>3. InLine(st[g].next_read_seq, got[g], st[g].read_buf, written'[Peer(g)])
    <3>1. /\ InLine(st[g].next_read_seq, got[g], st[g].read_buf, written[Peer(g)])
          /\ Peer(g) \in End
      BY <1>11, PeerEnd, ZenonT(30) DEF Reader
    <3>2. CASE Peer(g) # e
      BY <1>3, <3>1, <3>2, SMTT(30)
    <3>3. CASE Peer(g) = e
      <4>1. /\ got[g] \in Seq(Data) /\ st[g].read_buf \in Seq(Data)
            /\ written[e] \in Seq(Data) /\ written'[Peer(g)] = Append(written[e], d)
        BY <1>0, <1>3, <3>3, ZenonT(30) DEF TypeOK, StreamState
      <4> QED
        BY <3>1, <3>3, <4>1, InLineLonger, ZenonT(30)
    <3> QED
      BY <3>2, <3>3, ZenonT(30)
  <2> QED
    BY <2>1, <2>2, <2>3, SMTT(30) DEF Reader
<1>12. ASSUME Acks
       PROVE  Acks'
  <2>1. ASSUME NEW m \in net, m.kind = "Sack"
        PROVE  Sound(m)'
    <3>1. Sound(m) /\ Peer(m.to) \in End
      BY <1>0, <1>12, <2>1, PeerEnd, ZenonT(30) DEF Acks, TypeOK, Packet
    <3> QED
      BY <1>2, <1>7, <3>1, ZenonT(30) DEF Sound
  <2> QED
    BY <1>1, <2>1, ZenonT(30) DEF Acks
<1>13. ASSUME NEW g \in End, Queued(g)
       PROVE  Queued(g)'
  <2>1. CASE g # e
    BY <1>2, <1>3, <1>7, <1>13, <2>1, PeerEnd, SMTT(30) DEF Queued
  <2>2. CASE g = e
    <3>1. ASSUME st[e].mode = "Tcp", NEW seq \in 1..Len(written'[e])
          PROVE  Has(st'[e].write_queue, seq) \/ Received(Peer(e), seq)
      <4>1. CASE seq = n
        <5>1. sent \in st'[e].write_queue /\ sent.seq = n
          BY <1>2, ZenonT(30) DEF sent
        <5> QED
          BY <4>1, <5>1, ZenonT(30) DEF Has
      <4>2. CASE seq # n
        <5>1. seq \in 1..Len(written[e])
          BY <1>3, <1>4, <3>1, <4>2, SMTT(30)
        <5> QED
          BY <1>2, <1>13, <2>2, <3>1, <5>1, ZenonT(30) DEF Queued, Has
      <4> QED
        BY <4>1, <4>2, ZenonT(30)
    <3> QED
      BY <1>2, <1>7, <2>2, <3>1, PeerEnd, ZenonT(30) DEF Queued
  <2> QED
    BY <2>1, <2>2, SMTT(30)
<1> QED
  BY <1>1, <1>8, <1>9, <1>10, <1>11, <1>12, <1>13, SMTT(30) DEF Flow, End

LEMMA Prefix ==
  ASSUME NEW g \in Seq(Data), NEW w \in Seq(Data), Len(g) <= Len(w),
         \A i \in 1..Len(g) : g[i] = w[i]
  PROVE  g = SubSeq(w, 1, Len(g))
<1> DEFINE h == SubSeq(w, 1, Len(g))
<1>1. h \in Seq(Data) /\ Len(h) = Len(g)
  OBVIOUS
<1>2. \A i \in 1..Len(g) : h[i] = g[i]
  OBVIOUS
<1> HIDE DEF h
<1>3. g = h
  BY <1>1, <1>2, SMTT(30)
<1> QED
  BY <1>3 DEF h

LEMMA Concat ==
  ASSUME NEW g \in Seq(Data), NEW a \in Seq(Data)
  PROVE  /\ g \o a \in Seq(Data)
         /\ Len(g \o a) = Len(g) + Len(a)
         /\ \A i \in 1..Len(g) : (g \o a)[i] = g[i]
         /\ \A i \in 1..Len(a) : (g \o a)[Len(g) + i] = a[i]
BY SMTT(30)

\* The first k chunks of b, a, are taken and c is left.
LEMMA InLineTaken ==
  ASSUME NEW n, NEW g \in Seq(Data), NEW b \in Seq(Data), NEW w \in Seq(Data),
         InLine(n, g, b, w), NEW k \in 1..Len(b),
         NEW a \in Seq(Data), Len(a) = k, \A i \in 1..k : a[i] = b[i],
         NEW c \in Seq(Data), Len(c) = Len(b) - k,
         \A i \in 1..(Len(b) - k) : c[i] = b[k + i]
  PROVE  InLine(n, g \o a, c, w)
<1> DEFINE h == g \o a
<1>1. /\ n = Len(g) + Len(b) + 1 /\ n <= Len(w) + 1
      /\ Len(g) \in Nat /\ Len(b) \in Nat /\ Len(w) \in Nat
      /\ k \in Nat /\ k <= Len(b)
  BY SMTT(30) DEF InLine
<1>2. /\ Len(h) = Len(g) + k
      /\ \A i \in 1..Len(g) : h[i] = g[i]
      /\ \A i \in 1..k : h[Len(g) + i] = a[i]
  BY Concat, ZenonT(30)
<1> HIDE DEF h
<1>3. n = Len(h) + Len(c) + 1
  BY <1>1, <1>2
<1>4. ASSUME NEW i \in 1..Len(h)
      PROVE  h[i] = w[i]
  <2>1. CASE i \in 1..Len(g)
    BY <1>2, <2>1, ZenonT(30) DEF InLine
  <2>2. CASE i \notin 1..Len(g)
    <3>1. PICK j \in 1..k : i = Len(g) + j
      <4>1. i - Len(g) \in 1..k /\ i = Len(g) + (i - Len(g))
        BY <1>1, <1>2, <2>2, SMTT(30)
      <4> QED
        BY <4>1, ZenonT(30)
    <3>2. j \in 1..Len(b)
      BY <1>1, SMTT(30)
    <3>3. h[i] = b[j]
      BY <1>2, <3>1, SMTT(30)
    <3>4. b[j] = w[Len(g) + j]
      BY <3>2, Zenon DEF InLine
    <3> QED
      BY <3>1, <3>3, <3>4, SMTT(30)
  <2> QED
    BY <2>1, <2>2
<1>5. ASSUME NEW i \in 1..Len(c)
      PROVE  c[i] = w[Len(h) + i]
  <2>1. k + i \in 1..Len(b) /\ Len(g) + (k + i) = Len(h) + i /\ i \in 1..(Len(b) - k)
    BY <1>1, <1>2, SMTT(30)
  <2>2. c[i] = b[k + i]
    BY <2>1, ZenonT(30)
  <2>3. b[k + i] = w[Len(g) + (k + i)]
    BY <2>1, ZenonT(30) DEF InLine
  <2> QED
    BY <2>1, <2>2, <2>3, ZenonT(30)
<1>6. InLine(n, h, c, w)
  BY <1>1, <1>3, <1>4, <1>5, ZenonT(30) DEF InLine
<1> QED
  BY <1>6, SMTT(30) DEF h

\* poll_read hands over a part of read_buf.
LEMMA TakeFlow ==
  ASSUME Flow, TypeOK', NEW e \in End, PollRead(e),
         NEW k \in 1..Len(st[e].read_buf),
         got' = [got EXCEPT ![e] = @ \o SubSeq(st[e].read_buf, 1, k)],
         st' = [st EXCEPT ![e].read_buf = SubSeq(@, k + 1, Len(@))]
  PROVE  Flow'
<1> DEFINE a == SubSeq(st[e].read_buf, 1, k)
           b == SubSeq(st[e].read_buf, k + 1, Len(st[e].read_buf))
<1>0. /\ TypeOK /\ st \in [End -> StreamState] /\ st[e] \in StreamState
      /\ got \in [End -> Seq(Data)]
  BY Zenon DEF Flow, TypeOK
<1>1. /\ st' = [st EXCEPT ![e].read_buf = b]
      /\ got' = [got EXCEPT ![e] = got[e] \o a]
  BY ZenonT(30)
<1> HIDE DEF a, b
<1>2. /\ UNCHANGED <<net, streams, written>> /\ st[e].app = "open"
  BY ZenonT(30) DEF PollRead
<1>3. /\ st'[e].app = st[e].app /\ st'[e].running = st[e].running
      /\ st'[e].next_write_seq = st[e].next_write_seq
      /\ st'[e].next_read_seq = st[e].next_read_seq
      /\ st'[e].read_buffer = st[e].read_buffer
      /\ st'[e].read_buf = b
      /\ st'[e].write_queue = st[e].write_queue
      /\ st'[e].write_rx = st[e].write_rx
      /\ st'[e].mode = st[e].mode
      /\ \A g \in End : g # e => st'[g] = st[g]
  BY <1>0, <1>1, SMTT(30) DEF StreamState
<1>4. got'[e] = got[e] \o a /\ \A g \in End : g # e => got'[g] = got[g]
  BY <1>0, <1>1, ZenonT(30)
<1>5. \A g \in End : \A seq, d : Says(g, seq, d)' <=> Says(g, seq, d)
  BY <1>2, SMTT(30) DEF Says
<1>6. \A g \in End : \A seq : Received(g, seq)' <=> Received(g, seq)
  BY <1>3, SMTT(30) DEF Received, Has
<1>7. Fresh'
  <2>1. CASE e = "acc"
    BY <1>2, <2>1, SMTT(30) DEF Flow, Fresh
  <2>2. CASE e # "acc"
    <3>1. st'["acc"] = st["acc"] /\ got'["acc"] = got["acc"]
      BY <1>3, <1>4, <2>2, SMTT(30) DEF End
    <3> QED
      BY <1>2, <3>1, ZenonT(30) DEF Flow, Fresh
  <2> QED
    BY <2>1, <2>2, SMTT(30)
<1>8. ASSUME NEW g \in End
      PROVE  Sender(g)'
  <2>1. /\ Sender(g) /\ written'[g] = written[g]
        /\ st'[g].next_write_seq = st[g].next_write_seq
        /\ st'[g].write_queue = st[g].write_queue
        /\ st'[g].write_rx = st[g].write_rx
    BY <1>2, <1>3 DEF Flow
  <2> QED
    BY <2>1, ZenonT(30) DEF Sender, Sendable, Says
<1>9. ASSUME NEW g \in End, Wire(g)
      PROVE  Wire(g)'
  BY <1>2, <1>5, <1>9, PeerEnd, SMTT(30) DEF Wire
<1>10. ASSUME NEW g \in End, Reader(g)
       PROVE  Reader(g)'
  <2>1. \A p \in st'[g].read_buffer :
          Says(Peer(g), p.seq, p.data)' /\ p.seq >= st'[g].next_read_seq
    <3>1. /\ st'[g].read_buffer = st[g].read_buffer
          /\ st'[g].next_read_seq = st[g].next_read_seq
      BY <1>3, SMTT(30)
    <3> QED
      BY <1>5, <1>10, <3>1, PeerEnd, SMTT(30) DEF Reader
  <2>2. InLine(st[g].next_read_seq, got[g], st[g].read_buf, written[Peer(g)])
    BY <1>10, SMTT(30) DEF Reader
  <2>3. InLine(st'[g].next_read_seq, got'[g], st'[g].read_buf, written[Peer(g)])
    <3>1. CASE g # e
      BY <1>3, <1>4, <2>2, <3>1, SMTT(30)
    <3>2. CASE g = e
      <4>1. /\ got[e] \in Seq(Data) /\ st[e].read_buf \in Seq(Data)
            /\ written[Peer(e)] \in Seq(Data)
        BY <1>0, PeerEnd, SMTT(30) DEF TypeOK, StreamState
      <4>2. LET q == st[e].read_buf
            IN /\ a \in Seq(Data) /\ Len(a) = k
               /\ b \in Seq(Data) /\ Len(b) = Len(q) - k
               /\ \A i \in 1..k : a[i] = q[i]
               /\ \A i \in 1..(Len(q) - k) : b[i] = q[k + i]
        BY <4>1, Split, ZenonT(30) DEF a, b
      <4>3. InLine(st[e].next_read_seq, got[e] \o a, b, written[Peer(e)])
        BY <2>2, <3>2, <4>1, <4>2, InLineTaken, ZenonT(30)
      <4> QED
        BY <1>3, <1>4, <3>2, <4>3, ZenonT(30)
    <3> QED
      BY <3>1, <3>2, SMTT(30)
  <2> QED
    BY <1>2, <2>1, <2>3, SMTT(30) DEF Reader
<1>11. ASSUME Acks
       PROVE  Acks'
  <2>1. ASSUME NEW m \in net, m.kind = "Sack"
        PROVE  Sound(m)'
    <3>1. Sound(m) /\ Peer(m.to) \in End
      BY <1>0, <1>11, <2>1, PeerEnd, Zenon DEF Acks, TypeOK, Packet
    <3> QED
      BY <1>3, <1>6, <3>1 DEF Sound
  <2> QED
    BY <1>2, <2>1 DEF Acks
<1>12. ASSUME NEW g \in End, Queued(g)
       PROVE  Queued(g)'
  <2>1. st'[g].mode = st[g].mode /\ st'[g].write_queue = st[g].write_queue
    BY <1>3, SMTT(30)
  <2> QED
    BY <1>2, <1>6, <1>12, <2>1, PeerEnd, ZenonT(30) DEF Queued
<1> QED
  BY <1>2, <1>7, <1>8, <1>9, <1>10, <1>11, <1>12, SMTT(30) DEF Flow, End

LEMMA InLinePushed ==
  ASSUME NEW a \in Nat, NEW g \in Seq(Data), NEW b \in Seq(Data),
         NEW w \in Seq(Data), InLine(a, g, b, w),
         NEW n \in Nat, NEW q \in Seq(Data), n = a + Len(q), n <= Len(w) + 1,
         \A i \in 1..Len(q) : q[i] = w[a + i - 1]
  PROVE  InLine(n, g, b \o q, w)
<1> DEFINE h == b \o q
<1>1. /\ a = Len(g) + Len(b) + 1
      /\ Len(g) \in Nat /\ Len(b) \in Nat /\ Len(q) \in Nat
  BY SMTT(30) DEF InLine
<1>2. /\ Len(h) = Len(b) + Len(q)
      /\ \A i \in 1..Len(b) : h[i] = b[i]
      /\ \A i \in 1..Len(q) : h[Len(b) + i] = q[i]
  BY Concat, ZenonT(30)
<1> HIDE DEF h
<1>3. n = Len(g) + Len(h) + 1
  BY <1>1, <1>2, SMTT(30)
<1>4. ASSUME NEW i \in 1..Len(h)
      PROVE  h[i] = w[Len(g) + i]
  <2>1. CASE i \in 1..Len(b)
    BY <1>2, <2>1, ZenonT(30) DEF InLine
  <2>2. CASE i \notin 1..Len(b)
    <3>1. PICK j \in 1..Len(q) : i = Len(b) + j
      <4>1. i - Len(b) \in 1..Len(q) /\ i = Len(b) + (i - Len(b))
        BY <1>1, <1>2, <2>2, SMTT(30)
      <4> QED
        BY <4>1, ZenonT(30)
    <3>2. a + j - 1 = Len(g) + i
      BY <1>1, <3>1, SMTT(30)
    <3>3. h[i] = q[j]
      BY <1>2, <3>1, ZenonT(30)
    <3> QED
      BY <3>2, <3>3, ZenonT(30)
  <2> QED
    BY <2>1, <2>2, ZenonT(30)
<1>5. InLine(n, g, h, w)
  BY <1>3, <1>4, SMTT(30) DEF InLine
<1> QED
  BY <1>5, SMTT(30) DEF h

\* The sending side of an end.
SameSender(s, r) ==
  /\ s.app = r.app /\ s.running = r.running /\ s.mode = r.mode
  /\ s.next_write_seq = r.next_write_seq
  /\ s.write_queue = r.write_queue /\ s.write_rx = r.write_rx

\* push_data moves the contiguous run of buf, which ends before n, to the
\* reader.
LEMMA Pushed ==
  ASSUME NEW r \in StreamState, NEW buf \in SUBSET Chunk, NEW n \in Seqs
  PROVE  /\ SameSender(PushData(r, buf, n), r)
         /\ PushData(r, buf, n).next_read_seq = n
         /\ PushData(r, buf, n).read_buffer = {p \in buf : p.seq >= n}
<1> DEFINE kept == {p \in buf : p.seq >= n}
           b == r.read_buf \o [i \in 1..(n - r.next_read_seq) |->
                                 DataAt(buf, r.next_read_seq + i - 1)]
           s == PushData(r, buf, n)
<1>1. s = [r EXCEPT !.read_buffer = kept, !.next_read_seq = n,
                    !.read_buf = b, !.read_waker = FALSE]
  BY ZenonT(30) DEF PushData
<1> HIDE DEF kept, b, s
<1>2. SameSender(s, r) /\ s.next_read_seq = n /\ s.read_buffer = kept
  BY <1>1, SMTT(30) DEF StreamState, SameSender
<1> QED
  BY <1>2, ZenonT(30) DEF kept, s

LEMMA PushedData ==
  ASSUME NEW r \in StreamState, NEW buf \in SUBSET Chunk, NEW n \in Seqs,
         n >= r.next_read_seq,
         \A k \in r.next_read_seq..(n - 1) : Has(buf, k)
  PROVE  \E q \in Seq(Data) :
           /\ PushData(r, buf, n).read_buf = r.read_buf \o q
           /\ Len(q) = n - r.next_read_seq
           /\ \A i \in 1..(n - r.next_read_seq) :
                \E p \in buf : p.seq = r.next_read_seq + i - 1 /\ q[i] = p.data
<1> DEFINE a == r.next_read_seq
           q == [i \in 1..(n - a) |-> DataAt(buf, a + i - 1)]
<1>1. a \in Seqs
  BY SMTT(30) DEF StreamState
<1> DEFINE kept == {p \in buf : p.seq >= n}
           s == PushData(r, buf, n)
<1>2. s.read_buf = r.read_buf \o q
  <2>1. s = [r EXCEPT !.read_buffer = kept, !.next_read_seq = n,
                      !.read_buf = r.read_buf \o q, !.read_waker = FALSE]
    BY Zenon DEF PushData
  <2> HIDE DEF kept, q, s
  <2> QED
    BY <2>1 DEF StreamState
<1> HIDE DEF s
<1>3. /\ q \in Seq(Data)
      /\ n >= a => Len(q) = n - a
      /\ \A i \in 1..(n - a) : \E p \in buf : p.seq = a + i - 1 /\ q[i] = p.data
  BY <1>1, Drained, ZenonT(30)
<1> HIDE DEF q
<1>4. \E x \in Seq(Data) :
        /\ s.read_buf = r.read_buf \o x
        /\ Len(x) = n - a
        /\ \A i \in 1..(n - a) : \E p \in buf : p.seq = a + i - 1 /\ x[i] = p.data
  BY <1>2, <1>3, Zenon
<1> QED
  BY <1>4, ZenonT(30) DEF s

\* The reader stays in line.
LEMMA PushedReader ==
  ASSUME NEW r \in StreamState, NEW buf \in SUBSET Chunk, NEW n \in Seqs,
         n \in {r.next_read_seq} \cup {p.seq + 1 : p \in buf},
         \A k \in r.next_read_seq..(n - 1) : Has(buf, k),
         NEW g \in Seq(Data), NEW w \in Seq(Data),
         InLine(r.next_read_seq, g, r.read_buf, w),
         \A p \in buf : /\ p.seq >= r.next_read_seq
                        /\ p.seq \in 1..Len(w) /\ p.data = w[p.seq]
  PROVE  /\ n >= r.next_read_seq
         /\ InLine(n, g, PushData(r, buf, n).read_buf, w)
<1> DEFINE a == r.next_read_seq
<1>0. a \in Seqs /\ r.read_buf \in Seq(Data) /\ Len(w) \in Nat
  BY DEF StreamState
<1>1. n >= a /\ n <= Len(w) + 1
  <2>1. CASE n = a
    BY <1>0, <2>1, SMTT(30) DEF InLine, Seqs
  <2>2. ASSUME NEW p \in buf, n = p.seq + 1
        PROVE  n >= a /\ n <= Len(w) + 1
    <3>1. p.seq \in 1..Len(w) /\ p.seq >= a
      BY SMTT(30)
    <3> HIDE DEF a
    <3> QED
      BY <1>0, <2>2, <3>1, SMTT(30) DEF Seqs
  <2> QED
    BY <2>1, <2>2, Zenon
<1>2. PICK q \in Seq(Data) :
        /\ PushData(r, buf, n).read_buf = r.read_buf \o q
        /\ Len(q) = n - a
        /\ \A i \in 1..(n - a) : \E p \in buf : p.seq = a + i - 1 /\ q[i] = p.data
  BY <1>1, PushedData, ZenonT(30)
<1>3. ASSUME NEW i \in 1..Len(q)
      PROVE  q[i] = w[a + i - 1]
  <2>1. PICK p \in buf : p.seq = a + i - 1 /\ q[i] = p.data
    BY <1>2, ZenonT(30)
  <2> QED
    BY <2>1, Zenon
<1>4. n = a + Len(q) /\ n \in Nat /\ a \in Nat
  BY <1>0, <1>2, SMTT(30) DEF Seqs
<1>5. InLine(n, g, r.read_buf \o q, w)
  BY <1>0, <1>1, <1>3, <1>4, InLinePushed, ZenonT(30)
<1> QED
  BY <1>1, <1>2, <1>5, Zenon


\* handle_incoming takes a new chunk.
LEMMA NewChunkFlow ==
  ASSUME Flow, TypeOK', NEW e \in End, NEW m \in net, OnStreamNew(e, m)
  PROVE  Flow'
<1>0. /\ TypeOK /\ st \in [End -> StreamState] /\ st[e] \in StreamState
      /\ net \subseteq Packet /\ Peer(e) \in End
  BY PeerEnd, SMTT(30) DEF Flow, TypeOK
<1>1. /\ m.kind = "Stream" /\ m.to = e /\ st[e].running
      /\ ~Duplicate(st[e], m.seq) /\ UNCHANGED <<streams, written, got>>
  BY Zenon DEF OnStreamNew, Incoming
<1>2. PICK buf \in SUBSET Chunk, n \in Seqs :
        /\ buf = st[e].read_buffer \cup {[seq |-> m.seq, data |-> m.data]}
        /\ n \in {st[e].next_read_seq} \cup {p.seq + 1 : p \in buf}
        /\ \A k \in st[e].next_read_seq..(n - 1) : Has(buf, k)
        /\ st' = [st EXCEPT ![e] = PushData(st[e], buf, n)]
        /\ \A x \in net' : \/ x \in net
                           \/ x.kind = "Nack"
                           \/ x = BuildAck(Peer(e), PushData(st[e], buf, n))
  BY <1>0, NewChunk, ZenonT(30)
<1>3. /\ st'[e] = PushData(st[e], buf, n)
      /\ \A g \in End : g # e => st'[g] = st[g]
  BY <1>0, <1>2, ZenonT(30)
<1>4. /\ SameSender(st'[e], st[e])
      /\ st'[e].next_read_seq = n
      /\ st'[e].read_buffer = {p \in buf : p.seq >= n}
  BY <1>0, <1>3, Pushed, SMTT(30)
<1>5. \A g \in End : \A seq, d : Says(g, seq, d)' <=> Says(g, seq, d)
  BY <1>1, SMTT(30) DEF Says
<1>6. Fresh'
  <2>1. CASE e = "acc"
    BY <1>1, <2>1, ZenonT(30) DEF Flow, Fresh
  <2>2. CASE e # "acc"
    <3>1. st'["acc"] = st["acc"]
      BY <1>3, <2>2, ZenonT(30) DEF End
    <3> QED
      BY <1>1, <3>1, ZenonT(30) DEF Flow, Fresh
  <2> QED
    BY <2>1, <2>2, Zenon
<1>7. ASSUME NEW g \in End
      PROVE  /\ st'[g].mode = st[g].mode
             /\ st'[g].next_write_seq = st[g].next_write_seq
             /\ st'[g].write_queue = st[g].write_queue
             /\ st'[g].write_rx = st[g].write_rx
  BY <1>3, <1>4, SMTT(30) DEF SameSender
<1>8. ASSUME NEW g \in End
      PROVE  Sender(g)'
  <2>1. Sender(g) /\ written'[g] = written[g]
    BY <1>1, SMTT(30) DEF Flow
  <2> QED
    BY <1>7, <2>1, ZenonT(30) DEF Sender, Sendable, Says
<1>9. \A x \in net' : x.kind = "Stream" => x \in net
  <2>1. BuildAck(Peer(e), PushData(st[e], buf, n)).kind = "Sack"
    <3>1. st'[e] \in StreamState
      BY DEF TypeOK
    <3> QED
      BY <1>0, <1>3, <3>1, BuildAckType, SMTT(30)
  <2> QED
    BY <1>2, <2>1, ZenonT(30)
<1>10. ASSUME NEW g \in End, Wire(g)
       PROVE  Wire(g)'
  BY <1>5, <1>9, <1>10, PeerEnd, ZenonT(30) DEF Wire
<1>11. ASSUME Reader(e), Wire(e)
       PROVE  /\ n >= st[e].next_read_seq
              /\ \A p \in buf : Says(Peer(e), p.seq, p.data)
              /\ InLine(n, got[e], st'[e].read_buf, written[Peer(e)])
  <2>1. Says(Peer(e), m.seq, m.data)
    BY <1>1, <1>11, ZenonT(30) DEF Wire
  <2>2. ASSUME NEW p \in buf
        PROVE  Says(Peer(e), p.seq, p.data) /\ p.seq >= st[e].next_read_seq
    <3>1. CASE p \in st[e].read_buffer
      BY <1>11, <3>1, ZenonT(30) DEF Reader
    <3>2. CASE p = [seq |-> m.seq, data |-> m.data]
      <4>1. p.seq = m.seq /\ p.data = m.data
        BY <3>2, ZenonT(30)
      <4>2. m.seq \in Nat /\ st[e].next_read_seq \in Nat
        BY <1>0, <2>1, SMTT(30) DEF StreamState, Seqs, Says
      <4>3. m.seq >= st[e].next_read_seq
        BY <1>1, <4>2, SMTT(30) DEF Duplicate
      <4> QED
        BY <2>1, <4>1, <4>3, ZenonT(30)
    <3> QED
      BY <1>2, <3>1, <3>2, ZenonT(30)
  <2>3. \A p \in buf : /\ p.seq >= st[e].next_read_seq
                       /\ p.seq \in 1..Len(written[Peer(e)])
                       /\ p.data = written[Peer(e)][p.seq]
    BY <2>2, ZenonT(30) DEF Says
  <2>4. /\ InLine(st[e].next_read_seq, got[e], st[e].read_buf, written[Peer(e)])
        /\ got[e] \in Seq(Data) /\ written[Peer(e)] \in Seq(Data)
    BY <1>0, <1>11, ZenonT(30) DEF Reader, TypeOK
  <2>5. /\ n \in {st[e].next_read_seq} \cup {p.seq + 1 : p \in buf}
        /\ \A k \in st[e].next_read_seq..(n - 1) : Has(buf, k)
    BY <1>2, ZenonT(30)
  <2>6. /\ n >= st[e].next_read_seq
        /\ InLine(n, got[e], PushData(st[e], buf, n).read_buf, written[Peer(e)])
    BY <1>0, <2>3, <2>4, <2>5, PushedReader, ZenonT(30)
  <2> QED
    BY <1>3, <2>2, <2>6, ZenonT(30)
<1>12. ASSUME Reader(e), Wire(e)
       PROVE  Reader(e)'
  <2>1. \A p \in st'[e].read_buffer :
          Says(Peer(e), p.seq, p.data)' /\ p.seq >= st'[e].next_read_seq
    BY <1>0, <1>4, <1>5, <1>11, <1>12, ZenonT(30)
  <2>2. InLine(st'[e].next_read_seq, got'[e], st'[e].read_buf, written'[Peer(e)])
    BY <1>1, <1>4, <1>11, <1>12, ZenonT(30)
  <2> QED
    BY <2>1, <2>2, ZenonT(30) DEF Reader
<1>13. ASSUME NEW g \in End, g # e, Reader(g)
       PROVE  Reader(g)'
  <2>1. st'[g] = st[g] /\ got'[g] = got[g] /\ written' = written
    BY <1>1, <1>3, <1>13, ZenonT(30)
  <2> QED
    BY <1>13, <2>1, ZenonT(30) DEF Reader, Says
<1>14. ASSUME Reader(e), Wire(e), NEW g \in End, NEW seq \in Nat, Received(g, seq)
       PROVE  Received(g, seq)'
  <2>1. CASE g # e
    BY <1>3, <1>14, <2>1, ZenonT(30) DEF Received
  <2>2. CASE g = e
    <3>0. n \in Nat /\ st[e].next_read_seq \in Nat
      BY <1>0, ZenonT(30) DEF StreamState, Seqs
    <3>1. CASE seq < st[e].next_read_seq
      <4>1. n >= st[e].next_read_seq
        BY <1>11, <1>14, ZenonT(30)
      <4>2. seq < n
        BY <3>0, <3>1, <4>1, SMTT(30)
      <4> QED
        BY <1>4, <2>2, <4>2, ZenonT(30) DEF Received
    <3>2. ASSUME NEW p \in st[e].read_buffer, p.seq = seq
          PROVE  Received(g, seq)'
      <4>1. p \in buf
        BY <1>2, ZenonT(30)
      <4>2. CASE seq < n
        BY <1>4, <2>2, <4>2, ZenonT(30) DEF Received
      <4>3. CASE seq >= n
        <5>1. p \in st'[e].read_buffer
          BY <1>4, <3>2, <4>1, <4>3, ZenonT(30)
        <5> QED
          BY <2>2, <3>2, <5>1, ZenonT(30) DEF Received, Has
      <4> QED
        BY <3>0, <4>2, <4>3, SMTT(30)
    <3> QED
      BY <1>14, <2>2, <3>1, <3>2, ZenonT(30) DEF Received, Has
  <2> QED
    BY <2>1, <2>2, ZenonT(30)
<1>15. ASSUME Reader(e), Wire(e), Acks
       PROVE  Acks'
  <2>1. ASSUME NEW x \in net, x.kind = "Sack"
        PROVE  Sound(x)'
    <3>1. Sound(x) /\ Peer(x.to) \in End /\ x.ack \in Nat /\ x.bits \subseteq Nat
      BY <1>0, <1>15, <2>1, PeerEnd, ZenonT(30) DEF Acks, Packet
    <3>2. \A i \in x.bits : Received(Peer(x.to), x.ack + 1 + i)'
      BY <1>14, <1>15, <3>1, SMTT(30) DEF Sound
    <3>3. x.ack < st'[Peer(x.to)].next_read_seq
      <4>1. CASE Peer(x.to) # e
        BY <1>3, <3>1, <4>1, ZenonT(30) DEF Sound
      <4>2. CASE Peer(x.to) = e
        <5>1. x.ack < st[e].next_read_seq /\ st[e].next_read_seq \in Nat /\ n \in Nat
          BY <1>0, <3>1, <4>2, SMTT(30) DEF Sound, StreamState, Seqs
        <5>2. st'[Peer(x.to)].next_read_seq = n /\ n >= st[e].next_read_seq
          BY <1>4, <1>11, <1>15, <4>2, ZenonT(30)
        <5> QED
          BY <3>1, <5>1, <5>2, SMTT(30)
      <4> QED
        BY <4>1, <4>2, ZenonT(30)
    <3> QED
      BY <3>2, <3>3, ZenonT(30) DEF Sound
  <2>2. ASSUME NEW x, x = BuildAck(Peer(e), PushData(st[e], buf, n))
        PROVE  Sound(x)'
    <3>1. st'[e] \in StreamState /\ x = BuildAck(Peer(e), st'[e])
      BY <1>3, <2>2, ZenonT(30) DEF TypeOK
    <3>2. /\ Peer(x.to) = e /\ x.ack < st'[e].next_read_seq
          /\ \A i \in x.bits : Has(st'[e].read_buffer, x.ack + 1 + i)
      BY <3>1, AckSays, ZenonT(30)
    <3> QED
      BY <3>2, ZenonT(30) DEF Sound, Received
  <2> QED
    BY <1>2, <2>1, <2>2, ZenonT(30) DEF Acks
<1>16. ASSUME Reader(e), Wire(e), NEW g \in End, Queued(g)
       PROVE  Queued(g)'
  <2>1. ASSUME st[g].mode = "Tcp", NEW seq \in 1..Len(written[g])
        PROVE  Has(st[g].write_queue, seq) \/ Received(Peer(g), seq)'
    <3>1. seq \in Nat /\ Peer(g) \in End
      BY PeerEnd, SMTT(30)
    <3> QED
      BY <1>14, <1>16, <2>1, <3>1, ZenonT(30) DEF Queued
  <2> QED
    BY <1>1, <1>7, <2>1, ZenonT(30) DEF Queued
<1>17. Reader("acc")' /\ Wire("acc")'
  <2>1. Reader("acc") /\ Wire("acc")
    BY Zenon DEF Flow
  <2> QED
    BY <1>10, <1>12, <1>13, <2>1, ZenonT(30) DEF End
<1>18. ASSUME streams <= 1
       PROVE  Wire("conn")' /\ Reader("conn")' /\ Acks' /\ \A g \in End : Queued(g)'
  <2>1. /\ \A g \in End : Reader(g) /\ Wire(g)
        /\ Acks /\ \A g \in End : Queued(g)
    BY <1>18, ZenonT(30) DEF Flow, End
  <2> QED
    BY <1>10, <1>12, <1>13, <1>15, <1>16, <2>1, ZenonT(30) DEF End
<1> QED
  BY <1>1, <1>6, <1>8, <1>17, <1>18, ZenonT(30) DEF Flow

\* The listener creates a stream: the first finds nothing to forget.
LEMMA OpenFlow ==
  ASSUME Flow, TypeOK', NEW m \in net, ListenerOpen(m)
  PROVE  Flow'
<1>0. /\ TypeOK /\ st \in [End -> StreamState]
      /\ written \in [End -> Seq(Data)] /\ got \in [End -> Seq(Data)]
      /\ Peer("acc") = "conn" /\ Peer("conn") = "acc" /\ streams \in Nat
  BY DEF Flow, TypeOK, Peer
<1>1. /\ st' = [st EXCEPT !["acc"] = NewStream("open")]
      /\ written' = [written EXCEPT !["acc"] = <<>>]
      /\ got' = [got EXCEPT !["acc"] = <<>>]
      /\ streams' = streams + 1 /\ net' = net
  BY Zenon DEF ListenerOpen
<1>2. /\ st'["conn"] = st["conn"] /\ written'["conn"] = written["conn"]
      /\ got'["conn"] = got["conn"]
      /\ st'["acc"] = NewStream("open") /\ written'["acc"] = <<>>
      /\ got'["acc"] = <<>>
  BY <1>0, <1>1, ZenonT(30) DEF End
<1>3. /\ st'["acc"].next_write_seq = 1 /\ st'["acc"].next_read_seq = 1
      /\ st'["acc"].write_queue = {} /\ st'["acc"].write_rx = <<>>
      /\ st'["acc"].read_buffer = {} /\ st'["acc"].read_buf = <<>>
  BY <1>2, SMTT(30) DEF NewStream
<1>4. Fresh'
  BY <1>0, <1>1, SMTT(30) DEF Fresh
<1>5. Sender("conn")'
  <2>1. Sender("conn")
    BY ZenonT(30) DEF Flow, End
  <2> QED
    BY <1>2, <2>1, ZenonT(30) DEF Sender, Sendable, Says
<1>6. Sender("acc")'
  BY <1>2, <1>3, SMTT(30) DEF Sender
<1>7. Wire("acc")'
  <2>1. Wire("acc")
    BY SMTT(30) DEF Flow
  <2> QED
    BY <1>0, <1>1, <1>2, <2>1, SMTT(30) DEF Wire, Says
<1>8. Reader("acc")'
  <2>1. InLine(1, <<>>, <<>>, written["conn"])
    BY <1>0 DEF InLine, End
  <2> QED
    BY <1>0, <1>2, <1>3, <2>1, ZenonT(30) DEF Reader
<1>9. ASSUME streams' <= 1
      PROVE  Wire("conn")' /\ Reader("conn")' /\ Acks' /\ \A e \in End : Queued(e)'
  <2>0. streams = 0
    BY <1>0, <1>1, <1>9, SMTT(30)
  <2>1. /\ written["acc"] = <<>> /\ st["acc"].next_read_seq = 1
        /\ st["acc"].read_buffer = {}
    BY <2>0, SMTT(30) DEF Flow, Fresh
  <2>2. /\ Wire("conn") /\ Reader("conn") /\ Acks /\ Queued("conn")
    BY <2>0, SMTT(30) DEF Flow, End
  <2>3. \A e \in End : written'[e] = written[e]
    BY <1>2, <2>1, ZenonT(30) DEF End
  <2>4. ASSUME NEW e \in End, NEW seq
        PROVE  Received(e, seq)' <=> Received(e, seq)
    BY <1>2, <1>3, <2>1, ZenonT(30) DEF Received, Has, End
  <2>5. Wire("conn")'
    BY <1>0, <1>1, <2>2, <2>3, ZenonT(30) DEF Wire, Says, End
  <2>6. Reader("conn")'
    BY <1>0, <1>2, <2>2, <2>3, SMTT(30) DEF Reader, Says, End
  <2>7. Acks'
    <3>1. ASSUME NEW x \in net, x.kind = "Sack"
          PROVE  Sound(x)'
      <4>1. Sound(x) /\ Peer(x.to) \in End
        BY <1>0, <2>2, <3>1, PeerEnd, ZenonT(30) DEF Acks, TypeOK, Packet
      <4>2. st'[Peer(x.to)].next_read_seq = st[Peer(x.to)].next_read_seq
        BY <1>2, <1>3, <2>1, <4>1, ZenonT(30) DEF End
      <4> QED
        BY <2>4, <4>1, <4>2, ZenonT(30) DEF Sound
    <3> QED
      BY <1>1, <3>1, SMTT(30) DEF Acks
  <2>8. Queued("conn")'
    BY <1>0, <1>2, <2>2, <2>4, ZenonT(30) DEF Queued, End
  <2>9. Queued("acc")'
    BY <1>2, SMTT(30) DEF Queued
  <2> QED
    BY <2>5, <2>6, <2>7, <2>8, <2>9, ZenonT(30) DEF End
<1> QED
  BY <1>4, <1>5, <1>6, <1>7, <1>8, <1>9, ZenonT(30) DEF Flow, End

LEMMA InitFlow ==
  ASSUME Init
  PROVE  Flow
<1>1. /\ streams = 0 /\ net = {}
      /\ \A e \in End : written[e] = <<>> /\ got[e] = <<>>
      /\ \A e \in End : /\ st[e].next_write_seq = 1 /\ st[e].next_read_seq = 1
                        /\ st[e].write_queue = {} /\ st[e].write_rx = <<>>
                        /\ st[e].read_buffer = {} /\ st[e].read_buf = <<>>
  BY SMTT(30) DEF Init, NewStream
<1>2. st["acc"].app = "none" /\ ~st["acc"].running
  BY ZenonT(30) DEF Init, NewStream, End
<1>3. Fresh
  BY <1>1, <1>2, ZenonT(30) DEF Fresh, End
<1>4. \A e \in End : Sender(e)
  BY <1>1, SMTT(30) DEF Sender
<1>5. InLine(1, <<>>, <<>>, <<>>)
  BY DEF InLine
<1>6. \A e \in End : Wire(e) /\ Reader(e)
  BY <1>1, <1>5, PeerEnd, ZenonT(30) DEF Wire, Reader
<1>7. Acks /\ \A e \in End : Queued(e)
  BY <1>1, SMTT(30) DEF Acks, Queued
<1> QED
  BY <1>3, <1>4, <1>6, <1>7, InitType, ZenonT(30) DEF Flow, End

LEMMA NextFlow ==
  ASSUME Flow, [Next]_vars
  PROVE  Flow'
<1>0. TypeOK /\ TypeOK'
  BY NextType, SMTT(30) DEF Flow
<1>1. ASSUME NEW e \in End, App(e)
      PROVE  Flow'
  <2>1. ASSUME NEW d \in Data, PollWrite(e, d)
        PROVE  Flow'
    <3>1. CASE ~UNCHANGED written
      BY <1>0, <2>1, <3>1, AcceptFlow, ZenonT(30)
    <3>2. CASE UNCHANGED written
      <4>1. /\ st' = [st EXCEPT ![e].write_waker = TRUE]
            /\ UNCHANGED <<net, streams, written, got>>
        <5>1. written[e] \in Seq(Data)
          BY <1>0, SMTT(30) DEF TypeOK
        <5>2. Append(written[e], d) # written[e]
          BY <5>1, SMTT(30)
        <5>3. written' # [written EXCEPT ![e] = Append(@, d)]
          BY <1>0, <3>2, <5>2, SMTT(30) DEF TypeOK
        <5> QED
          BY <2>1, <3>2, <5>3, ZenonT(30) DEF PollWrite
      <4> QED
        BY <1>0, <4>1, FlagsCalm, CalmKeeps, ZenonT(30)
    <3> QED
      BY <3>1, <3>2, ZenonT(30)
  <2>2. CASE PollRead(e)
    <3>1. ASSUME NEW k \in 1..Len(st[e].read_buf),
                 got' = [got EXCEPT ![e] = @ \o SubSeq(st[e].read_buf, 1, k)],
                 st' = [st EXCEPT ![e].read_buf = SubSeq(@, k + 1, Len(@))]
          PROVE  Flow'
      BY <1>0, <2>2, <3>1, TakeFlow, ZenonT(30)
    <3>2. ASSUME \/ st' = [st EXCEPT ![e].read_waker = TRUE]
                 \/ st' = [st EXCEPT ![e].eof = TRUE],
                 UNCHANGED got
          PROVE  Flow'
      <4>1. UNCHANGED <<net, streams, written, got>>
        BY <2>2, <3>2, SMTT(30) DEF PollRead
      <4> QED
        BY <1>0, <3>2, <4>1, FlagsCalm, CalmKeeps, ZenonT(30)
    <3> QED
      BY <2>2, <3>1, <3>2, ZenonT(30) DEF PollRead
  <2>3. CASE PollShutdown(e)
    BY <1>0, <2>3, ShutdownCalm, CalmKeeps, SMTT(30)
  <2>4. CASE SetUdpNackMode(e) \/ DropStream(e)
    BY <1>0, <2>4, FlagsCalm, CalmKeeps, ZenonT(30)
  <2> QED
    BY <1>1, <2>1, <2>2, <2>3, <2>4, ZenonT(30) DEF App
<1>2. ASSUME NEW e \in End, NEW m \in net, HandleIncoming(e, m)
      PROVE  Flow'
  BY <1>0, <1>2, AnswerCalm, AckCalm, CalmKeeps, NewChunkFlow, SMTT(30)
     DEF HandleIncoming
<1>3. ASSUME NEW e \in End, HandleTick(e) \/ WriteNext(e) \/ Elapse(e) \/ TaskStop(e)
      PROVE  Flow'
  BY <1>0, <1>3, ClockCalm, WriteNextCalm, FlagsCalm, CalmKeeps, SMTT(30) DEF HandleTick
<1>4. CASE ConnectDone \/ ConnectFail \/ SocketError
  <2>1. "conn" \in End
    BY DEF End
  <2> QED
    BY <1>0, <1>4, <2>1, FlagsCalm, CalmKeeps, ZenonT(30)
<1>5. CASE ConnectSend \/ (\E m \in net : ListenerReject(m)) \/ UNCHANGED vars
  BY <1>0, <1>5, RejectCalm, CalmKeeps, SMTT(30)
<1>6. ASSUME NEW m \in net, ListenerOpen(m)
      PROVE  Flow'
  BY <1>0, <1>6, OpenFlow, SMTT(30)
<1> QED
  BY <1>1, <1>2, <1>3, <1>4, <1>5, <1>6, ZenonT(30) DEF Next

LEMMA FlowInvariant == Spec => []Flow
BY InitFlow, NextFlow, PTL DEF Spec

\* Whatever the network loses, repeats and reorders, an end reads what the other
\* wrote, in order and once, for every capacity and any traffic.
THEOREM InOrderHolds == Spec => []InOrder
<1>1. ASSUME Flow
      PROVE  InOrder
  <2>1. ASSUME NEW e \in End, e = "acc" \/ streams <= 1
        PROVE  /\ Len(got[e]) <= Len(written[Peer(e)])
               /\ \A i \in 1..Len(got[e]) : got[e][i] = written[Peer(e)][i]
    <3>1. Reader(e)
      BY <1>1, <2>1, ZenonT(30) DEF Flow, End
    <3>2. /\ got[e] \in Seq(Data) /\ st[e].read_buf \in Seq(Data)
          /\ written[Peer(e)] \in Seq(Data)
      BY <1>1, PeerEnd, ZenonT(30) DEF Flow, TypeOK, StreamState
    <3>3. InLine(st[e].next_read_seq, got[e], st[e].read_buf, written[Peer(e)])
      BY <3>1, ZenonT(30) DEF Reader
    <3>4. Len(got[e]) <= Len(written[Peer(e)])
      BY <3>2, <3>3, InLineShort, ZenonT(30)
    <3> QED
      BY <3>3, <3>4, ZenonT(30) DEF InLine
  <2> QED
    BY <2>1, ZenonT(30) DEF InOrder
<1> QED
  BY <1>1, FlowInvariant, PTL

\* A sender in Tcp mode forgets only what the receiver has, for every window of
\* the selective acknowledgement.
THEOREM AckedIsReceivedHolds == Spec => []AckedIsReceived
<1>1. ASSUME Flow
      PROVE  AckedIsReceived
  BY <1>1, ZenonT(30) DEF Flow, Queued, AckedIsReceived
<1> QED
  BY <1>1, FlowInvariant, PTL

-----------------------------------------------------------------------------
(* The transport implements a reliable stream *)

LEMMA StreamStep ==
  ASSUME Flow, Flow', streams' <= 1, [Next]_vars
  PROVE  Stream!Next \/ UNCHANGED <<written, got>>
<1>0. TypeOK /\ Stream!Ends = End /\ \A e \in End : Stream!Other(e) = Peer(e)
  BY DEF Flow, Stream!Ends, End, Stream!Other, Peer
<1>1. ASSUME NEW e \in End, NEW d \in Data, PollWrite(e, d)
      PROVE  Stream!Next \/ UNCHANGED <<written, got>>
  <2>1. CASE UNCHANGED written
    BY <1>1, <2>1, ZenonT(30) DEF PollWrite
  <2>2. CASE ~UNCHANGED written
    <3>1. Stream!Write(e, d)
      BY <1>1, <2>2, ZenonT(30) DEF PollWrite, Stream!Write
    <3> QED
      BY <1>0, <3>1, SMTT(30) DEF Stream!Next
  <2> QED
    BY <2>1, <2>2, SMTT(30)
<1>2. ASSUME NEW e \in End, PollRead(e)
      PROVE  Stream!Next \/ UNCHANGED <<written, got>>
  <2>1. UNCHANGED <<streams, written>>
    BY <1>2, SMTT(30) DEF PollRead
  <2>2. CASE UNCHANGED got
    BY <2>1, <2>2, ZenonT(30)
  <2>3. CASE ~UNCHANGED got
    <3>1. PICK k \in 1..Len(st[e].read_buf) :
            got' = [got EXCEPT ![e] = @ \o SubSeq(st[e].read_buf, 1, k)]
      BY <1>2, <2>3, ZenonT(30) DEF PollRead
    <3> DEFINE w == written[Peer(e)]
               g == got[e] \o SubSeq(st[e].read_buf, 1, k)
    <3>2. got' = [got EXCEPT ![e] = g] /\ got'[e] = g
      BY <1>0, <3>1, ZenonT(30) DEF TypeOK
    <3>3. /\ got[e] \in Seq(Data) /\ st[e].read_buf \in Seq(Data)
          /\ w \in Seq(Data)
      BY <1>0, PeerEnd, ZenonT(30) DEF TypeOK, StreamState
    <3>4. g \in Seq(Data) /\ Len(g) = Len(got[e]) + k
      BY <3>3, Split, Concat, SMTT(30)
    <3> HIDE DEF g
    <3>5. Reader(e)'
      BY <2>1, ZenonT(30) DEF Flow, End
    <3>6. /\ Len(g) <= Len(w)
          /\ \A i \in 1..Len(g) : g[i] = w[i]
      <4>1. InLine(st'[e].next_read_seq, g, st'[e].read_buf, w)
        BY <2>1, <3>2, <3>5, ZenonT(30) DEF Reader
      <4>2. st'[e].read_buf \in Seq(Data)
        BY ZenonT(30) DEF Flow, TypeOK, StreamState
      <4>3. Len(g) <= Len(w)
        BY <3>3, <3>4, <4>1, <4>2, InLineShort, ZenonT(30)
      <4> QED
        BY <4>1, <4>3, ZenonT(30) DEF InLine
    <3>7. g = SubSeq(w, 1, Len(g))
      BY <3>3, <3>4, <3>6, Prefix, ZenonT(30)
    <3>8. Len(g) \in (Len(got[e]) + 1)..Len(w)
      BY <3>3, <3>4, <3>6, SMTT(30)
    <3>9. Stream!Read(e)
      BY <1>0, <2>1, <3>2, <3>7, <3>8, ZenonT(30) DEF Stream!Read
    <3> QED
      BY <1>0, <3>9, SMTT(30) DEF Stream!Next
  <2> QED
    BY <2>2, <2>3, SMTT(30)
<1>3. ASSUME NEW m \in net, ListenerOpen(m)
      PROVE  UNCHANGED <<written, got>>
  <2>1. streams = 0
    BY <1>0, <1>3, SMTT(30) DEF ListenerOpen, TypeOK
  <2>2. written["acc"] = <<>> /\ got["acc"] = <<>>
    BY <2>1, SMTT(30) DEF Flow, Fresh
  <2> QED
    BY <1>0, <1>3, <2>2, ZenonT(30) DEF ListenerOpen, TypeOK
<1>4. CASE UNCHANGED <<written, got>>
  BY <1>4, SMTT(30)
<1>5. ASSUME NEW e \in End, App(e), ~UNCHANGED <<written, got>>
      PROVE  Stream!Next
  BY <1>1, <1>2, <1>5, SMTT(30)
     DEF App, PollShutdown, SetUdpNackMode, DropStream
<1>6. ASSUME NEW e \in End,
             WriteNext(e) \/ Elapse(e) \/ HandleTick(e) \/ TaskStop(e)
      PROVE  UNCHANGED <<written, got>>
  BY <1>6, ZenonT(30)
     DEF WriteNext, Elapse, HandleTick, TickExit, TickTcp, TickUdp, TaskStop
<1>7. ASSUME NEW e \in End, NEW m \in net, HandleIncoming(e, m)
      PROVE  UNCHANGED <<written, got>>
  BY <1>7, ZenonT(30) DEF HandleIncoming, OnOpen, OnOpenAck, OnClose, OnStreamNew,
                     OnStreamDuplicate, OnSack, OnNack, Resend, OnPing
<1>8. CASE ConnectSend \/ ConnectDone \/ ConnectFail \/ SocketError
             \/ (\E m \in net : ListenerReject(m)) \/ UNCHANGED vars
  BY <1>8, ZenonT(30) DEF ConnectSend, ConnectDone, ConnectFail, SocketError,
              ListenerReject, vars
<1> QED
  BY <1>3, <1>4, <1>5, <1>6, <1>7, <1>8, ZenonT(30) DEF Next

LEMMA StreamsBound ==
  ASSUME streams \in Nat, streams <= MaxStreams, [Next]_vars
  PROVE  streams' <= MaxStreams
<1>1. ASSUME NEW e \in End, App(e)
      PROVE  UNCHANGED streams
  BY <1>1, ZenonT(30)
     DEF App, PollWrite, PollRead, PollShutdown, SetUdpNackMode, DropStream
<1>2. ASSUME NEW e \in End,
             WriteNext(e) \/ Elapse(e) \/ HandleTick(e) \/ TaskStop(e)
      PROVE  UNCHANGED streams
  BY <1>2, ZenonT(30)
     DEF WriteNext, Elapse, HandleTick, TickExit, TickTcp, TickUdp, TaskStop
<1>3. ASSUME NEW e \in End, NEW m \in net, HandleIncoming(e, m)
      PROVE  UNCHANGED streams
  BY <1>3, ZenonT(30) DEF HandleIncoming, OnOpen, OnOpenAck, OnClose, OnStreamNew,
                     OnStreamDuplicate, OnSack, OnNack, Resend, OnPing
<1>4. CASE ConnectSend \/ ConnectDone \/ ConnectFail \/ SocketError
             \/ (\E m \in net : ListenerReject(m)) \/ UNCHANGED vars
  BY <1>4, ZenonT(30) DEF ConnectSend, ConnectDone, ConnectFail, SocketError,
              ListenerReject, vars
<1>5. ASSUME NEW m \in net, ListenerOpen(m)
      PROVE  streams' <= MaxStreams
  BY <1>5, StreamAssumption, SMTT(30) DEF ListenerOpen
<1> QED
  BY <1>1, <1>2, <1>3, <1>4, <1>5, SMTT(30) DEF Next

\* As long as the listener creates one stream for an id, every step of the
\* transport is a step of the reliable stream or changes neither end's data.
THEOREM StreamImplemented ==
  ASSUME MaxStreams <= 1
  PROVE  Spec => StreamSpec
<1> DEFINE Bound == streams <= MaxStreams
<1>1. Init => Stream!Init /\ Bound
  BY StreamAssumption, SMTT(30) DEF Init, Stream!Init, Stream!Ends, End
<1>2. Flow /\ Bound /\ [Next]_vars => Bound'
  BY StreamsBound DEF Flow, TypeOK
<1>3. Flow /\ Flow' /\ Bound' /\ [Next]_vars => [Stream!Next]_<<written, got>>
  <2> SUFFICES ASSUME Flow, Flow', Bound', [Next]_vars
               PROVE  [Stream!Next]_<<written, got>>
    BY SMTT(30)
  <2>1. streams' <= 1
    BY StreamAssumption DEF Flow, TypeOK
  <2> QED
    BY <2>1, StreamStep, ZenonT(30)
<1> QED
  BY <1>1, <1>2, <1>3, FlowInvariant, PTL DEF Spec, StreamSpec, Stream!Spec
=============================================================================
