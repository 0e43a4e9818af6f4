----------------------- MODULE ControlChannelsProofs ------------------------
(***************************************************************************)
(* For every number of connections, services, visitor channels and hot     *)
(* reloads: an acknowledged control channel enters the map, its data       *)
(* channels are refused only after it was removed, and the map on the heap *)
(* implements a registry of sessions.                                      *)
(***************************************************************************)
EXTENDS ControlChannels, TLAPS

\* The write lock of the map is held by one handshake, from the removal of the
\* old handle to the insertion of the new one.
LockInv ==
  /\ \A c \in Conns : c \in lock <=> pc[c] \in {"ack", "insert"}
  /\ \A c, d \in lock : c = d

\* A handle belongs to a handshake that is done, and none is in the way of the
\* one that holds the lock.
HandleInv ==
  /\ \A h \in channels.boxes : pc[h.k2] = "open"
  /\ \A c \in Conns : pc[c] \in {"ack", "insert"} =>
       \A h \in channels.boxes : h.k1 # key[c]

\* A session that is open has its handle in the map or has lost it, one that
\* lost it is done, and the states of a visitor handshake are its own.
OpenInv ==
  /\ \A c \in Conns : pc[c] = "open" =>
       c \in displaced \/ \E h \in channels.boxes : h.k2 = c
  /\ \A c \in displaced : pc[c] = "open"
  /\ \A c \in Conns : pc[c] \in {"visitor", "visitor_lock"} =>
       key[c] \notin Services

IInv == TypeOK /\ MapSound /\ LockInv /\ HandleInv /\ OpenInv
          /\ RefusedOnlyIfDisplaced

\* On a sound map, either key of a MultiMap finds the same boxes.
LEMMA GetSound ==
  ASSUME NEW m, Sound(m), NEW k
  PROVE  /\ get1(m, k) = {p \in m.boxes : p.k1 = k}
         /\ get2(m, k) = {p \in m.boxes : p.k2 = k}
BY DEF Sound, get1, get2

\* remove1 takes the item out of both maps, frees its box, and leaves every
\* other item alone.
LEMMA Remove1Sound ==
  ASSUME NEW m, Sound(m), NEW k
  PROVE  /\ Sound(remove1(m, k))
         /\ remove1(m, k).boxes = {p \in m.boxes : p.k1 # k}
<1> DEFINE r == remove1(m, k)
<1>1. r.map1 = m.boxes \ get1(m, k) /\ r.boxes = m.boxes \ get1(m, k)
  BY DEF remove1, Sound
<1>2. UNION {get2(m, p.k2) : p \in get1(m, k)} = get1(m, k)
  BY GetSound DEF Sound
<1>3. r.map2 = m.boxes \ get1(m, k)
  BY <1>2 DEF remove1, Sound
<1>4. m.boxes \ get1(m, k) = {p \in m.boxes : p.k1 # k}
  BY GetSound
<1> HIDE DEF r
<1>5. Sound(r)
  BY <1>1, <1>3 DEF Sound
<1> QED
  BY <1>1, <1>4, <1>5 DEF r

\* remove2 does the same by the other key.
LEMMA Remove2Sound ==
  ASSUME NEW m, Sound(m), NEW k
  PROVE  /\ Sound(remove2(m, k))
         /\ remove2(m, k).boxes = {p \in m.boxes : p.k2 # k}
<1> DEFINE r == remove2(m, k)
<1>1. r.map2 = m.boxes \ get2(m, k) /\ r.boxes = m.boxes \ get2(m, k)
  BY DEF remove2, Sound
<1>2. UNION {get1(m, p.k1) : p \in get2(m, k)} = get2(m, k)
  BY GetSound DEF Sound
<1>3. r.map1 = m.boxes \ get2(m, k)
  BY <1>2 DEF remove2, Sound
<1>4. m.boxes \ get2(m, k) = {p \in m.boxes : p.k2 # k}
  BY GetSound
<1> HIDE DEF r
<1>5. Sound(r)
  BY <1>1, <1>3 DEF Sound
<1> QED
  BY <1>1, <1>4, <1>5 DEF r

\* insert adds an item none of whose keys is known.
LEMMA InsertSound ==
  ASSUME NEW m, Sound(m), NEW k1, NEW k2,
         \A p \in m.boxes : p.k1 # k1 /\ p.k2 # k2
  PROVE  /\ Sound(insert(m, k1, k2))
         /\ insert(m, k1, k2).boxes = m.boxes \cup {[k1 |-> k1, k2 |-> k2]}
<1> DEFINE r == insert(m, k1, k2)
           item == [k1 |-> k1, k2 |-> k2]
<1>1. get1(m, k1) = {} /\ get2(m, k2) = {}
  BY GetSound
<1>2. /\ r.map1 = m.boxes \cup {item}
      /\ r.map2 = m.boxes \cup {item}
      /\ r.boxes = m.boxes \cup {item}
  BY <1>1 DEF insert, Sound
<1>3. item.k1 = k1 /\ item.k2 = k2
  OBVIOUS
<1> HIDE DEF r, item
<1>4. Sound(r)
  BY <1>2, <1>3 DEF Sound
<1> QED
  BY <1>2, <1>4 DEF r, item

\* clear leaves no box behind.
LEMMA ClearSound ==
  ASSUME NEW m, Sound(m)
  PROVE  Sound(clear(m)) /\ clear(m).boxes = {}
BY DEF Sound, clear

\* The operations on the server's map keep its type.
LEMMA MapType ==
  ASSUME TypeOK, NEW k \in Keys, NEW c \in Conns
  PROVE  LET T == [map1 : SUBSET Handle, map2 : SUBSET Handle,
                   boxes : SUBSET Handle]
         IN /\ remove1(channels, k) \in T
            /\ insert(channels, k, c) \in T
            /\ insert(remove1(channels, k), k, c) \in T
            /\ clear(channels) \in T
<1> DEFINE T == [map1 : SUBSET Handle, map2 : SUBSET Handle,
                 boxes : SUBSET Handle]
<1>1. channels \in T
  BY DEF TypeOK
<1>2. ASSUME NEW m \in T PROVE remove1(m, k) \in T
  BY <1>2 DEF remove1
<1>3. ASSUME NEW m \in T PROVE insert(m, k, c) \in T
  BY <1>3 DEF insert, Handle
<1>4. clear(channels) \in T
  BY <1>1 DEF clear
<1> HIDE DEF T
<1>5. remove1(channels, k) \in T
  BY <1>1, <1>2
<1>6. insert(channels, k, c) \in T
  BY <1>1, <1>3
<1>7. insert(remove1(channels, k), k, c) \in T
  BY <1>5, <1>3
<1> QED
  BY <1>4, <1>5, <1>6, <1>7 DEF T

\* What the removal of a digest does to the boxes and to the sessions.
LEMMA RemoveEffect ==
  ASSUME MapSound, NEW k, Remove(k)
  PROVE  /\ MapSound'
         /\ channels'.boxes = {h \in channels.boxes : h.k1 # k}
         /\ displaced' = displaced \cup
              {h.k2 : h \in {g \in channels.boxes : g.k1 = k}}
BY Remove1Sound, GetSound DEF Remove, Drop, MapSound

\* What the insertion of a handle does; a control channel finds its digest
\* already removed, a visitor channel removes it in the same step.
LEMMA InsertEffect ==
  ASSUME IInv, NEW c \in Conns, Insert(c) \/ VisitorInsert(c)
  PROVE  /\ MapSound'
         /\ channels'.boxes = {h \in channels.boxes : h.k1 # key[c]} \cup
                                {[k1 |-> key[c], k2 |-> c]}
         /\ displaced' = displaced \cup
              {h.k2 : h \in {g \in channels.boxes : g.k1 = key[c]}}
<1> DEFINE item == [k1 |-> key[c], k2 |-> c]
           kept == remove1(channels, key[c])
<1>1. CASE Insert(c)
  <2>1. \A h \in channels.boxes : h.k1 # key[c] /\ h.k2 # c
    BY <1>1 DEF Insert, IInv, HandleInv
  <2>2. MapSound' /\ channels'.boxes = channels.boxes \cup {item}
    BY <1>1, <2>1, InsertSound DEF Insert, IInv, MapSound
  <2>3. displaced' = displaced
    BY <1>1 DEF Insert
  <2> QED
    BY <2>1, <2>2, <2>3
<1>2. CASE VisitorInsert(c)
  <2>1. Sound(kept) /\ kept.boxes = {h \in channels.boxes : h.k1 # key[c]}
    BY Remove1Sound DEF IInv, MapSound
  <2>2. \A h \in kept.boxes : h.k1 # key[c] /\ h.k2 # c
    BY <1>2, <2>1, SMTT(30) DEF VisitorInsert, IInv, HandleInv
  <2>3. channels' = insert(kept, key[c], c)
    BY <1>2 DEF VisitorInsert
  <2>4. displaced' = displaced \cup
          {h.k2 : h \in {g \in channels.boxes : g.k1 = key[c]}}
    BY <1>2, GetSound, SMTT(30) DEF VisitorInsert, Drop, IInv, MapSound
  <2> HIDE DEF kept
  <2>5. MapSound' /\ channels'.boxes = kept.boxes \cup {item}
    BY <2>1, <2>2, <2>3, InsertSound DEF MapSound
  <2> QED
    BY <2>1, <2>4, <2>5
<1> QED
  BY <1>1, <1>2

LEMMA InitIInv == Init => IInv
<1> SUFFICES ASSUME Init PROVE IInv
  OBVIOUS
<1>1. TypeOK /\ MapSound
  BY ZenonT(30) DEF Init, TypeOK, PCs, Empty, MapSound, Sound
<1>2. LockInv /\ HandleInv
  BY DEF Init, LockInv, HandleInv, Empty
<1>3. OpenInv /\ RefusedOnlyIfDisplaced
  BY DEF Init, OpenInv, RefusedOnlyIfDisplaced
<1> QED
  BY <1>1, <1>2, <1>3 DEF IInv

LEMMA ChannelsGet ==
  ASSUME MapSound, NEW k
  PROVE  get2(channels, k) = {h \in channels.boxes : h.k2 = k}
<1>1. Sound(channels)
  BY SMTT(30) DEF MapSound
<1> QED
  BY <1>1, GetSound, SMTT(30)

\* Steps of a handshake that leave the map alone.
LEMMA HandshakeIInv ==
  ASSUME IInv, NEW c \in Conns,
         Accept(c) \/ Abort(c) \/ Lookup(c) \/ ReadAuth(c) \/ AckOk(c)
                   \/ VisitorAck(c)
  PROVE  IInv'
<1> USE ChannelsAssumption
    DEF IInv, TypeOK, MapSound, LockInv, HandleInv, OpenInv, RefusedOnlyIfDisplaced,
        PCs, Handle, Goto, server
<1>1. CASE Accept(c)
  BY <1>1, SMTT(30) DEF Accept
<1>2. CASE Abort(c)
  BY <1>2, SMTT(30) DEF Abort, Active
<1>3. CASE Lookup(c)
  BY <1>3, SMTT(30) DEF Lookup
<1>4. CASE ReadAuth(c)
  BY <1>4, SMTT(30) DEF ReadAuth
<1>5. CASE AckOk(c)
  BY <1>5, SMTT(30) DEF AckOk
<1>6. CASE VisitorAck(c)
  BY <1>6, SMTT(30) DEF VisitorAck
<1> QED
  BY <1>1, <1>2, <1>3, <1>4, <1>5, <1>6, SMTT(30)

\* Steps of a handshake that take or use the lock of the map.
LEMMA MapIInv ==
  ASSUME IInv, NEW c \in Conns,
         LockMap(c) \/ Insert(c) \/ VisitorInsert(c) \/ DataChannel(c)
  PROVE  IInv'
<1> USE ChannelsAssumption
    DEF IInv, LockInv, HandleInv, OpenInv, RefusedOnlyIfDisplaced, Goto, server
<1>0. \A h \in channels.boxes : h.k1 \in Keys /\ h.k2 \in Conns
  BY SMTT(30) DEF TypeOK, Handle
<1>1. CASE LockMap(c)
  <2>1. /\ MapSound'
        /\ channels'.boxes = {h \in channels.boxes : h.k1 # key[c]}
        /\ displaced' = displaced \cup
             {h.k2 : h \in {g \in channels.boxes : g.k1 = key[c]}}
    BY <1>1, RemoveEffect, SMTT(30) DEF LockMap
  <2>2. TypeOK'
    <3>1. key[c] \in Keys
      BY SMTT(30) DEF TypeOK
    <3>2. channels' \in [map1 : SUBSET Handle, map2 : SUBSET Handle,
                         boxes : SUBSET Handle]
      BY <1>1, <3>1, MapType, SMTT(30) DEF LockMap, Remove
    <3> QED
      BY <1>0, <1>1, <2>1, <3>2, SMTT(30) DEF LockMap, TypeOK, PCs
  <2>3. LockInv' /\ HandleInv'
    BY <1>0, <1>1, <2>1, SMTT(30) DEF LockMap, TypeOK
  <2>4. OpenInv' /\ RefusedOnlyIfDisplaced'
    BY <1>0, <1>1, <2>1, SMTT(30) DEF LockMap, TypeOK
  <2> QED
    BY <2>1, <2>2, <2>3, <2>4, SMTT(30)
<1>2. CASE Insert(c) \/ VisitorInsert(c)
  <2> DEFINE item == [k1 |-> key[c], k2 |-> c]
  <2>1. /\ MapSound'
        /\ channels'.boxes =
             {h \in channels.boxes : h.k1 # key[c]} \cup {item}
        /\ displaced' = displaced \cup
             {h.k2 : h \in {g \in channels.boxes : g.k1 = key[c]}}
    BY <1>2, InsertEffect, SMTT(30)
  <2>2. TypeOK'
    <3>1. key[c] \in Keys
      BY DEF TypeOK
    <3>2. channels' \in [map1 : SUBSET Handle, map2 : SUBSET Handle,
                         boxes : SUBSET Handle]
      BY <1>2, <3>1, MapType, SMTT(30) DEF Insert, VisitorInsert
    <3> QED
      BY <1>0, <1>2, <2>1, <3>2, SMTT(30) DEF Insert, VisitorInsert, TypeOK, PCs
  <2>3. item.k1 = key[c] /\ item.k2 = c
    BY SMTT(30)
  <2> HIDE DEF item
  <2>4. LockInv'
    BY <1>2, SMTT(30) DEF Insert, VisitorInsert, TypeOK
  <2>5. HandleInv'
    BY <1>0, <1>2, <2>1, <2>3, SMTT(30) DEF Insert, VisitorInsert, TypeOK
  <2>6. OpenInv'
    BY <1>0, <1>2, <2>1, <2>3, SMTT(30) DEF Insert, VisitorInsert, TypeOK
  <2>7. RefusedOnlyIfDisplaced'
    BY <1>2, <2>1, SMTT(30) DEF Insert, VisitorInsert
  <2> QED
    BY <2>1, <2>2, <2>4, <2>5, <2>6, <2>7, SMTT(30)
<1>3. CASE DataChannel(c)
  <2>1. get2(channels, c) = {h \in channels.boxes : h.k2 = c}
    BY ChannelsGet, SMTT(30)
  <2>2. TypeOK' /\ MapSound' /\ LockInv' /\ HandleInv' /\ OpenInv'
    BY <1>3, SMTT(30) DEF DataChannel, TypeOK, MapSound
  <2>3. RefusedOnlyIfDisplaced'
    BY <1>3, <2>1, SMTT(30) DEF DataChannel, TypeOK
  <2> QED
    BY <2>2, <2>3, SMTT(30)
<1> QED
  BY <1>1, <1>2, <1>3, SMTT(30)

\* A step of Server::run that leaves the map and the handshakes alone.
LEMMA CalmIInv ==
  ASSUME IInv, TypeOK', UNCHANGED <<channels, pc, key, lock, refused, displaced>>
  PROVE  IInv'
<1>1. MapSound'
  BY DEF IInv, MapSound
<1>2. LockInv'
  BY SMTT(30) DEF IInv, LockInv
<1>3. HandleInv'
  BY SMTT(30) DEF IInv, HandleInv
<1>4. OpenInv' /\ RefusedOnlyIfDisplaced'
  BY DEF IInv, OpenInv, RefusedOnlyIfDisplaced
<1> QED
  BY <1>1, <1>2, <1>3, <1>4 DEF IInv

\* A step of Server::run that drops handles.
LEMMA DroppedIInv ==
  ASSUME IInv, TypeOK', MapSound', UNCHANGED <<pc, key, lock, refused>>,
         NEW gone \in SUBSET channels.boxes,
         channels'.boxes = channels.boxes \ gone,
         displaced' = displaced \cup {h.k2 : h \in gone}
  PROVE  IInv'
<1>1. LockInv'
  BY DEF IInv, LockInv
<1>2. \A h \in channels.boxes : pc[h.k2] = "open"
  BY DEF IInv, HandleInv
<1>3. \A h \in gone : h \in channels.boxes /\ h.k2 \in displaced'
  OBVIOUS
<1>4. \A c \in displaced' : c \in displaced \/ \E h \in gone : c = h.k2
  OBVIOUS
<1>5. displaced \subseteq displaced'
  OBVIOUS
<1>6. HandleInv'
  BY <1>2, SMTT(30) DEF IInv, HandleInv
<1>7. OpenInv'
  <2>1. ASSUME NEW c \in Conns, pc[c] = "open"
        PROVE  c \in displaced' \/ \E h \in channels'.boxes : h.k2 = c
    <3>1. c \in displaced \/ \E h \in channels.boxes : h.k2 = c
      BY <2>1, SMTT(30) DEF IInv, OpenInv
    <3> QED
      BY <3>1, <1>3, <1>5, SMTT(30)
  <2>2. \A c \in displaced' : pc[c] = "open"
    BY <1>2, <1>3, <1>4, SMTT(30) DEF IInv, OpenInv
  <2>3. \A c \in Conns : pc[c] \in {"visitor", "visitor_lock"} =>
          key[c] \notin Services
    BY SMTT(30) DEF IInv, OpenInv
  <2> QED
    BY <2>1, <2>2, <2>3 DEF OpenInv
<1>8. RefusedOnlyIfDisplaced'
  BY <1>5, SMTT(30) DEF IInv, RefusedOnlyIfDisplaced
<1> QED
  BY <1>1, <1>6, <1>7, <1>8 DEF IInv

\* What the end of Server::run does to the boxes and to the sessions.
LEMMA ClearEffect ==
  ASSUME MapSound, Clear
  PROVE  /\ MapSound'
         /\ channels'.boxes = {}
         /\ displaced' = displaced \cup {h.k2 : h \in channels.boxes}
<1>1. /\ channels' = clear(channels)
      /\ displaced' = displaced \cup {h.k2 : h \in channels.map2}
  BY DEF Clear, Drop
<1>2. Sound(clear(channels)) /\ clear(channels).boxes = {}
  BY ClearSound DEF MapSound
<1>3. channels.map2 = channels.boxes
  BY SMTT(30) DEF MapSound, Sound
<1> QED
  BY <1>1, <1>2, <1>3, SMTT(30) DEF MapSound

\* The nonces of handles are connections.
LEMMA DroppedType ==
  ASSUME TypeOK, NEW gone \in SUBSET channels.boxes
  PROVE  displaced \cup {h.k2 : h \in gone} \subseteq Conns
<1>1. \A h \in gone : h.k2 \in Conns
  BY DEF TypeOK, Handle
<1> QED
  BY <1>1 DEF TypeOK

\* Server::run removes handles only when nobody holds the lock.
LEMMA ServerIInv ==
  ASSUME IInv,
         \/ \E k \in Services : StartReload(k, "add") \/ StartReload(k, "delete")
         \/ ReloadServices \/ ReloadRemove \/ SendShutdown \/ ShutdownReceived
         \/ Clear
  PROVE  IInv'
<1>0. TypeOK /\ MapSound
  BY SMTT(30) DEF IInv
<1>1. ASSUME NEW k \in Services, NEW change \in {"add", "delete"},
             StartReload(k, change)
      PROVE  IInv'
  <2>1. TypeOK'
    BY <1>0, <1>1, SMTT(30) DEF TypeOK, StartReload
  <2> QED
    BY <1>1, <2>1, CalmIInv, SMTT(30) DEF StartReload
<1>2. CASE ReloadServices
  <2>1. services' \subseteq Services
    BY <1>0, <1>2, SMTT(30) DEF TypeOK, ReloadServices
  <2>2. TypeOK'
    BY <1>0, <1>2, <2>1, SMTT(30) DEF TypeOK, ReloadServices
  <2> QED
    BY <1>2, <2>2, CalmIInv, SMTT(30) DEF ReloadServices
<1>3. CASE ReloadRemove
  <2>1. PICK gone : gone = {g \in channels.boxes : g.k1 = target}
    BY ZenonT(30)
  <2>2. /\ MapSound'
        /\ channels'.boxes = channels.boxes \ gone
        /\ displaced' = displaced \cup {h.k2 : h \in gone}
    BY <1>0, <1>3, <2>1, RemoveEffect, SMTT(30) DEF ReloadRemove
  <2>3. channels' \in [map1 : SUBSET Handle, map2 : SUBSET Handle,
                       boxes : SUBSET Handle]
    <3>1. channels' = remove1(channels, target)
      BY <1>3, SMTT(30) DEF ReloadRemove, Remove
    <3> QED
      BY <1>0, <3>1, SMTT(30) DEF TypeOK, remove1
  <2>4. displaced' \subseteq Conns
    BY <1>0, <2>1, <2>2, DroppedType, SMTT(30)
  <2>5. TypeOK'
    BY <1>0, <1>3, <2>3, <2>4, SMTT(30) DEF TypeOK, ReloadRemove
  <2>6. UNCHANGED <<pc, key, lock, refused>>
    BY <1>3, SMTT(30) DEF ReloadRemove
  <2> QED
    BY <2>1, <2>2, <2>5, <2>6, DroppedIInv
<1>4. CASE SendShutdown
  <2>1. TypeOK'
    BY <1>0, <1>4 DEF TypeOK, SendShutdown
  <2> QED
    BY <1>4, <2>1, CalmIInv, SMTT(30) DEF SendShutdown
<1>5. CASE ShutdownReceived
  <2>1. TypeOK'
    BY <1>0, <1>5, SMTT(30) DEF TypeOK, ShutdownReceived
  <2> QED
    BY <1>5, <2>1, CalmIInv, SMTT(30) DEF ShutdownReceived
<1>6. CASE Clear
  <2>1. /\ MapSound'
        /\ channels'.boxes = {}
        /\ displaced' = displaced \cup {h.k2 : h \in channels.boxes}
    BY <1>0, <1>6, ClearEffect, SMTT(30)
  <2>2. channels' \in [map1 : SUBSET Handle, map2 : SUBSET Handle,
                       boxes : SUBSET Handle]
    <3>1. channels' = clear(channels)
      BY <1>6 DEF Clear
    <3> QED
      BY <1>0, <3>1, SMTT(30) DEF TypeOK, clear
  <2>3. displaced' \subseteq Conns
    BY <1>0, <2>1, DroppedType, SMTT(30)
  <2>4. TypeOK'
    BY <1>0, <1>6, <2>2, <2>3, SMTT(30) DEF TypeOK, Clear
  <2>5. UNCHANGED <<pc, key, lock, refused>>
    BY <1>6 DEF Clear
  <2> QED
    BY <2>1, <2>4, <2>5, DroppedIInv, SMTT(30)
<1> QED
  BY <1>1, <1>2, <1>3, <1>4, <1>5, <1>6

LEMMA NextIInv == IInv /\ [Next]_vars => IInv'
<1>1. IInv /\ Next => IInv'
  BY HandshakeIInv, MapIInv, ServerIInv, SMTT(30) DEF Next, Handshake
<1>2. IInv /\ UNCHANGED vars => IInv'
  <2> SUFFICES ASSUME IInv, UNCHANGED vars
               PROVE  IInv'
    BY SMTT(30)
  <2> USE DEF vars, server
  <2>1. TypeOK'
    BY DEF IInv, TypeOK
  <2>2. MapSound'
    BY DEF IInv, MapSound
  <2>3. LockInv'
    BY SMTT(30) DEF IInv, LockInv
  <2>4. HandleInv'
    BY SMTT(30) DEF IInv, HandleInv
  <2>5. OpenInv' /\ RefusedOnlyIfDisplaced'
    BY DEF IInv, OpenInv, RefusedOnlyIfDisplaced
  <2> QED
    BY <2>1, <2>2, <2>3, <2>4, <2>5 DEF IInv
<1> QED
  BY <1>1, <1>2, SMTT(30)

LEMMA Invariance == Spec => []IInv
BY InitIInv, NextIInv, PTL DEF Spec

\* Type correctness of the map, the handshakes and Server::run.
THEOREM TypeCorrect == Spec => []TypeOK
<1>1. IInv => TypeOK
  BY DEF IInv
<1> QED
  BY <1>1, Invariance, PTL

\* The insert whose result do_control_channel_handshake ignores never fails,
\* however many handshakes, reloads and shutdowns compete.
THEOREM InsertSucceedsHolds == Spec => []InsertSucceeds
<1>1. IInv => InsertSucceeds
  <2> SUFFICES ASSUME IInv, NEW c \in Conns, pc[c] = "insert"
               PROVE  get1(channels, key[c]) = {} /\ get2(channels, c) = {}
    BY DEF InsertSucceeds
  <2> QED
    BY GetSound, SMTT(30) DEF IInv, MapSound, HandleInv
<1> QED
  BY <1>1, Invariance, PTL

\* do_data_channel_handshake refuses a data channel of a control channel only
\* after the session's handle was removed from the map.
THEOREM RefusedOnlyIfDisplacedHolds == Spec => []RefusedOnlyIfDisplaced
<1>1. IInv => RefusedOnlyIfDisplaced
  BY DEF IInv
<1> QED
  BY <1>1, Invariance, PTL

\* No operation leaves a dangling pointer or a leaked box in the server's
\* MultiMap, and its two maps agree.
THEOREM MapSoundHolds == Spec => []MapSound
<1>1. IInv => MapSound
  BY DEF IInv
<1> QED
  BY <1>1, Invariance, PTL

\* The sessions of a set of handles, as entries of the registry.
Entries(hs) == {<<h.k1, h.k2>> : h \in hs}
With(hs, k) == {h \in hs : h.k1 = k}
Without(hs, k) == {h \in hs : h.k1 # k}
At(es, k) == {e \in es : e[1] = k}

\* An entry of the registry stands for a handle of the same digest and nonce.
LEMMA EntriesAt ==
  ASSUME NEW B \in SUBSET Handle, NEW k
  PROVE  At(Entries(B), k) = Entries(With(B, k))
BY DEF Entries, With, At

LEMMA EntriesRest ==
  ASSUME NEW B \in SUBSET Handle, NEW k
  PROVE  Entries(B) \ Entries(With(B, k)) = Entries(Without(B, k))
BY DEF Entries, With, Without

LEMMA EntriesNonces ==
  ASSUME NEW B \in SUBSET Handle
  PROVE  {e[2] : e \in Entries(B)} = {h.k2 : h \in B}
<1>1. ASSUME NEW h \in B PROVE h.k2 \in {e[2] : e \in Entries(B)}
  <2>1. <<h.k1, h.k2>> \in Entries(B)
    BY DEF Entries
  <2>2. <<h.k1, h.k2>>[2] = h.k2
    OBVIOUS
  <2> QED
    BY <2>1, <2>2, Zenon
<1>2. ASSUME NEW e \in Entries(B) PROVE e[2] \in {h.k2 : h \in B}
  BY DEF Entries
<1> QED
  BY <1>1, <1>2

\* Removing a digest is a Leave of the registry.
LEMMA RemoveLeaves ==
  ASSUME IInv, MapSound', NEW k \in Keys, Remove(k)
  PROVE  Registry!Leave(k)
<1>1. /\ channels'.boxes = {h \in channels.boxes : h.k1 # k}
      /\ displaced' = displaced \cup
           {h.k2 : h \in {g \in channels.boxes : g.k1 = k}}
  BY RemoveEffect, SMTT(30) DEF IInv
<1>2. channels.boxes \in SUBSET Handle
  BY SMTT(30) DEF IInv, TypeOK
<1>3. /\ channels.map2 = channels.boxes
      /\ channels'.map2 = channels'.boxes
  BY SMTT(30) DEF IInv, MapSound, Sound
<1> DEFINE old == channels.boxes
           gone == With(old, k)
<1>4. /\ At(Entries(old), k) = Entries(gone)
      /\ Entries(old) \ Entries(gone) = Entries(Without(old, k))
      /\ {e[2] : e \in Entries(gone)} = {h.k2 : h \in gone}
  <2>1. At(Entries(old), k) = Entries(gone)
    BY <1>2, EntriesAt, Zenon
  <2>2. Entries(old) \ Entries(gone) = Entries(Without(old, k))
    BY <1>2, EntriesRest, Zenon
  <2>3. gone \in SUBSET Handle
    BY <1>2 DEF With
  <2>4. {e[2] : e \in Entries(gone)} = {h.k2 : h \in gone}
    <3> HIDE DEF gone
    <3> QED
      BY <2>3, EntriesNonces, ZenonT(30)
  <2> QED
    BY <2>1, <2>2, <2>4
<1>5. Entries(channels'.map2) =
        Entries(channels.map2) \ At(Entries(channels.map2), k)
  BY <1>1, <1>3, <1>4, Zenon DEF Without
<1>6. displaced' = displaced \cup {e[2] : e \in At(Entries(channels.map2), k)}
  BY <1>1, <1>3, <1>4, Zenon DEF With
<1> QED
  BY <1>5, <1>6, ZenonT(30) DEF Registry!Leave, Registry!Of, Entries, At

\* Inserting a handle is an Enter of the registry.
LEMMA InsertEnters ==
  ASSUME IInv, NEW c \in Conns, Insert(c) \/ VisitorInsert(c)
  PROVE  Registry!Enter(key[c], c)
<1> DEFINE old == channels.boxes
           gone == With(old, key[c])
           kept == Without(old, key[c])
           item == [k1 |-> key[c], k2 |-> c]
<1>1. /\ MapSound'
      /\ channels'.boxes = kept \cup {item}
      /\ displaced' = displaced \cup {h.k2 : h \in gone}
  BY InsertEffect DEF With, Without
<1>2. old \in SUBSET Handle
  BY SMTT(30) DEF IInv, TypeOK
<1>3. /\ channels.map2 = channels.boxes
      /\ channels'.map2 = channels'.boxes
  BY <1>1, SMTT(30) DEF IInv, MapSound, Sound
<1>4. /\ At(Entries(old), key[c]) = Entries(gone)
      /\ Entries(old) \ Entries(gone) = Entries(kept)
      /\ {e[2] : e \in Entries(gone)} = {h.k2 : h \in gone}
  <2>1. At(Entries(old), key[c]) = Entries(gone)
    BY <1>2, EntriesAt, Zenon
  <2>2. Entries(old) \ Entries(gone) = Entries(kept)
    BY <1>2, EntriesRest, ZenonT(30)
  <2>3. gone \in SUBSET Handle
    BY <1>2 DEF With
  <2>4. {e[2] : e \in Entries(gone)} = {h.k2 : h \in gone}
    <3> HIDE DEF gone
    <3> QED
      BY <2>3, EntriesNonces, ZenonT(30)
  <2> QED
    BY <2>1, <2>2, <2>4
<1>5. Entries(kept \cup {item}) = Entries(kept) \cup {<<key[c], c>>}
  <2>1. item.k1 = key[c] /\ item.k2 = c
    BY SMTT(30)
  <2> HIDE DEF kept, item
  <2> QED
    BY <2>1, SMTT(30) DEF Entries
<1>6. c \notin displaced
  BY SMTT(30) DEF IInv, OpenInv, Insert, VisitorInsert
<1>7. ~ \E k \in Keys : <<k, c>> \in Entries(channels.map2)
  BY <1>3 DEF Entries, IInv, HandleInv, Insert, VisitorInsert
<1>8. Entries(channels'.map2) =
        (Entries(channels.map2) \ At(Entries(channels.map2), key[c]))
          \cup {<<key[c], c>>}
  BY <1>1, <1>3, <1>4, <1>5, Zenon
<1>9. displaced' = displaced \cup
        {e[2] : e \in At(Entries(channels.map2), key[c])}
  BY <1>1, <1>3, <1>4, Zenon
<1> QED
  BY <1>6, <1>7, <1>8, <1>9, ZenonT(30)
  DEF Registry!Enter, Registry!In, Registry!Of, Entries, At

\* Clearing the map at the end of Server::run is a LeaveAll.
LEMMA ClearLeavesAll ==
  ASSUME IInv, Clear
  PROVE  Registry!LeaveAll
<1>1. channels.boxes \in SUBSET Handle /\ channels.map2 = channels.boxes
  BY SMTT(30) DEF IInv, TypeOK, MapSound, Sound
<1>2. /\ channels'.map2 = {}
      /\ displaced' = displaced \cup {h.k2 : h \in channels.map2}
  BY DEF Clear, clear, Drop
<1>3. {e[2] : e \in Entries(channels.map2)} = {h.k2 : h \in channels.map2}
  BY <1>1, EntriesNonces, ZenonT(30)
<1>4. Entries(channels'.map2) = {}
  BY <1>2 DEF Entries
<1>5. displaced' = displaced \cup {e[2] : e \in Entries(channels.map2)}
  BY <1>2, <1>3, ZenonT(30)
<1> QED
  BY <1>4, <1>5, ZenonT(30) DEF Registry!LeaveAll, Entries

\* Every other step leaves the registry alone.
LEMMA StepRefines ==
  IInv /\ IInv' /\ [Next]_vars => [Registry!Next]_(Registry!vars)
<1> SUFFICES ASSUME IInv, IInv', [Next]_vars
             PROVE  [Registry!Next]_(Registry!vars)
  BY SMTT(30)
<1>1. key \in [Conns -> Keys] /\ target \in Keys
  BY DEF IInv, TypeOK, Keys
<1>2. ASSUME NEW c \in Conns, Insert(c) \/ VisitorInsert(c)
      PROVE  Registry!Next
  BY <1>1, <1>2, InsertEnters, SMTT(30) DEF Registry!Next
<1>3. ASSUME NEW c \in Conns, LockMap(c)
      PROVE  Registry!Next
  BY <1>1, <1>3, RemoveLeaves, SMTT(30) DEF LockMap, Registry!Next, IInv
<1>4. CASE ReloadRemove
  BY <1>1, <1>4, RemoveLeaves DEF ReloadRemove, Registry!Next, IInv
<1>5. CASE Clear
  BY <1>5, ClearLeavesAll DEF Registry!Next
<1>6. CASE UNCHANGED <<channels, displaced>>
  BY <1>6, SMTT(30) DEF Registry!vars
<1>7. ASSUME NEW c \in Conns,
             \/ Accept(c) \/ Abort(c) \/ Lookup(c) \/ ReadAuth(c)
             \/ AckOk(c) \/ VisitorAck(c) \/ DataChannel(c)
      PROVE  UNCHANGED <<channels, displaced>>
  BY <1>7, ZenonT(30) DEF Accept, Abort, Lookup, ReadAuth, AckOk, VisitorAck,
                          DataChannel
<1>8. CASE \/ \E k \in Services :
                 StartReload(k, "add") \/ StartReload(k, "delete")
           \/ ReloadServices \/ SendShutdown \/ ShutdownReceived
           \/ UNCHANGED vars
  BY <1>6, <1>8 DEF StartReload, ReloadServices, SendShutdown,
                    ShutdownReceived, vars
<1> QED
  BY <1>2, <1>3, <1>4, <1>5, <1>6, <1>7, <1>8 DEF Next, Handshake

\* The handshakes with their locks and the map on the heap implement the
\* registry: a service has one session at most to the data channels that look
\* it up, and a session that has left never comes back.
THEOREM RegistryImplemented == Spec => ImplementsRegistry
<1>1. Init => Registry!Init
  <2>1. Init => channels.map2 = {} /\ displaced = {}
    BY SMTT(30) DEF Init, Empty
  <2>2. channels.map2 = {} => {<<h.k1, h.k2>> : h \in channels.map2} = {}
    OBVIOUS
  <2> QED
    BY <2>1, <2>2, SMTT(30) DEF Registry!Init
<1> QED
  BY <1>1, StepRefines, Invariance, PTL
  DEF Spec, ImplementsRegistry, Registry!Spec
=============================================================================
