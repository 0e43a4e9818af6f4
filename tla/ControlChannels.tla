--------------------------- MODULE ControlChannels ---------------------------
(***************************************************************************)
(* The server's map of control channels (server.rs): the handshakes that   *)
(* fill it, the data channels that look it up, hot reloads and the         *)
(* shutdown that empty it, and the two locks they share.                   *)
(*                                                                         *)
(* A connection stands for its handshake task and for the nonce it draws.  *)
(* A key is a service digest.  Writes to the peer take any time and may    *)
(* fail.  The read lock of the map is held for a lookup only; sending the  *)
(* data channel under it is in ConnectionPool.                             *)
(***************************************************************************)
EXTENDS Naturals, FiniteSets, MultiMap

CONSTANTS
  Conns,        \* bound: connections that reach the server
  Services,     \* digests of services of the configuration, past or present
  VisitorKeys,  \* digests of visitor channels
  MaxReloads    \* bound: hot reloads

ASSUME ChannelsAssumption ==
  /\ Services \cap VisitorKeys = {}
  /\ MaxReloads \in Nat

Keys == Services \cup VisitorKeys

VARIABLES
  services,     \* digests of the services configured now
  channels,     \* control_channels: the handles, by digest and nonce
  pc,           \* where each handshake is
  key,          \* the digest each connection asks for
  watching,     \* handshake tasks that will see the shutdown signal
  lock,         \* connections that hold the write lock of the map
  refused,      \* sessions one of whose data channels was refused
  displaced,    \* sessions whose handle was removed from the map
  main,         \* what Server::run is doing
  target,       \* the digest a hot reload is about
  shutdown,     \* the shutdown signal was sent
  reloads       \* hot reloads so far

server == <<main, target, shutdown, reloads>>
vars == <<services, channels, pc, key, watching, lock, refused, displaced,
          server>>

PCs == {"none", "lookup", "reject", "auth", "lock", "ack", "insert",
        "visitor", "visitor_lock", "open", "failed"}

Handle == [k1 : Keys, k2 : Conns]  \* digest and nonce

TypeOK ==
  /\ services \subseteq Services
  /\ channels \in [map1 : SUBSET Handle, map2 : SUBSET Handle,
                  boxes : SUBSET Handle]
  /\ pc \in [Conns -> PCs]
  /\ key \in [Conns -> Keys]
  /\ watching \subseteq Conns
  /\ lock \subseteq Conns
  /\ refused \subseteq Conns
  /\ displaced \subseteq Conns
  /\ main \in {"loop", "add", "adding", "delete", "deleting", "clearing",
              "done"}
  /\ target \in Services
  /\ shutdown \in BOOLEAN
  /\ reloads \in Nat

\* generate_service_hashmap and from_config_and_transport; the connections
\* differ in what they will ask for.
Init ==
  /\ services = Services
  /\ channels = Empty
  /\ pc = [c \in Conns |-> "none"]
  /\ key \in [Conns -> Keys]
  /\ watching = {}
  /\ lock = {}
  /\ refused = {}
  /\ displaced = {}
  /\ main = "loop"
  /\ target \in Services
  /\ shutdown = FALSE
  /\ reloads = 0

Goto(c, to) == pc' = [pc EXCEPT ![c] = to]

\* A handle that is removed is dropped.
Drop(hs) == displaced' = displaced \cup {h.k2 : h \in hs}

Remove(k) ==
  /\ channels' = remove1(channels, k)
  /\ Drop(get1(channels, k))

\* handle_hot_reload's Add keeps the write lock of services while it waits for
\* the map; the reply ServiceNotExist is written under the read lock.
ServicesReadable == main # "adding"
ServicesWritable == \A c \in Conns : pc[c] # "reject"
-----------------------------------------------------------------------------
(* Server::run and handle_connection *)

\* A connection is accepted.  Its task subscribes to the shutdown signal now
\* and misses one that was sent before.
Accept(c) ==
  /\ main = "loop"
  /\ pc[c] = "none"
  /\ Goto(c, IF key[c] \in Services THEN "lookup" ELSE "visitor")
  /\ watching' = IF shutdown THEN watching ELSE watching \cup {c}
  /\ UNCHANGED <<services, channels, key, lock, refused, displaced, server>>

Active(c) == pc[c] \notin {"none", "insert", "open", "failed"}

\* Mutant: a failed handshake keeps its lock.
AbortKeepsLock(c) ==
  /\ Active(c)
  /\ \/ pc[c] \in {"lookup", "reject", "auth", "ack", "visitor"}
     \/ shutdown /\ c \in watching
  /\ Goto(c, "failed")
  /\ UNCHANGED <<services, channels, key, watching, lock, refused, displaced,
                 server>>

\* The task ends early: a read or a write fails, the authentication fails, or
\* the shutdown signal cancels it at an await.  Its guards are released.
Abort(c) ==
  /\ Active(c)
  /\ \/ pc[c] \in {"lookup", "reject", "auth", "ack", "visitor"}
     \/ shutdown /\ c \in watching
  /\ Goto(c, "failed")
  /\ lock' = lock \ {c}
  /\ UNCHANGED <<services, channels, key, watching, refused, displaced, server>>

\* do_control_channel_handshake sends its hello and looks the service up.
Lookup(c) ==
  /\ pc[c] = "lookup"
  /\ ServicesReadable
  /\ Goto(c, IF key[c] \in services THEN "auth" ELSE "reject")
  /\ UNCHANGED <<services, channels, key, watching, lock, refused, displaced,
                 server>>

ReadAuth(c) ==
  /\ pc[c] = "auth"
  /\ Goto(c, "lock")
  /\ UNCHANGED <<services, channels, key, watching, lock, refused, displaced,
                 server>>

\* Mutant: the previous handle stays.
LockMapKeepsOld(c) ==
  /\ pc[c] = "lock"
  /\ lock = {}
  /\ lock' = {c}
  /\ Goto(c, "ack")
  /\ UNCHANGED <<services, channels, key, watching, refused, displaced, server>>

\* The write lock of the map is taken and the previous handle dropped.
LockMap(c) ==
  /\ pc[c] = "lock"
  /\ lock = {}
  /\ lock' = {c}
  /\ Remove(key[c])
  /\ Goto(c, "ack")
  /\ UNCHANGED <<services, key, watching, refused, server>>

\* Mutant: the lock is released before the handle is inserted.
AckOkUnlocks(c) ==
  /\ pc[c] = "ack"
  /\ lock' = lock \ {c}
  /\ Goto(c, "insert")
  /\ UNCHANGED <<services, channels, key, watching, refused, displaced, server>>

\* Ack::Ok is written and ControlChannelHandle::new starts the tasks, still
\* under the lock.
AckOk(c) ==
  /\ pc[c] = "ack"
  /\ Goto(c, "insert")
  /\ UNCHANGED <<services, channels, key, watching, lock, refused, displaced,
                 server>>

\* The handle is inserted; a refusal of insert is ignored.
Insert(c) ==
  /\ pc[c] = "insert"
  /\ channels' = insert(channels, key[c], c)
  /\ lock' = lock \ {c}
  /\ Goto(c, "open")
  /\ UNCHANGED <<services, key, watching, refused, displaced, server>>

\* do_visitor_channel_handshake accepts the visitor client, sends the session
\* nonce and starts the tasks before it takes the lock.
VisitorAck(c) ==
  /\ pc[c] = "visitor"
  /\ Goto(c, "visitor_lock")
  /\ UNCHANGED <<services, channels, key, watching, lock, refused, displaced,
                 server>>

\* Mutant: a visitor channel is entered among the configured services.
VisitorInsertAsService(c) ==
  /\ pc[c] = "visitor_lock"
  /\ lock = {}
  /\ services' = services \cup {key[c]}
  /\ Goto(c, "open")
  /\ UNCHANGED <<channels, key, watching, lock, refused, displaced, server>>

\* The visitor channel replaces an earlier one for the same user and address.
VisitorInsert(c) ==
  /\ pc[c] = "visitor_lock"
  /\ lock = {}
  /\ channels' = insert(remove1(channels, key[c]), key[c], c)
  /\ Drop(get1(channels, key[c]))
  /\ Goto(c, "open")
  /\ UNCHANGED <<services, key, watching, lock, refused, server>>

\* do_data_channel_handshake for a session whose tasks have started: the
\* nonce is looked up under the read lock of the map.
DataChannel(c) ==
  /\ pc[c] \in {"insert", "visitor_lock", "open"}
  /\ lock = {}
  /\ refused' = IF get2(channels, c) # {} THEN refused ELSE refused \cup {c}
  /\ UNCHANGED <<services, channels, pc, key, watching, lock, displaced,
                 server>>
-----------------------------------------------------------------------------
(* handle_hot_reload and the end of Server::run *)

\* update_rx delivers ServerServiceChange::Add or ::Delete; until it is handled
\* the loop accepts nothing and sees no shutdown.
StartReload(k, change) ==
  /\ main = "loop"
  /\ reloads < MaxReloads
  /\ change = "delete" => k \in services
  /\ main' = change
  /\ target' = k
  /\ reloads' = reloads + 1
  /\ UNCHANGED <<services, channels, pc, key, watching, lock, refused,
                 displaced, shutdown>>

\* The first half of both: the map of services changes.
ReloadServices ==
  /\ ServicesWritable
  /\ \/ /\ main = "add"
        /\ services' = services \cup {target}
        /\ main' = "adding"
     \/ /\ main = "delete"
        /\ services' = services \ {target}
        /\ main' = "deleting"
  /\ UNCHANGED <<channels, pc, key, watching, lock, refused, displaced, target,
                 shutdown, reloads>>

\* The second half of both: the control channel is dropped.
ReloadRemove ==
  /\ main \in {"adding", "deleting"}
  /\ lock = {}
  /\ Remove(target)
  /\ main' = "loop"
  /\ UNCHANGED <<services, pc, key, watching, lock, refused, target, shutdown,
                 reloads>>

SendShutdown ==
  /\ ~shutdown
  /\ shutdown' = TRUE
  /\ UNCHANGED <<services, channels, pc, key, watching, lock, refused,
                 displaced, main, target, reloads>>

ShutdownReceived ==
  /\ main = "loop"
  /\ shutdown
  /\ main' = "clearing"
  /\ UNCHANGED <<services, channels, pc, key, watching, lock, refused,
                 displaced, target, shutdown, reloads>>

Clear ==
  /\ main = "clearing"
  /\ lock = {}
  /\ channels' = clear(channels)
  /\ Drop(channels.map2)
  /\ main' = "done"
  /\ UNCHANGED <<services, pc, key, watching, lock, refused, target, shutdown,
                 reloads>>

Handshake(c) ==
  \/ Lookup(c) \/ ReadAuth(c) \/ LockMap(c) \/ AckOk(c) \/ Insert(c)
  \/ VisitorAck(c) \/ VisitorInsert(c) \/ Abort(c)

Next ==
  \/ \E c \in Conns : Accept(c) \/ Handshake(c) \/ DataChannel(c)
  \/ \E k \in Services : StartReload(k, "add") \/ StartReload(k, "delete")
  \/ ReloadServices \/ ReloadRemove \/ SendShutdown \/ ShutdownReceived \/ Clear

Spec == Init /\ [][Next]_vars

\* Tasks that hold or wait for a lock go on, and a reply is written or fails.
\* A handshake may wait for ever for the peer's authentication: the read has
\* no timeout.
FairSpec ==
  /\ Spec
  /\ \A c \in Conns :
       /\ WF_vars(LockMap(c)) /\ WF_vars(Insert(c)) /\ WF_vars(VisitorInsert(c))
       /\ WF_vars(AckOk(c) \/ (pc[c] \in {"ack", "reject"} /\ Abort(c)))
  /\ WF_vars(ReloadServices) /\ WF_vars(ReloadRemove)
  /\ SF_vars(ShutdownReceived) /\ WF_vars(Clear)
-----------------------------------------------------------------------------
(* Properties *)

\* The insert whose result do_control_channel_handshake ignores never fails:
\* the lock is held from the removal of the old handle to the insertion, over
\* the write of the Ack.  A client that got Ack::Ok would otherwise be left
\* without a handle.
InsertSucceeds ==
  \A c \in Conns : pc[c] = "insert" =>
    get1(channels, key[c]) = {} /\ get2(channels, c) = {}

\* The map of handles stays sound through the handshakes, reloads and the
\* shutdown: no key or item of MultiMap points to a freed box, no handle is
\* leaked, which would keep its control channel alive, and the two maps agree.
MapSound == Sound(channels)

\* To a data channel, which finds its session by nonce, the server is the
\* registry: one session for each service, entered once, gone for good.
Registry == INSTANCE SessionRegistry
              WITH Services <- Keys, Sessions <- Conns,
                   owner <- {<<h.k1, h.k2>> : h \in channels.map2},
                   over <- displaced
ImplementsRegistry == Registry!Spec

\* A data channel of a control channel is refused ("incorrect nonce") only
\* after the session's handle was removed: the client learns of the session
\* before the handle is in the map, but the lock makes its data channels wait.
RefusedOnlyIfDisplaced ==
  \A c \in refused : key[c] \in Services => c \in displaced

\* A handshake that waits for the map gets it: nobody keeps the lock.
LockGranted ==
  \A c \in Conns :
    (pc[c] \in {"lock", "visitor_lock"}) ~> (pc[c] \in {"open", "failed"})

\* Server::run returns after the shutdown signal, also when the signal comes
\* during a hot reload or a handshake that holds a lock.
ShutdownCompletes == shutdown ~> (main = "done")

\* Once a hot reload is done, no control channel serves a service that it
\* removed.
RemovedNotServed ==
  main = "loop" =>
    \A h \in channels.map1 : h.k1 \in Services => h.k1 \in services
=============================================================================
