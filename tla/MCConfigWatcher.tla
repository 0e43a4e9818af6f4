--------------------------- MODULE MCConfigWatcher --------------------------
(***************************************************************************)
(* ConfigWatcher with sixteen files.  Among them are two that differ in    *)
(* several services, in a service's user, in the table of users (a restart *)
(* that overtakes changes not yet read), in the blocks they have, and      *)
(* files that are refused for every reason there is.  A channel of one     *)
(* makes the main loop wait for room.                                      *)
(***************************************************************************)
EXTENDS ConfigWatcher, TLC

CONSTANTS n1, n2, u1, t1, t2, b1, b2

Tcp == [type |-> "tcp", proxy |-> None, psk |-> None]
Socks4 == [type |-> "tcp", proxy |-> "socks4", psk |-> None]
NoKey == [type |-> "udp", proxy |-> "http", psk |-> "empty"]

UserTable(t) == Default :> t @@ u1 :> t2

Server(users, services, transport) ==
  [users |-> users, services |-> services, transport |-> transport]
ServerService(n, u, t, b) ==
  [name |-> n, user |-> u, token |-> t, body |-> b]

Client(token, services, transport) ==
  [user |-> None, token |-> token, retry_interval |-> 1, services |-> services,
   transport |-> transport]
ClientService(n, u, t) ==
  [name |-> n, user |-> u, token |-> t, retry_interval |-> None, body |-> b1]

One == Server(UserTable(t1), {ServerService(n1, None, None, b1)}, Tcp)
Two == Server(UserTable(t1), {ServerService(n1, None, t2, b2),
                          ServerService(n2, u1, None, b1)}, Tcp)
Moved == Server(UserTable(t1), {ServerService(n1, u1, None, b1)}, Tcp)
Gone == Server(UserTable(t1), {ServerService(n2, None, None, b1)}, Tcp)
Changed == Server(UserTable(t2), {ServerService(n1, None, None, b1)}, Tcp)

CServer(s) == [server |-> s, client |-> None]
CClient(c) == [server |-> None, client |-> c]

ClientOne == Client(t1, {ClientService(n1, None, None)}, Tcp)
ClientTwo == Client(t1, {ClientService(n1, u1, t2),
                         ClientService(n2, None, None)}, Tcp)

MCContents ==
  {Garbage, [server |-> None, client |-> None],
   CServer(Server(UserTable(None), {ServerService(n1, None, None, b1)}, Tcp)),
   CServer(Server(u1 :> t1, {ServerService(n1, None, t1, b1)}, Tcp)),
   CClient(Client(None, {ClientService(n1, u1, None)}, Tcp)),
   CClient(Client(t1, {}, NoKey)), CServer(Server(UserTable(t1), {}, Socks4))}
  \cup {CServer(s) : s \in {One, Two, Moved, Gone, Changed}}
  \cup {CClient(c) : c \in {ClientOne, ClientTwo}}
  \cup {[server |-> s, client |-> c] : s \in {One, Two}, c \in {ClientOne}}
=============================================================================
