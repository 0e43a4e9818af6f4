------------------------------- MODULE Config -------------------------------
(***************************************************************************)
(* The configuration file (config.rs) and the role it selects (lib.rs):    *)
(* what parsing and validation make of the contents of the file.           *)
(*                                                                         *)
(* A block has a set of services with distinct names.  An option that is   *)
(* not given is None; `body' is what the rest of a service's table says.   *)
(***************************************************************************)
CONSTANTS
  None,      \* an option that is not given, a block that is not there
  Default,   \* the user "default"
  Garbage,   \* contents that are not TOML, or not of the expected shape
  Invalid    \* from_str returned an error

ASSUME ConfigAssumption == Default # None

\* The proxy is socks5 or http, and a UDP transport has a key.
validate_transport_config(t) ==
  /\ t.proxy \in {None, "socks5", "http"}
  /\ t.type = "udp" => t.psk \notin {None, "empty"}

Given(option, otherwise) == IF option = None THEN otherwise ELSE option

\* Mutant: a service without a token is accepted.
validate_server_config_lax(b) ==
  LET Owner(s) == Given(s.user, Default)
      Token(s) == Given(s.token, b.users[Owner(s)])
  IN IF /\ \A s \in b.services : Owner(s) \in DOMAIN b.users
        /\ validate_transport_config(b.transport)
     THEN [users |-> b.users, transport |-> b.transport,
           services |-> {[name |-> s.name, body |-> s.body,
                          user |-> Owner(s), token |-> Token(s)] :
                            s \in b.services}]
     ELSE Invalid

\* Every service belongs to a user of the table, "default" if it names none,
\* and has a token, its user's if it has none of its own.
validate_server_config(b) ==
  LET Owner(s) == Given(s.user, Default)
      Token(s) == Given(s.token, b.users[Owner(s)])
  IN IF /\ \A s \in b.services :
             Owner(s) \in DOMAIN b.users /\ Token(s) # None
        /\ validate_transport_config(b.transport)
     THEN [users |-> b.users, transport |-> b.transport,
           services |-> {[name |-> s.name, body |-> s.body,
                          user |-> Owner(s), token |-> Token(s)] :
                            s \in b.services}]
     ELSE Invalid

\* A service takes what it does not say itself from the block.
validate_client_config(b) ==
  LET Token(s) == Given(s.token, b.token)
  IN IF /\ \A s \in b.services : Token(s) # None
        /\ validate_transport_config(b.transport)
     THEN [user |-> b.user, token |-> b.token, transport |-> b.transport,
           retry_interval |-> b.retry_interval,
           services |-> {[name |-> s.name, body |-> s.body,
                          user |-> Given(s.user, Given(b.user, Default)),
                          token |-> Token(s),
                          retry_interval |->
                            Given(s.retry_interval, b.retry_interval)] :
                              s \in b.services}]
     ELSE Invalid

from_str(f) ==
  IF f = Garbage THEN Invalid
  ELSE LET server == IF f.server = None THEN None
                     ELSE validate_server_config(f.server)
           client == IF f.client = None THEN None
                     ELSE validate_client_config(f.client)
       IN IF Invalid \in {server, client} \/ {server, client} = {None}
          THEN Invalid
          ELSE [server |-> server, client |-> client]

\* The flags of the command line decide, then the only block.
determine_run_mode(c, args) ==
  CASE args = {"client", "server"} -> "undetermined"
    [] args = {"client"} -> "client"
    [] args = {"server"} -> "server"
    [] args = {} /\ c.server = None -> "client"
    [] args = {} /\ c.client = None -> "server"
    [] OTHER -> "undetermined"
=============================================================================
