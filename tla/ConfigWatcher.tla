---------------------------- MODULE ConfigWatcher ----------------------------
(***************************************************************************)
(* Hot reload from the configuration file to the running instance: the     *)
(* watcher that turns a changed file into events (config_watcher.rs), the  *)
(* main loop that restarts the instance or passes the events on (lib.rs),  *)
(* and the instance's own record of its services (handle_hot_reload of     *)
(* server.rs and of client.rs).                                            *)
(***************************************************************************)
EXTENDS Naturals, Sequences, FiniteSets, Config

CONSTANTS
  Contents,    \* what the file may say: Garbage, or a server and a client block
  CommandLines,  \* the flags rathole may be started with
  UpdateCap,   \* 1024, capacity of the channel of service changes
  MaxEdits     \* bound: changes of the file

Roles == {"server", "client"}
Configs == {from_str(f) : f \in Contents} \ {Invalid}
Services(r) == UNION {c[r].services : c \in {d \in Configs : d[r] # None}}

\* The services of a block are a map by name.
Table(S) == \A s, t \in S : s.name = t.name => s = t

\* retry_interval has a default.
ASSUME WatcherAssumption ==
  /\ \A f \in Contents : f # Garbage =>
       /\ f.server # None => Table(f.server.services)
       /\ f.client # None => /\ Table(f.client.services)
                            /\ f.client.retry_interval # None
  /\ CommandLines \subseteq SUBSET Roles
  /\ UpdateCap \in Nat \ {0}
  /\ MaxEdits \in Nat

VARIABLES
  args,      \* the flags of the command line
  file,      \* what the file says
  noticed,   \* its last change was made under the eyes of the watcher
  fevents,   \* notifications the watcher has not read
  watcher,   \* the watcher task
  old,       \* the last configuration the watcher has reported
  events,    \* event_rx: changes the main loop has not read
  main,      \* the main loop
  next,      \* the configuration of the instance to be started
  inst,      \* the instance
  mode,      \* the role it runs in
  stop,      \* the instance was told to shut down
  updates,   \* changes the instance has not read
  running,   \* its block of the configuration, without services
  live,      \* the services the instance knows
  moved,     \* history: names that changed their user since it was started
  edits      \* changes of the file so far

source == <<args, file, noticed, edits>>
watch == <<fevents, watcher, old>>
instance == <<inst, mode, stop, updates, running, live, moved>>
vars == <<source, watch, events, main, next, instance>>

General(c) == [kind |-> "General", config |-> c]
Add(r, s) == [kind |-> "Add", role |-> r, service |-> s]
Delete(r, n) == [kind |-> "Delete", role |-> r, name |-> n]

ServiceChange ==
  UNION {{Add(r, s) : s \in Services(r)} \cup
         {Delete(r, s.name) : s \in Services(r)} : r \in Roles}
ConfigChange == ServiceChange \cup {General(c) : c \in Configs}

\* Whether two blocks differ in their services at most; both may be missing.
WithoutServices(b) == [b EXCEPT !.services = {}]
equal_without_service(b, d) ==
  /\ b = None <=> d = None
  /\ b # None => WithoutServices(b) = WithoutServices(d)

TypeOK ==
  /\ args \in CommandLines
  /\ file \in Contents
  /\ noticed \in BOOLEAN
  /\ fevents \in Nat
  /\ watcher \in {"start", "run", "done"}
  /\ old \in Configs
  /\ events \in Seq(ConfigChange)
  /\ main \in {"loop", "stopping", "closing", "done", "error"}
  /\ next \in Configs
  /\ inst \in {"none", "run", "ended", "failed"}
  /\ mode \in Roles \cup {"undetermined"}
  /\ stop \in BOOLEAN
  /\ updates \in Seq(ServiceChange) /\ Len(updates) <= UpdateCap
  /\ inst = "run" => \E c \in Configs :
       mode \in Roles /\ c[mode] # None /\ running = WithoutServices(c[mode])
  /\ mode \in Roles => live \subseteq Services(mode)
  /\ mode \notin Roles => live = {}
  /\ edits \in 0..MaxEdits

\* ConfigWatcherHandle::new has read a valid file, queued the change that
\* starts the instance and spawned the watcher.
Init ==
  /\ args \in CommandLines
  /\ file \in Contents
  /\ noticed = TRUE
  /\ fevents = 0
  /\ watcher = "start"
  /\ old = from_str(file)
  /\ old # Invalid
  /\ events = <<General(old)>>
  /\ main = "loop"
  /\ next = old
  /\ inst = "none"
  /\ mode = "undetermined"
  /\ stop = FALSE
  /\ updates = <<>>
  /\ running = None
  /\ live = {}
  /\ moved = {}
  /\ edits = 0
-----------------------------------------------------------------------------
(* The file and the watcher *)

Edit(f) ==
  /\ edits < MaxEdits
  /\ f # file
  /\ edits' = edits + 1
  /\ file' = f
  /\ noticed' = (watcher = "run")
  /\ fevents' = IF watcher = "run" THEN fevents + 1 ELSE fevents
  /\ UNCHANGED <<args, watcher, old, events, main, next, instance>>

\* watcher.watch; when it fails the task returns, and its end of events closes.
Watch ==
  /\ watcher = "start"
  /\ watcher' \in {"run", "done"}
  /\ UNCHANGED <<source, fevents, old, events, main, next, instance>>

\* Mutant: a service that is only changed is not reported.
AdditionsNew(r, b, d) ==
  {Add(r, s) : s \in {t \in d.services : \A u \in b.services : u.name # t.name}}

\* calculate_instance_config_events
Deletions(r, b, d) ==
  {Delete(r, s.name) : s \in {t \in b.services :
                                \A u \in d.services : u.name # t.name}}
Additions(r, b, d) == {Add(r, s) : s \in d.services \ b.services}

\* The orders in which a hash map may be iterated: nothing is missed, and
\* nothing comes twice.
Orders(S) ==
  {q \in UNION {[1..n -> S] : n \in 0..Cardinality(S)} :
     \A x \in S : \E i \in DOMAIN q : q[i] = x}

BlockEvents(r, b, d) ==
  IF b = None THEN {<<>>}
  ELSE {dels \o adds : dels \in Orders(Deletions(r, b, d)),
                       adds \in Orders(Additions(r, b, d))}

\* calculate_events: one General change, or those of the server's services
\* and then those of the client's, deletions before additions.
CalculateEvents(c, d) ==
  IF \E r \in Roles : ~equal_without_service(c[r], d[r])
  THEN {<<General(d)>>}
  ELSE {p \o q : p \in BlockEvents("server", c.server, d.server),
                 q \in BlockEvents("client", c.client, d.client)}

\* A notification makes the watcher read the file.  What is invalid is
\* ignored; the watcher ends when nobody listens.
Rescan ==
  /\ watcher = "run"
  /\ fevents > 0
  /\ fevents' = fevents - 1
  /\ LET new == from_str(file) IN
     \/ /\ new = Invalid
        /\ UNCHANGED <<watcher, old, events>>
     \/ /\ new # Invalid
        /\ \E q \in CalculateEvents(old, new) :
             IF q # <<>> /\ main \in {"done", "error"}
             THEN watcher' = "done" /\ UNCHANGED <<old, events>>
             ELSE old' = new /\ events' = events \o q /\ UNCHANGED watcher
  /\ UNCHANGED <<source, main, next, instance>>

\* The process is asked to shut down; what is queued is still handled.
WatcherShutdown ==
  /\ watcher = "run"
  /\ watcher' = "done"
  /\ UNCHANGED <<source, fevents, old, events, main, next, instance>>
-----------------------------------------------------------------------------
(* The main loop: run of lib.rs *)

\* run_instance is spawned with a new channel of changes.  It panics without a
\* role and fails without a block for its role.
Start(c) ==
  /\ mode' = determine_run_mode(c, args)
  /\ stop' = FALSE
  /\ updates' = <<>>
  /\ moved' = {}
  /\ \/ /\ mode' \in Roles /\ c[mode'] # None
        /\ inst' = "run"
        /\ running' = WithoutServices(c[mode'])
        /\ live' = c[mode'].services
     \/ /\ mode' \in Roles => c[mode'] = None
        /\ inst' = "failed"
        /\ running' = None
        /\ live' = {}

\* Mutant: the running instance is not told to shut down.
MainGeneralSilent ==
  /\ main = "loop"
  /\ events # <<>> /\ Head(events).kind = "General"
  /\ events' = Tail(events)
  /\ next' = Head(events).config
  /\ \/ inst = "none" /\ Start(next') /\ UNCHANGED main
     \/ inst = "run" /\ main' = "stopping" /\ UNCHANGED instance
  /\ UNCHANGED <<source, watch>>

\* A General change starts the first instance, or tells the running one to shut
\* down.  When the instance has failed nobody receives the signal, and the
\* process ends.
MainGeneral ==
  /\ main = "loop"
  /\ events # <<>> /\ Head(events).kind = "General"
  /\ events' = Tail(events)
  /\ next' = Head(events).config
  /\ \/ inst = "none" /\ Start(next') /\ UNCHANGED main
     \/ /\ inst = "run"
        /\ main' = "stopping" /\ stop' = TRUE
        /\ UNCHANGED <<inst, mode, updates, running, live, moved>>
     \/ inst = "failed" /\ main' = "error" /\ UNCHANGED instance
  /\ UNCHANGED <<source, watch>>

\* i.await?? returns.
MainRestart ==
  /\ main = "stopping"
  /\ \/ inst = "ended" /\ main' = "loop" /\ Start(next)
     \/ inst = "failed" /\ main' = "error" /\ UNCHANGED instance
  /\ UNCHANGED <<source, watch, events, next>>

\* Mutant: a change that finds no room is queued all the same.
MainServiceUnbounded ==
  /\ main = "loop"
  /\ events # <<>> /\ Head(events).kind # "General"
  /\ events' = Tail(events)
  /\ updates' = Append(updates, Head(events))
  /\ UNCHANGED <<source, watch, main, next, inst, mode, stop, running, live,
                 moved>>

\* A service change is sent to the instance, waiting for room; nobody takes
\* it when the instance has failed.
MainService ==
  /\ main = "loop"
  /\ events # <<>> /\ Head(events).kind # "General"
  /\ events' = Tail(events)
  /\ \/ /\ inst = "run"
        /\ Len(updates) < UpdateCap
        /\ updates' = Append(updates, Head(events))
     \/ inst = "failed" /\ UNCHANGED updates
  /\ UNCHANGED <<source, watch, main, next, inst, mode, stop, running, live,
                 moved>>

\* Mutant: the instance is not told that the watcher has ended.
MainClosedSilent ==
  /\ main = "loop"
  /\ watcher = "done" /\ events = <<>>
  /\ main' = "closing"
  /\ UNCHANGED <<source, watch, events, next, instance>>

\* The watcher has ended and its events are handled.
MainClosed ==
  /\ main = "loop"
  /\ watcher = "done" /\ events = <<>>
  /\ main' = "closing"
  /\ stop' = TRUE
  /\ UNCHANGED <<source, watch, events, next, inst, mode, updates,
                 running, live, moved>>

MainExit ==
  /\ main = "closing"
  /\ inst \in {"ended", "failed"}
  /\ main' = "done"
  /\ UNCHANGED <<source, watch, events, next, instance>>
-----------------------------------------------------------------------------
(* The instance *)

\* The server finds a service by the digest of user and name, the client by
\* its name.
Key(s) == IF mode = "server" THEN <<s.user, s.name>> ELSE <<s.name>>

\* handle_hot_reload.  A change for the other role is ignored; Delete removes
\* the first service of that name it meets.
InstanceUpdate ==
  /\ inst = "run"
  /\ updates # <<>>
  /\ updates' = Tail(updates)
  /\ LET e == Head(updates)
         named(n) == {t \in live : t.name = n}
     IN \/ /\ e.role = mode /\ e.kind = "Add"
           /\ live' = {t \in live : Key(t) # Key(e.service)} \cup {e.service}
           /\ moved' = moved \cup {t.name : t \in {u \in named(e.service.name) :
                                                  u.user # e.service.user}}
        \/ /\ e.role = mode /\ e.kind = "Delete"
           /\ \E t \in named(e.name) : live' = live \ {t}
           /\ UNCHANGED moved
        \/ /\ e.role # mode \/ (e.kind = "Delete" /\ named(e.name) = {})
           /\ UNCHANGED <<live, moved>>
  /\ UNCHANGED <<source, watch, events, main, next, inst, mode, stop, running>>

\* The shutdown signal is received, maybe with changes unread.
InstanceStop ==
  /\ inst = "run"
  /\ stop
  /\ inst' = "ended"
  /\ updates' = <<>>
  /\ UNCHANGED <<source, watch, events, main, next, mode, stop, running, live,
                 moved>>

\* run_instance returns an error: an address cannot be bound, for one.
InstanceFail ==
  /\ inst = "run"
  /\ inst' = "failed"
  /\ updates' = <<>>
  /\ UNCHANGED <<source, watch, events, main, next, mode, stop, running, live,
                 moved>>

Next ==
  \/ \E f \in Contents : Edit(f)
  \/ Watch \/ Rescan \/ WatcherShutdown
  \/ MainGeneral \/ MainRestart \/ MainService \/ MainClosed \/ MainExit
  \/ InstanceUpdate \/ InstanceStop \/ InstanceFail

Spec == Init /\ [][Next]_vars

\* The tasks go on; nothing makes the file change, an instance fail or the
\* process shut down.
FairSpec ==
  /\ Spec
  /\ WF_vars(Watch) /\ WF_vars(Rescan)
  /\ WF_vars(\/ MainGeneral \/ MainRestart \/ MainService
             \/ MainClosed \/ MainExit)
  /\ WF_vars(InstanceUpdate) /\ WF_vars(InstanceStop)
-----------------------------------------------------------------------------
(* Properties *)

Settled ==
  /\ fevents = 0 /\ events = <<>> /\ updates = <<>>
  /\ main = "loop"

\* When every notification and every change has been handled, the running
\* instance has the role, the general part and the services of the file, or of
\* the last valid contents the watcher read: from_str, calculate_events, the
\* channels and handle_hot_reload together lose and reorder nothing that
\* matters, also over a restart that leaves changes unread.  The one exception
\* is a server whose reload gave a service another user: as the server files
\* its services by user and name, and Delete names no user, entries of that
\* name may stay that the file does not have.
Applied ==
  Settled /\ inst = "run" =>
    /\ mode = determine_run_mode(old, args)
    /\ running = WithoutServices(old[mode])
    /\ old[mode].services \subseteq live
    /\ \A s \in live \ old[mode].services : mode = "server" /\ s.name \in moved
    /\ watcher = "run" /\ noticed /\ from_str(file) # Invalid =>
         old = from_str(file)

\* "All Option are optional in configuration but must be Some value in
\* runtime" (config.rs), for the options that validation fills in: a service of
\* the file that an instance knows, from its start or by a reload, has a user, a
\* token, which the handshakes would otherwise take to be empty, and on the
\* client an interval, which the retry loop unwraps.  The comment does not hold
\* of nodelay, proxy_protocol and remote_bind_addr, which may stay None and are
\* read as such, nor of the token of the service that a visitor handshake makes
\* (server.rs).
OptionsFilled ==
  \A s \in live :
    /\ None \notin {s.user, s.token}
    /\ mode = "client" => s.retry_interval # None

\* A change of the file is handled to the end, unless the process shuts down
\* or its instance fails.
EditsHandled ==
  watcher = "run" /\ fevents > 0
    ~> Settled \/ watcher = "done" \/ inst = "failed" \/ main = "error"

\* The process ends after the watcher has seen the shutdown signal or failed,
\* whatever changes were queued and also during a restart.
ShutdownEnds == watcher = "done" ~> main \in {"done", "error"}
=============================================================================
