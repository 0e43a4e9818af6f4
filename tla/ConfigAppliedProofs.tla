----------------------- MODULE ConfigAppliedProofs -----------------------
(***************************************************************************)
(* For every set of configurations a file may hold, every command line and *)
(* every capacity of the channel of service changes: once every            *)
(* notification and every change has been handled, the running instance is *)
(* what the file says.                                                     *)
(***************************************************************************)
EXTENDS ConfigWatcherProofs
-----------------------------------------------------------------------------
(* What a rescan reports *)

\* The report of one block: a service that is gone or differs has a change,
\* and every change says what the new block has.
LEMMA BlockReports ==
  ASSUME NEW r, NEW b, NEW d, Table(b.services), Table(d.services), b # None,
         NEW q \in BlockEvents(r, b, d)
  PROVE  /\ Reports(q, r, b.services, d.services)
         /\ \A i \in 1..Len(q) : q[i].role = r /\ q[i].kind # "General"
<1> DEFINE D == Deletions(r, b, d)
           A == Additions(r, b, d)
<1>1. PICK dels \in Orders(D), adds \in Orders(A) : q = dels \o adds
  BY DEF BlockEvents
<1>3. \A x \in D : /\ x.role = r /\ x.kind = "Delete" /\ Subject(x) = x.name
                   /\ \A u \in d.services : u.name # x.name
  BY DEF Deletions, Delete, Subject
<1>4. \A x \in A : /\ x.role = r /\ x.kind = "Add"
                   /\ Subject(x) = x.service.name
                   /\ x.service \in d.services
  BY DEF Additions, Add, Subject
<1>5. \A s \in b.services : (\A u \in d.services : u.name # s.name) =>
        \E x \in D : Subject(x) = s.name
  <2>1. \A n : Subject(Delete(r, n)) = n
    BY DEF Delete, Subject
  <2> QED
    BY <2>1 DEF Deletions
<1>6. \A s \in d.services \ b.services : \E x \in A : Subject(x) = s.name
  <2>1. \A s : Subject(Add(r, s)) = s.name
    BY DEF Add, Subject
  <2> QED
    BY <2>1 DEF Additions
<1> HIDE DEF D, A
<1>7. dels \in Seq(D) /\ adds \in Seq(A)
  BY <1>1, OrderSeq
<1>8. /\ Len(dels) \in Nat /\ Len(adds) \in Nat
      /\ Len(q) = Len(dels) + Len(adds)
      /\ \A i \in 1..Len(dels) : q[i] = dels[i] /\ dels[i] \in D
      /\ \A i \in 1..Len(adds) : q[Len(dels) + i] = adds[i] /\ adds[i] \in A
  BY <1>1, <1>7, SMTT(30)
<1>9. \A i \in 1..Len(q) : q[i] \in D \cup A
  <2> SUFFICES ASSUME NEW i \in 1..Len(q)
               PROVE  q[i] \in D \cup A
    OBVIOUS
  <2>1. CASE i <= Len(dels)
    BY <2>1, <1>8
  <2>2. CASE i > Len(dels)
    <3>1. i - Len(dels) \in 1..Len(adds) /\ i = Len(dels) + (i - Len(dels))
      BY <2>2, <1>8
    <3> QED
      BY <3>1, <1>8, ZenonT(30)
  <2> QED
    BY <2>1, <2>2, <1>8
<1>10. \A x \in D \cup A : \E i \in 1..Len(q) : q[i] = x
  <2>1. ASSUME NEW x \in D PROVE \E i \in 1..Len(q) : q[i] = x
    BY <1>1, <1>8, OrderSeq
  <2>2. ASSUME NEW x \in A PROVE \E i \in 1..Len(q) : q[i] = x
    <3>1. PICK i \in 1..Len(adds) : adds[i] = x
      BY <1>1, OrderSeq
    <3>2. Len(dels) + i \in 1..Len(q) /\ q[Len(dels) + i] = x
      BY <3>1, <1>8
    <3> QED
      BY <3>2
  <2> QED
    BY <2>1, <2>2
<1>11. ASSUME NEW x \in D \cup A PROVE ~Quiet(q, 0, r, Subject(x))
  BY <1>3, <1>4, <1>10 DEF Quiet
<1>12. \A i \in 1..Len(q) : q[i].role = r /\ q[i].kind # "General"
                             /\ Says(q[i], d.services)
  BY <1>3, <1>4, <1>9 DEF Says
<1>13. ASSUME NEW s \in b.services \cup d.services, Quiet(q, 0, r, s.name)
       PROVE  s \in b.services <=> s \in d.services
  BY <1>5, <1>6, <1>11, <1>13, SMTT(30) DEF Table
<1> QED
  BY <1>12, <1>13 DEF Reports

\* A report keeps its meaning among changes of the other role.
LEMMA ReportsConcat ==
  ASSUME NEW X, NEW p \in Seq(X), NEW q \in Seq(X), NEW r, NEW S, NEW T,
         \/ Reports(p, r, S, T) /\ \A i \in 1..Len(q) : q[i].role # r
         \/ Reports(q, r, S, T) /\ \A i \in 1..Len(p) : p[i].role # r
  PROVE  Reports(p \o q, r, S, T)
<1>1. /\ Len(p) \in Nat /\ Len(q) \in Nat
      /\ Len(p \o q) = Len(p) + Len(q)
      /\ \A i \in 1..Len(p) : (p \o q)[i] = p[i]
      /\ \A i \in 1..Len(q) : (p \o q)[Len(p) + i] = q[i]
  BY ConcatFacts, SMTT(30)
<1>2. PICK c : c = p \o q
  BY ZenonT(30)
<1>3. \A n : Quiet(c, 0, r, n) <=> Quiet(p, 0, r, n) /\ Quiet(q, 0, r, n)
  BY <1>1, <1>2, QuietConcat
<1>4. ASSUME NEW x, \A i \in 1..Len(x) : x[i].role # r
      PROVE  \A n : Quiet(x, 0, r, n)
  BY <1>4 DEF Quiet
<1>5. ASSUME NEW i \in 1..Len(c)
      PROVE  (\E j \in 1..Len(p) : c[i] = p[j]) \/ (\E j \in 1..Len(q) : c[i] = q[j])
  BY <1>1, <1>2
<1>6. \A i \in 1..Len(c) : c[i].role = r => Says(c[i], T)
  BY <1>5, ZenonT(30) DEF Reports
<1>7. \A s \in S \cup T : Quiet(c, 0, r, s.name) => (s \in S <=> s \in T)
  BY <1>3, Zenon DEF Reports
<1> QED
  BY <1>2, <1>6, <1>7, SMTT(30) DEF Reports

\* The empty report of a block that is missing.
LEMMA EmptyReport ==
  ASSUME NEW r, NEW d, NEW q \in BlockEvents(r, None, d)
  PROVE  q = <<>>
BY DEF BlockEvents

\* calculate_events: when the general parts are equal, the changes report the
\* services of both roles.
LEMMA EventsReport ==
  ASSUME NEW c \in Configs, NEW d \in Configs,
         \A r \in Roles : equal_without_service(c[r], d[r]),
         NEW q \in CalculateEvents(c, d)
  PROVE  /\ q \in Seq(ServiceChange)
         /\ \A i \in 1..Len(q) : q[i].kind # "General"
         /\ \A r \in Roles : c[r] # None =>
              Reports(q, r, c[r].services, d[r].services)
<1>1. PICK x \in BlockEvents("server", c.server, d.server),
           y \in BlockEvents("client", c.client, d.client) : q = x \o y
  BY DEF CalculateEvents
<1>2. x \in Seq(ServiceChange) /\ y \in Seq(ServiceChange)
  BY <1>1, BlockEventsType DEF Roles
<1>3. q \in Seq(ServiceChange)
  BY <1>1, <1>2
<1>4. \A i \in 1..Len(q) : q[i].kind # "General"
  BY <1>3, SMTT(30) DEF ServiceChange, Add, Delete
<1>5. ASSUME NEW r \in Roles, NEW p \in BlockEvents(r, c[r], d[r])
      PROVE  /\ c[r] # None => Reports(p, r, c[r].services, d[r].services)
             /\ \A i \in 1..Len(p) : p[i].role = r
  BY <1>5, BlockReports, ConfigValid, EmptyReport, SMTT(30) DEF equal_without_service
<1>6. /\ \A i \in 1..Len(x) : x[i].role = "server"
      /\ \A i \in 1..Len(y) : y[i].role = "client"
  BY <1>1, <1>5, SMTT(30) DEF Roles
<1>7. c["server"] # None =>
        Reports(q, "server", c["server"].services, d["server"].services)
  BY <1>1, <1>2, <1>5, <1>6, ReportsConcat, SMTT(30) DEF Roles
<1>8. c["client"] # None =>
        Reports(q, "client", c["client"].services, d["client"].services)
  BY <1>1, <1>2, <1>5, <1>6, ReportsConcat, SMTT(30) DEF Roles
<1> QED
  BY <1>3, <1>4, <1>7, <1>8, SMTT(30) DEF Roles
-----------------------------------------------------------------------------
(* Queues that lead from one configuration to another *)

\* The changes after position g of the queue lead from configuration c to d.
Leads(c, q, g, d) ==
  \A r \in Roles :
    /\ equal_without_service(c[r], d[r])
    /\ d[r] # None => Tracks(q, g, r, c[r].services, d[r].services, {})

LEMMA EqualTransitive ==
  ASSUME NEW a, NEW b, NEW d, equal_without_service(a, b),
         equal_without_service(b, d)
  PROVE  equal_without_service(a, d)
BY DEF equal_without_service

\* The role depends on which blocks there are.
LEMMA RunModeEqual ==
  ASSUME NEW c, NEW d, NEW a,
         \A r \in Roles : equal_without_service(c[r], d[r])
  PROVE  determine_run_mode(c, a) = determine_run_mode(d, a)
BY DEF equal_without_service, Roles, determine_run_mode

LEMMA LeadsSelf ==
  ASSUME NEW X, NEW q \in Seq(X), NEW c
  PROVE  Leads(c, q, Len(q), c)
BY DEF Tracks, equal_without_service, Leads

LEMMA LeadsShift ==
  ASSUME NEW X, NEW q \in Seq(X), q # <<>>, NEW g \in Nat, NEW c, NEW d,
         Leads(c, q, g + 1, d)
  PROVE  Leads(c, Tail(q), g, d)
BY TracksShift, SMTT(30) DEF Leads

\* A rescan that finds e in place of d.
LEMMA LeadsConcat ==
  ASSUME NEW c, NEW d \in Configs, NEW e \in Configs,
         \A r \in Roles : equal_without_service(d[r], e[r]),
         NEW q \in Seq(ConfigChange), NEW g \in 0..Len(q), Leads(c, q, g, d),
         NEW p \in CalculateEvents(d, e)
  PROVE  Leads(c, q \o p, g, e)
<1>0. p \in Seq(ConfigChange)
  BY EventsType, SMTT(30)
<1>1. ASSUME NEW r \in Roles
      PROVE  /\ equal_without_service(c[r], e[r])
             /\ e[r] # None =>
                  Tracks(q \o p, g, r, c[r].services, e[r].services, {})
  <2>1. /\ equal_without_service(c[r], d[r])
        /\ d[r] # None => Tracks(q, g, r, c[r].services, d[r].services, {})
    BY DEF Leads
  <2>2. equal_without_service(c[r], e[r])
    BY <2>1, EqualTransitive, SMTT(30)
  <2>3. ASSUME e[r] # None
        PROVE  Tracks(q \o p, g, r, c[r].services, e[r].services, {})
    BY <1>0, <2>1, <2>3, EventsReport, TracksConcat, SMTT(30) DEF equal_without_service
  <2> QED
    BY <2>2, <2>3
<1> QED
  BY <1>1 DEF Leads

LEMMA NoGeneralConcat ==
  ASSUME NEW X, NEW q \in Seq(X), NEW p \in Seq(X), NEW g \in 0..Len(q)
  PROVE  NoGeneral(q \o p, g) => NoGeneral(q, g) /\ NoGeneral(p, 0)
<1>1. /\ Len(q) \in Nat /\ Len(p) \in Nat
      /\ Len(q \o p) = Len(q) + Len(p)
      /\ \A i \in 1..Len(q) : (q \o p)[i] = q[i]
      /\ \A i \in 1..Len(p) : (q \o p)[Len(q) + i] = p[i]
  BY ConcatFacts
<1>2. PICK c : c = q \o p
  BY Zenon
<1> SUFFICES ASSUME \A i \in g + 1 .. Len(c) : c[i].kind # "General"
             PROVE  NoGeneral(q, g) /\ NoGeneral(p, 0)
  BY <1>2, SMTT(30) DEF NoGeneral
<1>3. ASSUME NEW i \in g + 1 .. Len(q) PROVE q[i].kind # "General"
  BY <1>1, <1>2
<1>4. ASSUME NEW i \in 1..Len(p) PROVE p[i].kind # "General"
  <2>1. Len(q) + i \in g + 1 .. Len(c) /\ c[Len(q) + i] = p[i]
    BY <1>1, <1>2
  <2> QED
    BY <2>1, SMTT(30)
<1> QED
  BY <1>3, <1>4 DEF NoGeneral

LEMMA NoGeneralShift ==
  ASSUME NEW X, NEW q \in Seq(X), q # <<>>, NEW g \in Nat, NoGeneral(Tail(q), g)
  PROVE  NoGeneral(q, g + 1)
<1> SUFFICES ASSUME NEW i \in (g + 1) + 1 .. Len(q)
             PROVE  q[i].kind # "General"
  BY DEF NoGeneral
<1>1. /\ Len(q) \in Nat /\ Len(Tail(q)) = Len(q) - 1
      /\ \A j \in 1..Len(q) - 1 : Tail(q)[j] = q[j + 1]
  OBVIOUS
<1>2. PICK t : t = Tail(q)
  BY ZenonT(30)
<1>3. i - 1 \in g + 1 .. Len(t) /\ t[i - 1] = q[i]
  BY <1>1, <1>2, SMTT(30)
<1> QED
  BY <1>2, <1>3, ZenonT(30) DEF NoGeneral
-----------------------------------------------------------------------------
(* The inductive invariant behind Applied *)

\* What the file says was reported, unless a notification is unread.
FileInv ==
  /\ watcher = "start" => fevents = 0
  /\ noticed /\ fevents = 0 /\ watcher # "done" /\ from_str(file) # Invalid =>
       old = from_str(file)

\* From the last General change in the queue, the changes behind it lead to
\* what the watcher has reported.
GeneralInv ==
  \A g \in 1..Len(events) :
    events[g].kind = "General" /\ NoGeneral(events, g) =>
      Leads(events[g].config, events, g, old)

\* So they do from the configuration of the next instance.
StoppingInv ==
  main = "stopping" /\ NoGeneral(events, 0) => Leads(next, events, 0, old)

Stale == IF mode = "server" THEN moved ELSE {}

\* So do the changes in both channels from what the instance knows.
Runs ==
  /\ mode = determine_run_mode(old, args)
  /\ old[mode] # None
  /\ running = WithoutServices(old[mode])
  /\ Tracks(updates \o events, 0, mode, live, old[mode].services, Stale)
  /\ Distinct(live, Stale)

RunInv == main = "loop" /\ inst = "run" /\ NoGeneral(events, 0) => Runs

QueueInv == GeneralInv /\ StoppingInv /\ RunInv

IInv == TypeOK /\ FileInv /\ QueueInv

\* A new instance knows the services of its configuration.
LEMMA StartRuns ==
  ASSUME NEW c \in Configs, Start(c), inst' = "run", UNCHANGED args,
         old' \in Configs, events' \in Seq(ConfigChange),
         Leads(c, events', 0, old')
  PROVE  Runs'
BY ConfigValid, RunModeEqual, SMTT(30)
   DEF Start, Leads, equal_without_service, Stale, Table, Distinct, Runs
-----------------------------------------------------------------------------
(* Every step keeps it *)

\* Steps that leave the queue and what was reported alone.
LEMMA CalmQueue ==
  ASSUME QueueInv, UNCHANGED <<args, old, events, next>>,
         main' = "stopping" => main = "stopping",
         main' = "loop" /\ inst' = "run" =>
           UNCHANGED <<main, inst, mode, updates, running, live, moved>>
  PROVE  QueueInv'
BY DEF QueueInv, GeneralInv, StoppingInv, RunInv, Runs, Stale

\* A change is taken from the queue.
LEMMA TailGeneral ==
  ASSUME GeneralInv, events \in Seq(ConfigChange), events # <<>>,
         events' = Tail(events), UNCHANGED old
  PROVE  GeneralInv'
BY LeadsShift, NoGeneralShift DEF GeneralInv

\* A rescan that finds a change of the general part.
LEMMA RescanGeneral ==
  ASSUME TypeOK, QueueInv, old' \in Configs, events' = events \o <<General(old')>>
  PROVE  QueueInv'
<1>1. PICK n : n = Len(events)
  OBVIOUS
<1>2. PICK e : e = General(old')
  OBVIOUS
<1>3. e.kind = "General" /\ e.config = old' /\ e \in ConfigChange
  BY <1>2, SMTT(30) DEF General, ConfigChange
<1>4. /\ n \in Nat /\ Len(events') = n + 1 /\ events'[n + 1] = e
      /\ events' \in Seq(ConfigChange)
  BY <1>1, <1>2, <1>3, SMTT(30) DEF TypeOK
<1>5. \A g \in 0..n : ~NoGeneral(events', g)
  BY <1>3, <1>4 DEF NoGeneral
<1>6. GeneralInv'
  <2> SUFFICES ASSUME NEW g \in 1..n + 1, NoGeneral(events', g)
               PROVE  Leads(events'[g].config, events', g, old')
    BY <1>4, ZenonT(30) DEF GeneralInv
  <2>1. g = n + 1
    BY <1>4, <1>5
  <2> QED
    BY <2>1, <1>3, <1>4, LeadsSelf, ZenonT(30)
<1>7. StoppingInv' /\ RunInv'
  BY <1>4, <1>5, SMTT(30) DEF StoppingInv, RunInv
<1> QED
  BY <1>6, <1>7 DEF QueueInv

\* A rescan that finds changes of services only.
LEMMA RescanServices ==
  ASSUME TypeOK, QueueInv, old' \in Configs, NEW p \in CalculateEvents(old, old'),
         \A r \in Roles : equal_without_service(old[r], old'[r]),
         events' = events \o p, UNCHANGED <<args, main, next, instance>>
  PROVE  QueueInv'
<1>1. PICK d : d = old'
  BY SMTT(30)
<1>2. d \in Configs /\ old \in Configs /\ p \in CalculateEvents(old, d)
      /\ \A r \in Roles : equal_without_service(old[r], d[r])
  BY <1>1, SMTT(30) DEF TypeOK
<1>3. /\ p \in Seq(ConfigChange) /\ events \in Seq(ConfigChange)
      /\ updates \in Seq(ConfigChange)
  BY <1>2, EventsType, WiderSeq, SMTT(30) DEF ConfigChange, TypeOK
<1>4. /\ \A i \in 1..Len(p) : p[i].kind # "General"
      /\ \A r \in Roles : old[r] # None =>
           Reports(p, r, old[r].services, d[r].services)
  BY <1>2, EventsReport, SMTT(30)
<1>5. /\ Len(events) \in Nat /\ Len(p) \in Nat
      /\ Len(events') = Len(events) + Len(p)
      /\ \A i \in 1..Len(events) : events'[i] = events[i]
      /\ \A i \in 1..Len(p) : events'[Len(events) + i] = p[i]
  BY <1>3, ConcatFacts, SMTT(30)
<1>6. \A g \in 0..Len(events) : NoGeneral(events', g) => NoGeneral(events, g)
  BY <1>3, NoGeneralConcat, SMTT(30)
<1>7. GeneralInv'
  BY <1>1, <1>2, <1>3, <1>4, <1>5, <1>6, LeadsConcat, SMTT(30) DEF GeneralInv, QueueInv
<1>8. 0 \in 0..Len(events)
  BY <1>5, SMTT(30)
<1>9. StoppingInv'
  BY <1>1, <1>2, <1>3, <1>6, <1>8, LeadsConcat, SMTT(30) DEF StoppingInv, QueueInv
<1>10. RunInv'
  <2> SUFFICES ASSUME main = "loop", inst = "run", NoGeneral(events', 0)
               PROVE  Runs'
    BY SMTT(30) DEF RunInv, instance
  <2>1. Runs /\ mode \in Roles
    BY <1>6, <1>8, SMTT(30) DEF QueueInv, RunInv, TypeOK
  <2>2. old[mode] # None /\ running = WithoutServices(old[mode])
    BY <2>1, SMTT(30) DEF Runs
  <2>3. d[mode] # None /\ running = WithoutServices(d[mode])
    BY <1>2, <2>1, <2>2, SMTT(30) DEF equal_without_service
  <2>4. mode = determine_run_mode(d, args)
    BY <1>2, <2>1, RunModeEqual, SMTT(30) DEF Runs
  <2>5. Reports(p, mode, old[mode].services, d[mode].services)
    BY <1>4, <2>1, <2>2, SMTT(30)
  <2>6. updates \o events \in Seq(ConfigChange)
        /\ 0 \in 0..Len(updates \o events)
    BY <1>3, ConcatFacts, SMTT(30)
  <2>12. Tracks(updates \o events, 0, mode, live, old[mode].services, Stale)
    BY <2>1, SMTT(30) DEF Runs
  <2>7. Tracks((updates \o events) \o p, 0, mode, live, d[mode].services, Stale)
    BY <1>3, <2>5, <2>6, <2>12, TracksConcat, ZenonT(30)
  <2>8. updates \o events' = (updates \o events) \o p
    <3>1. (updates \o events) \o p = updates \o (events \o p)
      BY <1>3, ConcatAssoc, SMTT(30)
    <3> QED
      BY <3>1, ZenonT(30)
  <2>9. UNCHANGED <<args, mode, running, live, updates, moved>>
    BY DEF instance
  <2>10. Stale' = Stale
    BY <2>9, SMTT(30) DEF Stale
  <2>11. Distinct(live, Stale)
    BY <2>1, SMTT(30) DEF Runs
  <2> QED
    BY <1>1, <2>3, <2>4, <2>7, <2>8, <2>9, <2>10, <2>11, ZenonT(30) DEF Runs
<1> QED
  BY <1>7, <1>9, <1>10, SMTT(30) DEF QueueInv

LEMMA GeneralReport ==
  ASSUME NEW c, NEW d, \E r \in Roles : ~equal_without_service(c[r], d[r]),
         NEW q \in CalculateEvents(c, d)
  PROVE  q = <<General(d)>>
BY DEF CalculateEvents

LEMMA RescanQueue ==
  ASSUME TypeOK, QueueInv, Rescan
  PROVE  QueueInv'
<1>1. UNCHANGED <<args, main, next, instance>>
  BY DEF Rescan, source
<1>2. CASE UNCHANGED <<old, events>>
  BY <1>1, <1>2, CalmQueue, SMTT(30) DEF instance
<1>3. CASE /\ from_str(file) # Invalid
           /\ old' = from_str(file)
           /\ \E p \in CalculateEvents(old, old') : events' = events \o p
  <2>1. old' \in Configs
    BY <1>3, ReadFile DEF TypeOK
  <2>2. PICK p \in CalculateEvents(old, old') : events' = events \o p
    BY <1>3, ZenonT(30)
  <2>3. CASE \E r \in Roles : ~equal_without_service(old[r], old'[r])
    <3>1. p = <<General(old')>>
      BY <2>2, <2>3, GeneralReport, SMTT(30)
    <3> QED
      BY <2>1, <2>2, <3>1, RescanGeneral, SMTT(30)
  <2>4. CASE \A r \in Roles : equal_without_service(old[r], old'[r])
    BY <1>1, <2>1, <2>2, <2>4, RescanServices, SMTT(30)
  <2> QED
    BY <2>3, <2>4, SMTT(30)
<1> QED
  BY <1>2, <1>3, ZenonT(30) DEF Rescan

LEMMA MainGeneralQueue ==
  ASSUME TypeOK, QueueInv, MainGeneral
  PROVE  QueueInv'
<1>1. /\ main = "loop" /\ events # <<>> /\ Head(events).kind = "General"
      /\ events' = Tail(events)
      /\ next' = Head(events).config
      /\ UNCHANGED <<args, old>>
  BY DEF MainGeneral, source, watch
<1>2. /\ events \in Seq(ConfigChange) /\ events' \in Seq(ConfigChange)
      /\ Head(events) = events[1] /\ 1 \in 1..Len(events)
      /\ Head(events) \in ConfigChange
  BY <1>1, TailFacts, SMTT(30) DEF TypeOK
<1>3. next' \in Configs
  BY <1>1, <1>2, ChangeKind
<1>4. GeneralInv'
  BY <1>1, <1>2, TailGeneral, SMTT(30) DEF QueueInv
<1>5. ASSUME NoGeneral(events', 0)
      PROVE  Leads(next', events', 0, old)
  BY <1>1, <1>2, <1>5, LeadsShift, NoGeneralShift, SMTT(30) DEF QueueInv, GeneralInv
<1>6. StoppingInv'
  BY <1>1, <1>5, SMTT(30) DEF StoppingInv
<1>7. RunInv'
  BY <1>1, <1>2, <1>3, <1>5, StartRuns, SMTT(30) DEF RunInv, MainGeneral, TypeOK
<1> QED
  BY <1>4, <1>6, <1>7 DEF QueueInv

LEMMA MainRestartQueue ==
  ASSUME TypeOK, QueueInv, MainRestart
  PROVE  QueueInv'
BY CalmQueue, StartRuns, SMTT(30)
   DEF MainRestart, source, watch, QueueInv, GeneralInv, StoppingInv, RunInv,
   TypeOK

\* The main loop moves a change from one channel to the next.
LEMMA Moved ==
  ASSUME NEW X, NEW u \in Seq(X), NEW q \in Seq(X), q # <<>>
  PROVE  Append(u, Head(q)) \o Tail(q) = u \o q
<1>0. Head(q) \in X /\ Tail(q) \in Seq(X)
  OBVIOUS
<1>1. PICK x \in X, t \in Seq(X) : x = Head(q) /\ t = Tail(q)
  BY <1>0, Zenon
<1>5. q = <<x>> \o t
  BY <1>1, SMTT(30)
<1>2. <<x>> \in Seq(X)
  OBVIOUS
<1>3. Append(u, x) = u \o <<x>>
  OBVIOUS
<1>4. (u \o <<x>>) \o t = u \o (<<x>> \o t)
  BY <1>2, ConcatAssoc, SMTT(30)
<1> QED
  BY <1>1, <1>3, <1>4, <1>5, SMTT(30)

LEMMA MainServiceQueue ==
  ASSUME TypeOK, QueueInv, MainService
  PROVE  QueueInv'
<1>1. /\ main = "loop" /\ events # <<>> /\ Head(events).kind # "General"
      /\ events' = Tail(events)
      /\ UNCHANGED <<args, old, main, next, inst, mode, running, live, moved>>
  BY SMTT(30) DEF MainService, source, watch
<1>2. /\ events \in Seq(ConfigChange) /\ updates \in Seq(ConfigChange)
      /\ Head(events) = events[1]
  BY <1>1, TailFacts, WiderSeq, SMTT(30) DEF ConfigChange, TypeOK
<1>3. GeneralInv'
  BY <1>1, <1>2, TailGeneral, SMTT(30) DEF QueueInv
<1>4. StoppingInv'
  BY <1>1 DEF StoppingInv
<1>5. RunInv'
  <2> SUFFICES ASSUME inst = "run", NoGeneral(events', 0)
               PROVE  Runs'
    BY <1>1, SMTT(30) DEF RunInv
  <2>1. NoGeneral(events, 0 + 1)
    BY <1>1, <1>2, NoGeneralShift, SMTT(30)
  <2>2. NoGeneral(events, 0)
    BY <1>1, <1>2, <2>1, SMTT(30) DEF NoGeneral
  <2>3. Runs
    BY <1>1, <2>2, SMTT(30) DEF QueueInv, RunInv
  <2>4. updates' = Append(updates, Head(events))
    BY SMTT(30) DEF MainService
  <2>5. updates' \o events' = updates \o events
    BY <1>1, <1>2, <2>4, Moved, SMTT(30)
  <2>6. Stale' = Stale
    BY <1>1 DEF Stale
  <2> QED
    BY <1>1, <2>3, <2>5, <2>6, ZenonT(30) DEF Runs
<1> QED
  BY <1>3, <1>4, <1>5 DEF QueueInv

LEMMA ConcatTail ==
  ASSUME NEW X, NEW u \in Seq(X), NEW q \in Seq(X), u # <<>>
  PROVE  /\ u \o q \in Seq(X) /\ u \o q # <<>>
         /\ (u \o q)[1] = Head(u)
         /\ Tail(u \o q) = Tail(u) \o q
BY ConcatAssoc, SMTT(30)

\* What handle_hot_reload does with a change.
LEMMA UpdateEffect ==
  ASSUME TypeOK, InstanceUpdate, Distinct(live, Stale), NEW e, e = Head(updates)
  PROVE  \/ e.role = mode /\ Effect(e, live, live', Stale, Stale')
         \/ e.role # mode /\ live' = live /\ Stale' = Stale
<1> DEFINE named(n) == {t \in live : t.name = n}
<1>0. mode' = mode
  BY SMTT(30) DEF InstanceUpdate
<1>1. CASE /\ e.role = mode /\ e.kind = "Add"
           /\ live' = {t \in live : Key(t) # Key(e.service)} \cup {e.service}
           /\ moved' = moved \cup {t.name : t \in {u \in named(e.service.name) :
                                                     u.user # e.service.user}}
  <2>1. Subject(e) = e.service.name
    BY <1>1, SMTT(30) DEF Subject
  <2>2. Stale \subseteq Stale'
    BY <1>0, <1>1, SMTT(30) DEF Stale
  <2>3. \A t \in live : t.name # e.service.name => Key(t) # Key(e.service)
    BY SMTT(30) DEF Key
  <2>4. ASSUME NEW t \in live, Key(t) # Key(e.service),
               t.name = e.service.name
        PROVE  t.name \in Stale'
    BY <1>0, <1>1, <2>4, SMTT(30) DEF Key, Stale
  <2>5. \A t \in live \cup live' : t.name # Subject(e) =>
          (t \in live <=> t \in live')
    BY <1>1, <2>1, <2>3, SMTT(30)
  <2>6. \A t \in live' : t.name = Subject(e) =>
          t.name \in Stale' \/ (e.kind = "Add" /\ t = e.service)
    BY <1>1, <2>1, <2>4, SMTT(30)
  <2> QED
    BY <1>1, <2>2, <2>5, <2>6, SMTT(30) DEF Effect
<1>2. CASE /\ e.role = mode /\ e.kind = "Delete"
           /\ \E t \in named(e.name) : live' = live \ {t}
           /\ UNCHANGED moved
  BY <1>0, <1>2, SMTT(30) DEF Subject, Stale, Distinct, Effect
<1>3. CASE /\ e.role # mode \/ (e.kind = "Delete" /\ named(e.name) = {})
           /\ UNCHANGED <<live, moved>>
  BY <1>0, <1>3 DEF Stale, Subject, Effect
<1> QED
  BY <1>1, <1>2, <1>3, Zenon DEF InstanceUpdate

LEMMA InstanceUpdateQueue ==
  ASSUME TypeOK, QueueInv, InstanceUpdate
  PROVE  QueueInv'
<1>1. /\ inst = "run" /\ updates # <<>> /\ updates' = Tail(updates)
      /\ UNCHANGED <<args, old, events, main, next, inst, mode, running>>
  BY ZenonT(30) DEF InstanceUpdate, source, watch
<1>2. GeneralInv' /\ StoppingInv'
  BY <1>1 DEF QueueInv, GeneralInv, StoppingInv
<1>3. RunInv'
  <2> SUFFICES ASSUME main = "loop", NoGeneral(events, 0)
               PROVE  Runs'
    BY <1>1 DEF RunInv
  <2>1. Runs
    BY <1>1, SMTT(30) DEF QueueInv, RunInv
  <2>2. mode \in Roles /\ old \in Configs
    BY <1>1, SMTT(30) DEF TypeOK
  <2>3. events \in Seq(ConfigChange) /\ updates \in Seq(ConfigChange)
    BY WiderSeq DEF ConfigChange, TypeOK
  <2>4. PICK q : q = updates \o events
    BY ZenonT(30)
  <2>5. /\ q \in Seq(ConfigChange) /\ q # <<>> /\ q[1] = Head(updates)
        /\ Tail(q) = updates' \o events'
    BY <1>1, <2>3, <2>4, ConcatTail, ZenonT(30)
  <2>6. PICK S : S = old[mode].services
    OBVIOUS
  <2>7. \A s, t \in S : s.name = t.name => s = t
    BY <2>1, <2>2, <2>6, ConfigValid DEF Runs, Table
  <2>8. Tracks(q, 0, mode, live, S, Stale) /\ Distinct(live, Stale)
    BY <2>1, <2>4, <2>6, Zenon DEF Runs
  <2>9. \/ q[1].role = mode /\ Effect(q[1], live, live', Stale, Stale')
        \/ q[1].role # mode /\ live' = live /\ Stale' = Stale
    BY <2>5, <2>8, UpdateEffect, ZenonT(30)
  <2>10. Tracks(Tail(q), 0, mode, live', S, Stale')
    BY <2>5, <2>7, <2>8, <2>9, TracksHandled, ZenonT(30)
  <2>11. Distinct(live', Stale')
    BY <2>8, <2>9, DistinctHandled, ZenonT(30)
  <2>12. /\ mode = determine_run_mode(old, args)
         /\ old[mode] # None
         /\ running = WithoutServices(old[mode])
    BY <2>1, Zenon DEF Runs
  <2> QED
    BY <1>1, <2>5, <2>6, <2>10, <2>11, <2>12, ZenonT(30) DEF Runs
<1> QED
  BY <1>2, <1>3 DEF QueueInv

LEMMA InitIInv == Init => IInv
<1> SUFFICES ASSUME Init PROVE IInv
  OBVIOUS
<1>1. TypeOK
  BY InitTypeOK, SMTT(30)
<1>2. FileInv
  BY DEF Init, FileInv
<1>3. events = <<General(old)>> /\ main = "loop" /\ inst = "none"
  BY SMTT(30) DEF Init
<1>4. /\ Len(events) = 1 /\ events[1].config = old /\ events \in Seq(ConfigChange)
  BY <1>1, <1>3 DEF General, TypeOK
<1>5. Leads(old, events, 1, old)
  BY <1>4, LeadsSelf, ZenonT(30)
<1>6. GeneralInv
  BY <1>4, <1>5, SMTT(30) DEF GeneralInv
<1>7. StoppingInv /\ RunInv
  BY <1>3 DEF StoppingInv, RunInv
<1> QED
  BY <1>1, <1>2, <1>6, <1>7, SMTT(30) DEF IInv, QueueInv

LEMMA NextFileInv ==
  ASSUME TypeOK, FileInv, [Next]_vars
  PROVE  FileInv'
<1>1. ASSUME NEW f \in Contents, Edit(f)
      PROVE  FileInv'
  <2>1. watcher' = watcher /\ (noticed' <=> watcher = "run")
    BY <1>1, ZenonT(30) DEF Edit
  <2>2. watcher = "run" => fevents' # 0
    BY <1>1 DEF TypeOK, Edit
  <2>3. watcher = "start" => fevents' = 0
    BY <1>1, SMTT(30) DEF FileInv, Edit
  <2> QED
    BY <2>1, <2>2, <2>3, Zenon DEF FileInv
<1>2. CASE Watch
  BY <1>2, SMTT(30) DEF FileInv, Watch, source
<1>3. CASE Rescan
  BY <1>3 DEF FileInv, Rescan, source
<1>4. CASE WatcherShutdown
  BY <1>4 DEF FileInv, WatcherShutdown, source
<1>5. CASE UNCHANGED <<source, watch>>
  BY <1>5, SMTT(30) DEF FileInv, source, watch
<1>6. CASE \/ MainGeneral \/ MainRestart \/ MainService \/ MainClosed \/ MainExit
           \/ InstanceUpdate \/ InstanceStop \/ InstanceFail
  BY <1>5, <1>6, SMTT(30)
     DEF MainGeneral, MainRestart, MainService, MainClosed, MainExit,
     InstanceUpdate, InstanceStop, InstanceFail
<1>7. CASE UNCHANGED vars
  BY <1>7, <1>5, SMTT(30) DEF vars
<1> QED
  BY <1>1, <1>2, <1>3, <1>4, <1>6, <1>7, SMTT(30) DEF Next

LEMMA NextQueueInv ==
  ASSUME TypeOK, QueueInv, [Next]_vars
  PROVE  QueueInv'
<1>1. ASSUME NEW f \in Contents, Edit(f)
      PROVE  QueueInv'
  BY <1>1, CalmQueue, SMTT(30) DEF Edit, instance
<1>2. CASE Watch \/ WatcherShutdown
  BY <1>2, CalmQueue, SMTT(30) DEF Watch, WatcherShutdown, source, instance
<1>3. CASE MainClosed \/ MainExit
  BY <1>3, CalmQueue, SMTT(30) DEF MainClosed, MainExit, source, watch
<1>4. CASE InstanceStop \/ InstanceFail
  BY <1>4, CalmQueue, SMTT(30) DEF InstanceStop, InstanceFail, source, watch
<1>5. CASE UNCHANGED vars
  BY <1>5, CalmQueue DEF vars, source, watch, instance
<1> QED
  BY <1>1, <1>2, <1>3, <1>4, <1>5, RescanQueue, MainGeneralQueue,
     MainRestartQueue, MainServiceQueue, InstanceUpdateQueue, SMTT(30) DEF Next

\* Once every notification and every change has been handled, the running
\* instance is what the file says, for every file, every order in which
\* calculate_events reports its changes and every capacity of the channel.
THEOREM AppliedHolds == Spec => []Applied
<1>1. IInv /\ [Next]_vars => IInv'
  BY NextTypeOK, NextFileInv, NextQueueInv, SMTT(30) DEF IInv
<1>2. IInv => Applied
  <2> SUFFICES ASSUME IInv, Settled, inst = "run"
               PROVE  /\ mode = determine_run_mode(old, args)
                      /\ running = WithoutServices(old[mode])
                      /\ old[mode].services \subseteq live
                      /\ \A s \in live \ old[mode].services :
                           mode = "server" /\ s.name \in moved
                      /\ watcher = "run" /\ noticed /\ from_str(file) # Invalid =>
                           old = from_str(file)
    BY DEF Applied
  <2>1. NoGeneral(events, 0)
    BY DEF NoGeneral, Settled
  <2>2. Runs
    BY <2>1 DEF IInv, QueueInv, RunInv, Settled
  <2>3. updates \o events = <<>>
    BY DEF Settled
  <2>4. \A n : Quiet(<<>>, 0, mode, n)
    BY SMTT(30) DEF Quiet
  <2>5. /\ old[mode].services \subseteq live
        /\ \A s \in live \ old[mode].services : s.name \in Stale
    BY <2>2, <2>3, <2>4, SMTT(30) DEF Runs, Tracks
  <2>6. \A n \in Stale : mode = "server" /\ n \in moved
    BY SMTT(30) DEF Stale
  <2>7. watcher = "run" /\ noticed /\ from_str(file) # Invalid =>
          old = from_str(file)
    BY DEF IInv, FileInv, Settled
  <2> QED
    BY <2>2, <2>5, <2>6, <2>7, SMTT(30) DEF Runs
<1> QED
  BY <1>1, <1>2, InitIInv, PTL DEF Spec
=============================================================================
