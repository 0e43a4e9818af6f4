------------------------ MODULE ConfigWatcherProofs --------------------------
(***************************************************************************)
(* For every set of files and every channel capacity: what an instance     *)
(* knows comes from valid files, its services are complete, and once all   *)
(* changes are handled they are those of the file.                         *)
(***************************************************************************)
EXTENDS ConfigWatcher, TLAPS
-----------------------------------------------------------------------------
(* Sequences *)

LEMMA WiderSeq ==
  ASSUME NEW S, NEW T, S \subseteq T
  PROVE  Seq(S) \subseteq Seq(T)
OBVIOUS

LEMMA ConcatFacts ==
  ASSUME NEW X, NEW p \in Seq(X), NEW q \in Seq(X)
  PROVE  /\ p \o q \in Seq(X)
         /\ Len(p) \in Nat /\ Len(q) \in Nat
         /\ Len(p \o q) = Len(p) + Len(q)
         /\ \A i \in 1..Len(p) : (p \o q)[i] = p[i]
         /\ \A i \in 1..Len(q) : (p \o q)[Len(p) + i] = q[i]
OBVIOUS

LEMMA ConcatAssoc ==
  ASSUME NEW X, NEW p \in Seq(X), NEW q \in Seq(X), NEW u \in Seq(X)
  PROVE  (p \o q) \o u = p \o (q \o u)
BY SMTT(30)

LEMMA TailFacts ==
  ASSUME NEW X, NEW q \in Seq(X), q # <<>>
  PROVE  /\ Head(q) \in X /\ Head(q) = q[1]
         /\ Tail(q) \in Seq(X)
         /\ Len(q) \in Nat /\ 1 \in 1..Len(q) /\ Len(Tail(q)) = Len(q) - 1
         /\ \A i \in 1..Len(q) - 1 : Tail(q)[i] = q[i + 1]
OBVIOUS

LEMMA HeadConcat ==
  ASSUME NEW X, NEW x \in X, NEW t \in Seq(X)
  PROVE  /\ <<x>> \o t \in Seq(X) /\ <<x>> \o t # <<>>
         /\ (<<x>> \o t)[1] = x
         /\ Tail(<<x>> \o t) = t
OBVIOUS

(* What the changes in a queue say *)

\* The name of the service a change is about.
Subject(e) == IF e.kind = "Add" THEN e.service.name ELSE e.name

\* After position g, nothing in the queue is about service n of role r.
Quiet(q, g, r, n) ==
  \A i \in g + 1 .. Len(q) : ~(q[i].role = r /\ Subject(q[i]) = n)

\* The change leaves its service as it is in S.
Says(e, S) ==
  \/ e.kind = "Add" /\ e.service \in S
  \/ e.kind = "Delete" /\ \A s \in S : s.name # e.name

\* The changes after position g of the queue lead from the services L to the
\* services S: the last one about a service leaves it as it is in S, and a
\* service that none is about is in both or in neither, but for stale names.
Tracks(q, g, r, L, S, stale) ==
  /\ \A i \in g + 1 .. Len(q) :
       q[i].role = r /\ Quiet(q, i, r, Subject(q[i])) => Says(q[i], S)
  /\ \A s \in S : Quiet(q, g, r, s.name) => s \in L
  /\ \A s \in L \ S : Quiet(q, g, r, s.name) => s.name \in stale

\* What a rescan that finds T in place of S reports.
Reports(p, r, S, T) ==
  /\ \A i \in 1..Len(p) : p[i].role = r => Says(p[i], T)
  /\ \A s \in S \cup T : Quiet(p, 0, r, s.name) => (s \in S <=> s \in T)

\* After position g, no change starts another instance.
NoGeneral(q, g) == \A i \in g + 1 .. Len(q) : q[i].kind # "General"

LEMMA QuietConcat ==
  ASSUME NEW X, NEW q \in Seq(X), NEW p \in Seq(X), NEW g \in 0..Len(q),
         NEW r, NEW n
  PROVE  Quiet(q \o p, g, r, n) <=> Quiet(q, g, r, n) /\ Quiet(p, 0, r, n)
<1> DEFINE about(e) == e.role = r /\ Subject(e) = n
<1>1. /\ Len(q) \in Nat /\ Len(p) \in Nat
      /\ Len(q \o p) = Len(q) + Len(p)
      /\ \A i \in 1..Len(q) : (q \o p)[i] = q[i]
      /\ \A i \in 1..Len(p) : (q \o p)[Len(q) + i] = p[i]
  BY ConcatFacts
<1>2. PICK c : c = q \o p
  BY ZenonT(30)
<1>3. \A x, k : Quiet(x, k, r, n) <=> \A i \in k + 1 .. Len(x) : ~about(x[i])
  BY DEF Quiet
<1>6. Quiet(p, 0, r, n) <=> \A i \in 1..Len(p) : ~about(p[i])
  BY DEF Quiet
<1> HIDE DEF about
<1>4. ASSUME Quiet(c, g, r, n)
      PROVE  Quiet(q, g, r, n) /\ Quiet(p, 0, r, n)
  <2>1. ASSUME NEW i \in g + 1 .. Len(q) PROVE ~about(q[i])
    <3>1. i \in g + 1 .. Len(c) /\ c[i] = q[i]
      BY <1>1, <1>2
    <3> QED
      BY <3>1, <1>3, <1>4
  <2>2. ASSUME NEW i \in 1..Len(p) PROVE ~about(p[i])
    <3>1. Len(q) + i \in g + 1 .. Len(c) /\ c[Len(q) + i] = p[i]
      BY <1>1, <1>2
    <3> QED
      BY <3>1, <1>3, <1>4
  <2> QED
    BY <2>1, <2>2, <1>3, <1>6
<1>5. ASSUME Quiet(q, g, r, n), Quiet(p, 0, r, n)
      PROVE  Quiet(c, g, r, n)
  <2> SUFFICES ASSUME NEW i \in g + 1 .. Len(c)
               PROVE  ~about(c[i])
    BY <1>3
  <2>1. CASE i <= Len(q)
    BY <2>1, <1>1, <1>2, <1>3, <1>5
  <2>2. CASE i > Len(q)
    BY <1>1, <1>2, <1>5, <1>6, <2>2, SMTT(30)
  <2> QED
    BY <2>1, <2>2, <1>1
<1> QED
  BY <1>2, <1>4, <1>5

\* A change that no report contradicts still holds after the report.
LEMMA SaysStill ==
  ASSUME NEW p, NEW r, NEW S, NEW T, Reports(p, r, S, T),
         NEW e, Says(e, S), Quiet(p, 0, r, Subject(e))
  PROVE  Says(e, T)
BY DEF Reports, Says, Subject

\* A queue that leads to S leads to T after the report of the change from S
\* to T.
LEMMA TracksConcat ==
  ASSUME NEW X, NEW q \in Seq(X), NEW p \in Seq(X), NEW g \in 0..Len(q),
         NEW r, NEW L, NEW S, NEW T, NEW stale,
         Tracks(q, g, r, L, S, stale), Reports(p, r, S, T)
  PROVE  Tracks(q \o p, g, r, L, T, stale)
<1>1. /\ Len(q) \in Nat /\ Len(p) \in Nat
      /\ Len(q \o p) = Len(q) + Len(p)
      /\ \A i \in 1..Len(q) : (q \o p)[i] = q[i]
      /\ \A i \in 1..Len(p) : (q \o p)[Len(q) + i] = p[i]
  BY ConcatFacts
<1>2. PICK c : c = q \o p
  BY ZenonT(30)
<1>3. \A k \in 0..Len(q) : \A n :
        Quiet(c, k, r, n) <=> Quiet(q, k, r, n) /\ Quiet(p, 0, r, n)
  BY <1>2, QuietConcat, Zenon
<1>4. ASSUME NEW i \in g + 1 .. Len(c), c[i].role = r,
             Quiet(c, i, r, Subject(c[i]))
      PROVE  Says(c[i], T)
  <2>1. CASE i <= Len(q)
    BY <1>1, <1>2, <1>3, <1>4, <2>1, SaysStill, SMTT(30) DEF Tracks
  <2>2. CASE i > Len(q)
    BY <1>1, <1>2, <1>4, <2>2, SMTT(30) DEF Reports
  <2> QED
    BY <2>1, <2>2, <1>1
<1>5. ASSUME NEW s \in T, Quiet(c, g, r, s.name)
      PROVE  s \in L
  BY <1>3, <1>5 DEF Tracks, Reports
<1>6. ASSUME NEW s \in L \ T, Quiet(c, g, r, s.name)
      PROVE  s.name \in stale
  BY <1>3, <1>6 DEF Tracks, Reports
<1> QED
  BY <1>2, <1>4, <1>5, <1>6, ZenonT(30) DEF Tracks

\* Reading a change that precedes position g + 1.
LEMMA TracksShift ==
  ASSUME NEW X, NEW q \in Seq(X), q # <<>>, NEW g \in Nat,
         NEW r, NEW L, NEW S, NEW stale,
         Tracks(q, g + 1, r, L, S, stale)
  PROVE  Tracks(Tail(q), g, r, L, S, stale)
<1>1. /\ Len(q) \in Nat /\ Len(Tail(q)) = Len(q) - 1
      /\ \A i \in 1..Len(q) - 1 : Tail(q)[i] = q[i + 1]
  OBVIOUS
<1>2. PICK t : t = Tail(q)
  BY ZenonT(30)
<1>3. \A k \in Nat : \A n : Quiet(t, k, r, n) <=> Quiet(q, k + 1, r, n)
  <2> SUFFICES ASSUME NEW k \in Nat, NEW n
               PROVE  Quiet(t, k, r, n) <=> Quiet(q, k + 1, r, n)
    OBVIOUS
  <2> DEFINE about(e) == e.role = r /\ Subject(e) = n
  <2>1. \A x, j : Quiet(x, j, r, n) <=> \A i \in j + 1 .. Len(x) : ~about(x[i])
    BY DEF Quiet
  <2> HIDE DEF about
  <2>2. ASSUME Quiet(t, k, r, n) PROVE Quiet(q, k + 1, r, n)
    <3> SUFFICES ASSUME NEW i \in (k + 1) + 1 .. Len(q)
                 PROVE  ~about(q[i])
      BY <2>1
    <3>1. i - 1 \in k + 1 .. Len(t) /\ t[i - 1] = q[i]
      BY <1>1, <1>2
    <3> QED
      BY <3>1, <2>1, <2>2, SMTT(30)
  <2>3. ASSUME Quiet(q, k + 1, r, n) PROVE Quiet(t, k, r, n)
    <3> SUFFICES ASSUME NEW i \in k + 1 .. Len(t)
                 PROVE  ~about(t[i])
      BY <2>1
    <3>1. i + 1 \in (k + 1) + 1 .. Len(q) /\ t[i] = q[i + 1]
      BY <1>1, <1>2
    <3> QED
      BY <3>1, <2>1, <2>3
  <2> QED
    BY <2>2, <2>3
<1>4. ASSUME NEW i \in g + 1 .. Len(t), t[i].role = r,
             Quiet(t, i, r, Subject(t[i]))
      PROVE  Says(t[i], S)
  BY <1>1, <1>2, <1>3, <1>4, SMTT(30) DEF Tracks
<1> QED
  BY <1>2, <1>3, <1>4 DEF Tracks

\* A change that is read leaves its service as the change says, but for stale
\* entries of its name, and every other service alone.
Effect(e, L, M, stale, stale2) ==
  /\ \A t \in L \cup M : t.name # Subject(e) => (t \in L <=> t \in M)
  /\ e.kind = "Add" => e.service \in M
  /\ \A t \in M : t.name = Subject(e) =>
       t.name \in stale2 \/ (e.kind = "Add" /\ t = e.service)
  /\ stale \subseteq stale2

\* Two services of one name are known only if the name is stale.
Distinct(L, stale) ==
  \A s, t \in L : s.name = t.name => s = t \/ s.name \in stale

\* The first change of a queue, and those behind it.
LEMMA QuietHead ==
  ASSUME NEW X, NEW q \in Seq(X), q # <<>>, NEW r, NEW n
  PROVE  Quiet(q, 0, r, n) <=>
           Quiet(q, 1, r, n) /\ ~(q[1].role = r /\ Subject(q[1]) = n)
<1> DEFINE about(e) == e.role = r /\ Subject(e) = n
<1>1. Len(q) \in Nat /\ 1 \in 1..Len(q)
  BY TailFacts
<1>2. Quiet(q, 0, r, n) <=> \A i \in 1..Len(q) : ~about(q[i])
  BY DEF Quiet
<1>3. Quiet(q, 1, r, n) <=> \A i \in 2..Len(q) : ~about(q[i])
  BY DEF Quiet
<1> HIDE DEF about
<1>4. \A i \in 1..Len(q) : i = 1 \/ i \in 2..Len(q)
  BY <1>1
<1>5. \A i \in 2..Len(q) : i \in 1..Len(q)
  BY <1>1
<1>6. Quiet(q, 0, r, n) <=> Quiet(q, 1, r, n) /\ ~about(q[1])
  BY <1>1, <1>2, <1>3, <1>4, <1>5, Zenon
<1> QED
  BY <1>6 DEF about

\* handle_hot_reload takes the services one change closer to S.
LEMMA TracksHandled ==
  ASSUME NEW X, NEW q \in Seq(X), q # <<>>, NEW r,
         NEW L, NEW M, NEW S, NEW stale, NEW stale2,
         \A s, t \in S : s.name = t.name => s = t,
         Tracks(q, 0, r, L, S, stale),
         \/ q[1].role = r /\ Effect(q[1], L, M, stale, stale2)
         \/ q[1].role # r /\ M = L /\ stale2 = stale
  PROVE  Tracks(Tail(q), 0, r, M, S, stale2)
<1>0. PICK e : e = q[1]
  OBVIOUS
<1>1. /\ Len(q) \in Nat /\ 1 \in 0 + 1 .. Len(q)
      /\ \A i \in 1 + 1 .. Len(q) : i \in 0 + 1 .. Len(q)
  BY TailFacts
<1>2. \A n : Quiet(q, 0, r, n) <=>
               Quiet(q, 1, r, n) /\ ~(e.role = r /\ Subject(e) = n)
  BY <1>0, QuietHead
<1>3. \A i \in 1 + 1 .. Len(q) :
        q[i].role = r /\ Quiet(q, i, r, Subject(q[i])) => Says(q[i], S)
  BY <1>1 DEF Tracks
<1>4. /\ \A s \in S : Quiet(q, 0, r, s.name) => s \in L
      /\ \A s \in L \ S : Quiet(q, 0, r, s.name) => s.name \in stale
  BY DEF Tracks
<1>5. e.role = r /\ Quiet(q, 1, r, Subject(e)) => Says(e, S)
  BY <1>0, <1>1 DEF Tracks
<1>6. CASE e.role # r /\ M = L /\ stale2 = stale
  <2>1. Tracks(q, 1, r, M, S, stale2)
    BY <1>2, <1>3, <1>4, <1>6, ZenonT(30) DEF Tracks
  <2> QED
    BY <2>1, TracksShift
<1>7. CASE e.role = r /\ Effect(e, L, M, stale, stale2)
  <2>1. ASSUME NEW s \in S, Quiet(q, 1, r, s.name)
        PROVE  s \in M
    BY <1>2, <1>4, <1>5, <1>7, <2>1, SMTT(30) DEF Says, Subject, Effect
  <2>2. ASSUME NEW s \in M \ S, Quiet(q, 1, r, s.name)
        PROVE  s.name \in stale2
    BY <1>2, <1>4, <1>5, <1>7, <2>2 DEF Says, Effect
  <2>3. Tracks(q, 1, r, M, S, stale2)
    BY <1>3, <2>1, <2>2, Zenon DEF Tracks
  <2> QED
    BY <2>3, TracksShift
<1> QED
  BY <1>0, <1>6, <1>7

LEMMA DistinctHandled ==
  ASSUME NEW e, NEW L, NEW M, NEW stale, NEW stale2,
         Distinct(L, stale), Effect(e, L, M, stale, stale2)
  PROVE  Distinct(M, stale2)
BY DEF Distinct, Effect
-----------------------------------------------------------------------------
(* Valid configurations *)

\* What "must be Some value in runtime".
Filled(r, s) ==
  /\ None \notin {s.user, s.token}
  /\ r = "client" => s.retry_interval # None

\* A validated server block has a user and a token in each service.
LEMMA ServerFilled ==
  ASSUME NEW b, validate_server_config(b) # Invalid
  PROVE  \A s \in validate_server_config(b).services : Filled("server", s)
<1> DEFINE Owner(s) == Given(s.user, Default)
           Token(s) == Given(s.token, b.users[Owner(s)])
           Fill(s) == [name |-> s.name, body |-> s.body,
                       user |-> Owner(s), token |-> Token(s)]
<1>1. \A s : Owner(s) # None
  BY ConfigAssumption, SMTT(30) DEF Given
<1>2. /\ \A s \in b.services : Token(s) # None
      /\ validate_server_config(b) =
           [users |-> b.users, transport |-> b.transport,
            services |-> {Fill(s) : s \in b.services}]
  BY DEF validate_server_config
<1>3. \A s : Fill(s).user = Owner(s) /\ Fill(s).token = Token(s)
  BY SMTT(30)
<1>4. validate_server_config(b).services = {Fill(s) : s \in b.services}
  BY <1>2, SMTT(30)
<1> HIDE DEF Fill, Token, Owner
<1> QED
  BY <1>1, <1>2, <1>3, <1>4 DEF Filled

\* A validated client block has a user, a token and an interval in each.
LEMMA ClientFilled ==
  ASSUME NEW b, validate_client_config(b) # Invalid, b.retry_interval # None
  PROVE  \A s \in validate_client_config(b).services : Filled("client", s)
<1> DEFINE User(s) == Given(s.user, Given(b.user, Default))
           Token(s) == Given(s.token, b.token)
           Retry(s) == Given(s.retry_interval, b.retry_interval)
           Fill(s) == [name |-> s.name, body |-> s.body,
                       user |-> User(s), token |-> Token(s),
                       retry_interval |-> Retry(s)]
<1>1. \A s : User(s) # None /\ Retry(s) # None
  BY ConfigAssumption, SMTT(30) DEF Given
<1>2. /\ \A s \in b.services : Token(s) # None
      /\ validate_client_config(b) =
           [user |-> b.user, token |-> b.token, transport |-> b.transport,
            retry_interval |-> b.retry_interval,
            services |-> {Fill(s) : s \in b.services}]
  BY SMTT(30) DEF validate_client_config
<1>3. \A s : /\ Fill(s).user = User(s) /\ Fill(s).token = Token(s)
             /\ Fill(s).retry_interval = Retry(s)
  BY SMTT(30)
<1>4. validate_client_config(b).services = {Fill(s) : s \in b.services}
  BY <1>2
<1> HIDE DEF Fill, Token, User, Retry
<1> QED
  BY <1>1, <1>2, <1>3, <1>4 DEF Filled

\* Validation keeps the names of the services distinct.
LEMMA ServerTable ==
  ASSUME NEW b, validate_server_config(b) # Invalid, Table(b.services)
  PROVE  Table(validate_server_config(b).services)
<1> DEFINE Owner(s) == Given(s.user, Default)
           Fill(s) == [name |-> s.name, body |-> s.body, user |-> Owner(s),
                       token |-> Given(s.token, b.users[Owner(s)])]
<1>1. validate_server_config(b).services = {Fill(s) : s \in b.services}
  BY SMTT(30) DEF validate_server_config
<1>2. \A s : Fill(s).name = s.name
  BY SMTT(30)
<1> HIDE DEF Fill
<1> QED
  BY <1>1, <1>2, SMTT(30) DEF Table

LEMMA ClientTable ==
  ASSUME NEW b, validate_client_config(b) # Invalid, Table(b.services)
  PROVE  Table(validate_client_config(b).services)
<1> DEFINE Fill(s) == [name |-> s.name, body |-> s.body,
                       user |-> Given(s.user, Given(b.user, Default)),
                       token |-> Given(s.token, b.token),
                       retry_interval |->
                         Given(s.retry_interval, b.retry_interval)]
<1>1. validate_client_config(b).services = {Fill(s) : s \in b.services}
  BY SMTT(30) DEF validate_client_config
<1>2. \A s : Fill(s).name = s.name
  OBVIOUS
<1> HIDE DEF Fill
<1> QED
  BY <1>1, <1>2 DEF Table

\* What from_str accepts is a table with the options filled in.
LEMMA ConfigValid ==
  ASSUME NEW c \in Configs, NEW r \in Roles, c[r] # None
  PROVE  /\ Table(c[r].services)
         /\ \A s \in c[r].services : Filled(r, s)
<1>1. PICK f \in Contents : c = from_str(f) /\ c # Invalid
  BY SMTT(30) DEF Configs
<1> DEFINE server == IF f.server = None THEN None
                     ELSE validate_server_config(f.server)
           client == IF f.client = None THEN None
                     ELSE validate_client_config(f.client)
<1>2. /\ f # Garbage
      /\ Invalid \notin {server, client}
      /\ c = [server |-> server, client |-> client]
  BY <1>1, SMTT(30) DEF from_str
<1>3. CASE r = "server"
  BY <1>2, <1>3, ServerFilled, ServerTable, WatcherAssumption, SMTT(30)
<1>4. CASE r = "client"
  BY <1>2, <1>4, ClientFilled, ClientTable, WatcherAssumption, SMTT(30)
<1> QED
  BY <1>3, <1>4 DEF Roles

LEMMA ServicesFilled ==
  ASSUME NEW r \in Roles, NEW s \in Services(r)
  PROVE  Filled(r, s)
BY ConfigValid DEF Services
-----------------------------------------------------------------------------
(* The events of a rescan *)

\* An order of a set is a sequence over it that misses nothing.
LEMMA OrderSeq ==
  ASSUME NEW S, NEW q \in Orders(S)
  PROVE  /\ q \in Seq(S)
         /\ \A x \in S : \E i \in 1..Len(q) : q[i] = x
BY DEF Orders

LEMMA BlockEventsType ==
  ASSUME NEW c \in Configs, NEW d \in Configs, NEW r \in Roles,
         equal_without_service(c[r], d[r]),
         NEW q \in BlockEvents(r, c[r], d[r])
  PROVE  q \in Seq(ServiceChange)
<1>1. CASE c[r] = None
  BY <1>1 DEF BlockEvents
<1>2. CASE c[r] # None
  <2>1. d[r] # None
    BY <1>2 DEF equal_without_service
  <2>3. PICK dels \in Orders(Deletions(r, c[r], d[r])),
             adds \in Orders(Additions(r, c[r], d[r])) : q = dels \o adds
    BY <1>2, SMTT(30) DEF BlockEvents
  <2>4. /\ dels \in Seq(Deletions(r, c[r], d[r]))
        /\ adds \in Seq(Additions(r, c[r], d[r]))
    BY <2>3, OrderSeq, SMTT(30)
  <2>5. c[r].services \subseteq Services(r) /\ d[r].services \subseteq Services(r)
    BY <1>2, <2>1, SMTT(30) DEF Services
  <2>6. Deletions(r, c[r], d[r]) \subseteq ServiceChange
    BY <2>5 DEF Deletions, ServiceChange
  <2>7. Additions(r, c[r], d[r]) \subseteq ServiceChange
    BY <2>5 DEF Additions, ServiceChange
  <2>8. dels \in Seq(ServiceChange) /\ adds \in Seq(ServiceChange)
    BY <2>4, <2>6, <2>7, WiderSeq
  <2> QED
    BY <2>3, <2>8
<1> QED
  BY <1>1, <1>2

LEMMA EventsType ==
  ASSUME NEW c \in Configs, NEW d \in Configs, NEW q \in CalculateEvents(c, d)
  PROVE  q \in Seq(ConfigChange)
<1>1. CASE \E r \in Roles : ~equal_without_service(c[r], d[r])
  <2>1. q = <<General(d)>> /\ General(d) \in ConfigChange
    BY <1>1 DEF CalculateEvents, ConfigChange
  <2> QED
    BY <2>1
<1>2. CASE \A r \in Roles : equal_without_service(c[r], d[r])
  <2>1. PICK a \in BlockEvents("server", c.server, d.server),
             b \in BlockEvents("client", c.client, d.client) : q = a \o b
    BY <1>2, SMTT(30) DEF CalculateEvents
  <2>2. a \in Seq(ServiceChange) /\ b \in Seq(ServiceChange)
    BY <1>2, <2>1, BlockEventsType DEF Roles
  <2>3. Seq(ServiceChange) \subseteq Seq(ConfigChange)
    BY WiderSeq DEF ConfigChange
  <2> QED
    BY <2>1, <2>2, <2>3, SMTT(30)
<1> QED
  BY <1>1, <1>2
-----------------------------------------------------------------------------
(* The type invariant *)

LEMMA RunMode ==
  ASSUME NEW c, NEW a
  PROVE  determine_run_mode(c, a) \in Roles \cup {"undetermined"}
BY DEF determine_run_mode, Roles

LEMMA ReadFile ==
  ASSUME NEW f \in Contents, from_str(f) # Invalid
  PROVE  from_str(f) \in Configs
BY SMTT(30) DEF Configs

\* What kind a change is tells what it is.
LEMMA ChangeKind ==
  ASSUME NEW e \in ConfigChange
  PROVE  /\ e.kind = "General" => e.config \in Configs
         /\ e.kind # "General" => e \in ServiceChange
BY DEF ServiceChange, Add, Delete, General, ConfigChange

\* An addition brings a service of its role.
LEMMA AddedService ==
  ASSUME NEW e \in ServiceChange, e.kind = "Add"
  PROVE  e.service \in Services(e.role)
BY SMTT(30) DEF ServiceChange, Add, Delete

\* The conjuncts of TypeOK about the instance.
InstanceOK ==
  /\ inst \in {"none", "run", "ended", "failed"}
  /\ mode \in Roles \cup {"undetermined"}
  /\ stop \in BOOLEAN
  /\ updates \in Seq(ServiceChange) /\ Len(updates) <= UpdateCap
  /\ inst = "run" => \E c \in Configs :
       mode \in Roles /\ c[mode] # None /\ running = WithoutServices(c[mode])
  /\ mode \in Roles => live \subseteq Services(mode)
  /\ mode \notin Roles => live = {}

LEMMA StartType ==
  ASSUME NEW c \in Configs, Start(c)
  PROVE  InstanceOK'
<1>1. mode' \in Roles \cup {"undetermined"}
  BY RunMode, Zenon DEF Start
<1>2. /\ stop' = FALSE
      /\ updates' = <<>>
      /\ \/ /\ mode' \in Roles /\ c[mode'] # None
            /\ inst' = "run"
            /\ running' = WithoutServices(c[mode'])
            /\ live' = c[mode'].services
         \/ inst' = "failed" /\ live' = {}
  BY Zenon DEF Start
<1>3. updates' \in Seq(ServiceChange) /\ Len(updates') <= UpdateCap
  BY <1>2, WatcherAssumption
<1>4. CASE /\ mode' \in Roles /\ c[mode'] # None
           /\ inst' = "run"
           /\ running' = WithoutServices(c[mode'])
           /\ live' = c[mode'].services
  <2>1. live' \subseteq Services(mode')
    BY <1>4 DEF Services
  <2> QED
    BY <1>1, <1>2, <1>3, <1>4, <2>1, ZenonT(30) DEF InstanceOK
<1>5. CASE inst' = "failed" /\ live' = {}
  BY <1>1, <1>2, <1>3, <1>5, Zenon DEF InstanceOK
<1> QED
  BY <1>2, <1>4, <1>5

LEMMA InitTypeOK == Init => TypeOK
<1> SUFFICES ASSUME Init PROVE TypeOK
  OBVIOUS
<1>1. old \in Configs
  BY ReadFile DEF Init
<1>2. events \in Seq(ConfigChange)
  BY <1>1 DEF Init, ConfigChange
<1>3. updates \in Seq(ServiceChange) /\ Len(updates) <= UpdateCap
  BY WatcherAssumption DEF Init
<1>4. mode \notin Roles /\ live = {}
  BY SMTT(30) DEF Init, Roles
<1>5. edits \in 0..MaxEdits
  BY WatcherAssumption DEF Init
<1> QED
  BY <1>1, <1>2, <1>3, <1>4, <1>5, ZenonT(30) DEF Init, TypeOK

LEMMA WatchTypeOK ==
  ASSUME TypeOK, (\E f \in Contents : Edit(f)) \/ Watch \/ Rescan \/ WatcherShutdown
  PROVE  TypeOK'
<1> USE DEF source, watch, instance
<1>1. ASSUME NEW f \in Contents, Edit(f)
      PROVE  TypeOK'
  BY <1>1, WatcherAssumption, SMTT(30) DEF TypeOK, Edit
<1>2. CASE Watch
  BY <1>2, SMTT(30) DEF TypeOK, Watch
<1>3. CASE Rescan
  <2>1. fevents' \in Nat
    BY <1>3, SMTT(30) DEF TypeOK, Rescan
  <2>2. /\ watcher' \in {"start", "run", "done"}
        /\ old' \in Configs
        /\ events' \in Seq(ConfigChange)
    <3> DEFINE new == from_str(file)
    <3>1. CASE new = Invalid /\ UNCHANGED <<watcher, old, events>>
      BY <3>1 DEF TypeOK
    <3>2. ASSUME new # Invalid, NEW q \in CalculateEvents(old, new),
                 IF q # <<>> /\ main \in {"done", "error"}
                 THEN watcher' = "done" /\ UNCHANGED <<old, events>>
                 ELSE old' = new /\ events' = events \o q /\ UNCHANGED watcher
          PROVE  /\ watcher' \in {"start", "run", "done"}
                 /\ old' \in Configs
                 /\ events' \in Seq(ConfigChange)
      <4>1. new \in Configs
        BY <3>2, ReadFile, SMTT(30) DEF TypeOK
      <4> HIDE DEF new
      <4>2. q \in Seq(ConfigChange)
        BY <3>2, <4>1, EventsType, SMTT(30) DEF TypeOK
      <4>3. events \o q \in Seq(ConfigChange)
        BY <4>2, SMTT(30) DEF TypeOK
      <4>4. CASE q # <<>> /\ main \in {"done", "error"}
        BY <3>2, <4>4 DEF TypeOK
      <4>5. CASE ~(q # <<>> /\ main \in {"done", "error"})
        BY <3>2, <4>1, <4>3, <4>5, ZenonT(30) DEF TypeOK
      <4> QED
        BY <4>4, <4>5, SMTT(30)
    <3> QED
      BY <1>3, <3>1, <3>2, SMTT(30) DEF Rescan
  <2>3. UNCHANGED <<source, main, next, instance>>
    BY <1>3, SMTT(30) DEF Rescan
  <2> QED
    BY <2>1, <2>2, <2>3, SMTT(30) DEF TypeOK
<1>4. CASE WatcherShutdown
  BY <1>4 DEF TypeOK, WatcherShutdown
<1> QED
  BY <1>1, <1>2, <1>3, <1>4, SMTT(30)

LEMMA MainTypeOK ==
  ASSUME TypeOK,
         MainGeneral \/ MainRestart \/ MainService \/ MainClosed \/ MainExit
  PROVE  TypeOK'
<1> USE DEF source, watch
<1>0. InstanceOK
  BY SMTT(30) DEF TypeOK, InstanceOK
<1>1. CASE MainGeneral
  <2>1. /\ events # <<>> /\ Head(events).kind = "General"
        /\ events' = Tail(events)
        /\ next' = Head(events).config
        /\ UNCHANGED <<source, watch>>
    BY <1>1, SMTT(30) DEF MainGeneral
  <2>2. Head(events) \in ConfigChange /\ events' \in Seq(ConfigChange)
    BY <2>1, SMTT(30) DEF TypeOK
  <2>3. next' \in Configs
    BY <2>1, <2>2, ChangeKind, SMTT(30)
  <2>4. main' \in {"loop", "stopping", "closing", "done", "error"} /\ InstanceOK'
    <3>1. CASE inst = "none" /\ Start(next') /\ UNCHANGED main
      BY <3>1, <2>3, StartType, SMTT(30) DEF TypeOK
    <3>2. CASE /\ inst = "run"
               /\ main' = "stopping" /\ stop' = TRUE
               /\ UNCHANGED <<inst, mode, updates, running, live, moved>>
      BY <3>2, <1>0, SMTT(30) DEF InstanceOK
    <3>3. CASE inst = "failed" /\ main' = "error" /\ UNCHANGED instance
      BY <3>3, <1>0, SMTT(30) DEF InstanceOK, instance
    <3> QED
      BY <1>1, <3>1, <3>2, <3>3, ZenonT(30) DEF MainGeneral
  <2> QED
    BY <2>1, <2>2, <2>3, <2>4, SMTT(30) DEF TypeOK, InstanceOK
<1>2. CASE MainRestart
  BY <1>0, <1>2, StartType, SMTT(30) DEF MainRestart, TypeOK, InstanceOK, instance
<1>3. CASE MainService
  <2>1. /\ events # <<>> /\ Head(events).kind # "General"
        /\ events' = Tail(events)
        /\ UNCHANGED <<source, watch, main, next, inst, mode, stop, running,
                       live, moved>>
        /\ \/ Len(updates) < UpdateCap /\ updates' = Append(updates, Head(events))
           \/ UNCHANGED updates
    BY <1>3, SMTT(30) DEF MainService
  <2>2. Head(events) \in ConfigChange /\ events' \in Seq(ConfigChange)
    BY <2>1, SMTT(30) DEF TypeOK
  <2>3. Head(events) \in ServiceChange
    BY <2>1, <2>2, ChangeKind, SMTT(30)
  <2>4. updates \in Seq(ServiceChange) /\ Len(updates) <= UpdateCap
        /\ Len(updates) \in Nat /\ UpdateCap \in Nat
    BY WatcherAssumption DEF TypeOK
  <2>5. ASSUME Len(updates) < UpdateCap,
               updates' = Append(updates, Head(events))
        PROVE  updates' \in Seq(ServiceChange) /\ Len(updates') <= UpdateCap
    <3> DEFINE e == Head(events)
    <3>1. e \in ServiceChange /\ updates' = Append(updates, e)
      BY <2>3, <2>5
    <3> HIDE DEF e
    <3>2. updates' \in Seq(ServiceChange) /\ Len(updates') = Len(updates) + 1
      BY <3>1, <2>4
    <3> QED
      BY <2>4, <2>5, <3>2
  <2>6. ASSUME UNCHANGED updates
        PROVE  updates' \in Seq(ServiceChange) /\ Len(updates') <= UpdateCap
    BY <2>4, <2>6, SMTT(30)
  <2>7. updates' \in Seq(ServiceChange) /\ Len(updates') <= UpdateCap
    BY <2>1, <2>5, <2>6, SMTT(30)
  <2> QED
    BY <2>1, <2>2, <2>7, SMTT(30) DEF TypeOK
<1>4. CASE MainClosed
  BY <1>4, SMTT(30) DEF TypeOK, MainClosed
<1>5. CASE MainExit
  BY <1>5 DEF TypeOK, MainExit, instance
<1> QED
  BY <1>1, <1>2, <1>3, <1>4, <1>5, SMTT(30)

LEMMA InstanceTypeOK ==
  ASSUME TypeOK, InstanceUpdate \/ InstanceStop \/ InstanceFail
  PROVE  TypeOK'
<1> USE DEF source, watch
<1>1. CASE InstanceUpdate
  <2> DEFINE e == Head(updates)
  <2>1. /\ updates # <<>> /\ updates' = Tail(updates) /\ inst = "run"
        /\ UNCHANGED <<source, watch, events, main, next, inst, mode, stop,
                       running>>
    BY <1>1, SMTT(30) DEF InstanceUpdate
  <2>2. /\ e \in ServiceChange
        /\ updates' \in Seq(ServiceChange) /\ Len(updates') <= UpdateCap
    BY <2>1, WatcherAssumption, SMTT(30) DEF TypeOK
  <2> HIDE DEF e
  <2>3. \/ /\ e.role = mode /\ e.kind = "Add"
           /\ live' \subseteq live \cup {e.service}
        \/ live' \subseteq live
    BY <1>1, SMTT(30) DEF InstanceUpdate, e
  <2>4. mode \in Roles
    BY <2>1, SMTT(30) DEF TypeOK
  <2>5. live' \subseteq Services(mode)
    BY <2>2, <2>3, <2>4, AddedService, SMTT(30) DEF TypeOK
  <2> QED
    BY <2>1, <2>2, <2>4, <2>5, SMTT(30) DEF TypeOK
<1>2. CASE InstanceStop
  BY <1>2, WatcherAssumption, SMTT(30) DEF TypeOK, InstanceStop
<1>3. CASE InstanceFail
  BY <1>3, WatcherAssumption, SMTT(30) DEF TypeOK, InstanceFail
<1> QED
  BY <1>1, <1>2, <1>3, SMTT(30)

LEMMA NextTypeOK == TypeOK /\ [Next]_vars => TypeOK'
BY InstanceTypeOK, MainTypeOK, WatchTypeOK
   DEF TypeOK, vars, source, watch, instance, Next

\* The channel to the instance holds at most UpdateCap changes, each about a
\* service of a valid file, the configuration an instance is started with is
\* valid, and what handle_hot_reload puts into its tables is of its role.
THEOREM TypeCorrect == Spec => []TypeOK
BY InitTypeOK, NextTypeOK, PTL DEF Spec

\* Every service an instance ever knows has its options filled in, whatever
\* files are written and however their changes are cut into events.
THEOREM OptionsFilledHolds == Spec => []OptionsFilled
<1>1. TypeOK => OptionsFilled
  BY ServicesFilled DEF OptionsFilled, TypeOK, Filled
<1> QED
  BY <1>1, TypeCorrect, PTL
=============================================================================
