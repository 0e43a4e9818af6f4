--------------------------- MODULE SessionRegistry ---------------------------
(***************************************************************************)
(* What the server promises of its sessions, without handshakes and locks: *)
(* a service has one session at most; a session enters once, and one that  *)
(* has left never comes back.                                              *)
(***************************************************************************)
CONSTANTS Services, Sessions

VARIABLES
  owner,  \* the services that have a session, and it
  over    \* the sessions that have left

vars == <<owner, over>>

Init ==
  /\ owner = {}
  /\ over = {}

In(s) == \E k \in Services : <<k, s>> \in owner
Of(k) == {e \in owner : e[1] = k}

Enter(k, s) ==
  /\ s \notin over /\ ~In(s)
  /\ owner' = (owner \ Of(k)) \cup {<<k, s>>}
  /\ over' = over \cup {e[2] : e \in Of(k)}

Leave(k) ==
  /\ owner' = owner \ Of(k)
  /\ over' = over \cup {e[2] : e \in Of(k)}

LeaveAll ==
  /\ owner' = {}
  /\ over' = over \cup {e[2] : e \in owner}

Next ==
  \/ \E k \in Services, s \in Sessions : Enter(k, s)
  \/ \E k \in Services : Leave(k)
  \/ LeaveAll

Spec == Init /\ [][Next]_vars
=============================================================================
