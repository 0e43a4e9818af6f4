----------------------------- MODULE MCHeartbeat -----------------------------
(***************************************************************************)
(* Heartbeat on a small instance.  The intervals and timeouts contain the  *)
(* value that switches a timer off, pairs that satisfy the condition of    *)
(* NoFalseTimeout by one tick, and pairs that miss it.                      *)
(***************************************************************************)
EXTENDS Heartbeat
=============================================================================
