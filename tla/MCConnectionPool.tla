-------------------------- MODULE MCConnectionPool --------------------------
(* ConnectionPool on a small instance: the queues fill up and run dry. *)
EXTENDS ConnectionPool
=============================================================================
