------------------------------ MODULE MCSession ------------------------------
(***************************************************************************)
(* Session on a small instance: two tasks of the service, one in the place *)
(* of the other, three sessions, so that both tasks have one while a third *)
(* is being wound up, and two reloads or faults at any time, one in        *)
(* visitor mode.  UDP_POOL_SIZE is 2 in the code; with one                 *)
(* data channel every loss is the loss of the last.                        *)
(***************************************************************************)
EXTENDS Session
=============================================================================
