-------------------------- MODULE MCControlChannels -------------------------
(***************************************************************************)
(* ControlChannels on small instances.  Two connections compete for one    *)
(* service, or for its visitor key; two reloads remove the service and     *)
(* bring it back.                                                          *)
(***************************************************************************)
EXTENDS ControlChannels
=============================================================================
