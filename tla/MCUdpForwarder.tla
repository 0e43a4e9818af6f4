--------------------------- MODULE MCUdpForwarder ---------------------------
(***************************************************************************)
(* UdpForwarder on small instances.  Channels of one fill up; a third      *)
(* forwarder is created after one of the two visitors' has left.           *)
(***************************************************************************)
EXTENDS UdpForwarder
=============================================================================
