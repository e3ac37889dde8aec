-------------------------------- MODULE MCNetwork --------------------------------
(***************************************************************************)
(* Two servers, the discovery server and DHCP on three hardware sockets, one *)
(* of which the sketch may occupy, and a client on one interface with queues *)
(* of one element.                                                           *)
(***************************************************************************)
EXTENDS Discovery
=============================================================================
