----------------------------- MODULE MCServerSocket -----------------------------
(* ServerSocket for TLC: three hardware sockets, the second one marked with    *)
(* another server's port, so that every outcome of PickClosedSocket happens.   *)
EXTENDS ServerSocket

MCForeignPort == {1}
=============================================================================
