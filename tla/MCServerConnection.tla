--------------------------- MODULE MCServerConnection ---------------------------
(* ServerConnection for TLC: one hardware socket, so that TLC's effort goes    *)
(* into the interleavings of the peer's bytes with polls.                      *)
EXTENDS ServerConnection
=============================================================================
