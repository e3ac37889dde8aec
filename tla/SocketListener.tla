----------------------------- MODULE SocketListener -----------------------------
(***************************************************************************)
(* What a ServerSocket promises its listener: the abstract specification    *)
(* behind utils/socket_listener.h.  A listener is told of a connection with  *)
(* OnConnect; while it considers that connection open it may be called with  *)
(* OnCanRead or OnHalfClosed, any number of times; the connection ends       *)
(* exactly once, either because the listener closed it during one of those   *)
(* calls, or because OnDisconnect told the listener that it is broken.  One  *)
(* call is active at a time.                                                 *)
(***************************************************************************)

VARIABLES
    session,    \* "open" while the listener considers a connection open
    call        \* the listener method being executed, or "none"

vars == <<session, call>>

Init == session = "none" /\ call = "none"

\* A call that announces a new connection: only when none is open.
Announce ==
    /\ call = "none" /\ session = "none"
    /\ call' = "OnConnect"
    /\ UNCHANGED session

\* A call about the connection that is open.
Notify ==
    /\ call = "none" /\ session = "open"
    /\ call' \in {"OnCanRead", "OnHalfClosed", "OnDisconnect"}
    /\ UNCHANGED session

\* OnConnect, OnCanRead and OnHalfClosed return with the connection open, or
\* closed by the listener.
Return ==
    /\ call \in {"OnConnect", "OnCanRead", "OnHalfClosed"}
    /\ session' \in {"open", "none"}
    /\ call' = "none"

\* OnDisconnect returns, and the connection is over.
ReturnDisconnected ==
    /\ call = "OnDisconnect"
    /\ session' = "none"
    /\ call' = "none"

Next == Announce \/ Notify \/ Return \/ ReturnDisconnected

Spec == Init /\ [][Next]_vars
=============================================================================
