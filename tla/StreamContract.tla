--------------------------- MODULE StreamContract ---------------------------
(***************************************************************************)
(* What a stream promises to the client above it, and what the client may  *)
(* count on: the life of its socket, the host it is redirected to and the  *)
(* timer of the keep-alive.  XMPPConnection, which uses the stream, and    *)
(* Stream, which negotiates it, both implement this specification.         *)
(***************************************************************************)

VARIABLES
    alive,     \* the process runs
    sock,      \* the socket and the stream on it
    redirect,  \* another host is to be tried when this socket has closed
    pinging    \* the keep-alive timer is active

contractVars == <<alive, sock, redirect, pinging>>

Rest == sock = "unconnected" /\ redirect = FALSE /\ pinging = FALSE

Opens ==
    /\ sock = "unconnected" /\ sock' = "connecting"
    /\ UNCHANGED <<redirect, pinging>>

Connects ==
    /\ sock = "connecting" /\ sock' = "negotiating"
    /\ UNCHANGED <<redirect, pinging>>

Fails ==
    /\ sock \in {"connecting", "aborting"} /\ sock' = "unconnected"
    /\ UNCHANGED <<redirect, pinging>>

\* A session only comes out of a negotiation, and starts the keep-alive.
BeginsSession ==
    /\ sock = "negotiating" /\ sock' = "session"
    /\ pinging' = TRUE
    /\ UNCHANGED redirect

\* A close that Qt finishes later.  Only what is up can be sent elsewhere.
BeginsClose ==
    /\ \/ sock = "connecting" /\ sock' = "aborting" /\ redirect' = redirect
       \/ sock = "aborting" /\ sock' = "closing" /\ redirect' = redirect
       \/ /\ sock \in {"negotiating", "session"} /\ sock' = "closing"
          /\ redirect' \in {redirect, TRUE}
    /\ UNCHANGED pinging

\* The end of a connection stops the keep-alive, and is heard of.
Ends ==
    /\ sock \in {"negotiating", "session", "closing"} /\ ~redirect
    /\ sock' = "unconnected" /\ pinging' = FALSE /\ redirect' = FALSE

\* A redirection is silent, and happens once.
MovesOn ==
    /\ \/ sock \in {"negotiating", "session"} /\ ~redirect
       \/ sock = "closing" /\ redirect
    /\ sock' = "connecting" /\ redirect' = FALSE
    /\ UNCHANGED pinging

\* The process starts, perhaps with a connection at once, and may end at any
\* time.
Begins ==
    /\ ~alive /\ alive' = TRUE
    /\ sock' \in {"unconnected", "connecting"}
    /\ UNCHANGED <<redirect, pinging>>

Vanishes == alive /\ alive' = FALSE /\ Rest'

Lives ==
    /\ alive /\ UNCHANGED alive
    /\ \/ Opens \/ Connects \/ Fails \/ BeginsSession \/ BeginsClose
       \/ Ends \/ MovesOn

ContractNext == Begins \/ Lives \/ Vanishes

ContractSpec == Rest /\ [][ContractNext]_contractVars
=============================================================================
