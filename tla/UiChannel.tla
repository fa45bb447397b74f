----------------------------- MODULE UiChannel ------------------------------
(***************************************************************************)
(* The channel between the service and its user interface: the TCP server  *)
(* (TcpThreadBind), the one socket m_Socket and the requests read from it  *)
(* (newConnection, readyRead, remoteClientDisconect, waitRemote of         *)
(* XMPPService.cpp).  The handlers all run in the event loop of the main   *)
(* thread, one at a time.                                                  *)
(*                                                                         *)
(* A connection is a number, in the order of the connecting.  A request is *)
(* counted, not looked into: what it asks for is in the modules of the     *)
(* components it reaches.  The socket itself is Qt's (external): destroying*)
(* a connected socket aborts it, and that emits disconnected().            *)
(***************************************************************************)
EXTENDS Naturals, Sequences

CONSTANTS
    MaxConnections,   \* bound on the connections the UI makes
    MaxRequests,      \* bound on the requests it writes on one of them
    MaxBinds          \* bound on the timers of waitRemote that are pending

ASSUME UiBoundsAssumption ==
    MaxConnections \in Nat /\ MaxRequests \in Nat /\ MaxBinds \in Nat \ {0}

VARIABLES
    listening,  \* m_Server->isListening()
    binds,      \* pending timers of waitRemote
    ui,         \* the UI's end of each connection
    served,     \* the service's end of each connection
    socket,     \* m_Socket, or NoConnection
    wired,      \* the signals of m_Socket lead to the slots of XMPP
    written,    \* requests on their way on each connection
    buffered,   \* requests in the read buffer of m_Socket
    handled     \* history: requests handled of each connection

uiVars == <<listening, binds, ui, served, socket, wired, written, buffered, handled>>

Connection == 1..MaxConnections
NoConnection == 0

\* The socket of a connection other than m_Socket is not open: nobody would
\* read it or notice that it closes.
NoOrphan ==
    \A c \in Connection : served[c] = "open" => socket = c

UiTypeOK ==
    /\ listening \in BOOLEAN
    /\ binds \in 0..MaxBinds
    /\ ui \in [Connection -> {"none", "here", "left"}]
    /\ served \in [Connection -> {"none", "backlog", "open", "closed"}]
    /\ socket \in Connection \cup {NoConnection}
    /\ wired \in BOOLEAN
    /\ written \in [Connection -> 0..MaxRequests]
    /\ buffered \in 0..MaxRequests
    /\ handled \in [Connection -> 0..MaxRequests]
    /\ NoOrphan

UiInit ==
    /\ listening = FALSE
    /\ binds = 1                    \* the constructor calls waitRemote
    /\ ui = [c \in Connection |-> "none"]
    /\ served = [c \in Connection |-> "none"]
    /\ socket = NoConnection /\ wired = FALSE
    /\ written = [c \in Connection |-> 0]
    /\ buffered = 0
    /\ handled = [c \in Connection |-> 0]

-----------------------------------------------------------------------------
(* Listening.                                                              *)

Open(c) == c # NoConnection /\ served[c] = "open"

\* waitRemote
WaitRemote == binds' = IF binds < MaxBinds THEN binds + 1 ELSE binds

\* TcpThreadBind::process, which runs in the main thread: the server listens
\* until the process ends, so that all but the first do nothing.  The port
\* may be taken.
Process ==
    /\ binds > 0
    /\ binds' = binds - 1
    /\ listening' \in {listening, TRUE}
    /\ UNCHANGED <<ui, served, socket, wired, written, buffered, handled>>

\* bb.action.START
InvokedStart ==
    /\ WaitRemote
    /\ UNCHANGED <<listening, ui, served, socket, wired, written, buffered, handled>>

-----------------------------------------------------------------------------
(* The UI's end.                                                           *)

Connects(c) ==
    /\ listening
    /\ ui[c] = "none" /\ \A d \in Connection : d < c => ui[d] # "none"
    /\ ui' = [ui EXCEPT ![c] = "here"]
    /\ served' = [served EXCEPT ![c] = "backlog"]
    /\ UNCHANGED <<listening, binds, socket, wired, written, buffered, handled>>

\* One write, or several that the network delivers together.
Writes(c) ==
    /\ ui[c] = "here" /\ served[c] # "closed"
    /\ written[c] + handled[c] + (IF socket = c THEN buffered ELSE 0) < MaxRequests
    /\ written' = [written EXCEPT ![c] = @ + 1]
    /\ UNCHANGED <<listening, binds, ui, served, socket, wired, buffered, handled>>

Leaves(c) ==
    /\ ui[c] = "here"
    /\ ui' = [ui EXCEPT ![c] = "left"]
    /\ UNCHANGED <<listening, binds, served, socket, wired, written, buffered, handled>>

-----------------------------------------------------------------------------
(* The service's end.                                                      *)

\* Mutant: the signals are not connected when there was a socket before.
NewConnectionDeaf(c) ==
    /\ served[c] = "backlog" /\ \A d \in Connection : served[d] = "backlog" => c <= d
    /\ ~Open(socket)
    /\ served' = [served EXCEPT ![c] = "open"]
    /\ socket' = c /\ wired' = (socket = NoConnection) /\ buffered' = 0
    /\ UNCHANGED <<listening, binds, ui, written, handled>>

\* newConnection.  The assignment destroys the previous socket.  If that one
\* is still connected, its disconnected() signal runs remoteClientDisconect
\* at once, with m_Socket already the new socket, which is closed by it.
NewConnection(c) ==
    /\ served[c] = "backlog" /\ \A d \in Connection : served[d] = "backlog" => c <= d
    /\ \/ /\ ~Open(socket)
          /\ served' = [served EXCEPT ![c] = "open"]
          /\ UNCHANGED binds
       \/ /\ Open(socket)
          /\ served' = [served EXCEPT ![socket] = "closed", ![c] = "closed"]
          /\ WaitRemote
    /\ socket' = c /\ wired' = TRUE /\ buffered' = 0
    /\ UNCHANGED <<listening, ui, written, handled>>

\* readyRead: what has arrived goes into the buffer, and one request of it is
\* handled.
ReadyRead(c) ==
    /\ Open(c) /\ wired /\ written[c] > 0
    /\ written' = [written EXCEPT ![c] = 0]
    /\ buffered' = buffered + written[c] - 1
    /\ handled' = [handled EXCEPT ![c] = @ + 1]
    /\ UNCHANGED <<listening, binds, ui, served, socket, wired>>

\* remoteClientDisconect, when the end of the connection is read.
RemoteClientDisconect(c) ==
    /\ Open(c) /\ wired /\ ui[c] = "left" /\ written[c] = 0
    /\ served' = [served EXCEPT ![c] = "closed"]
    /\ wired' = FALSE /\ buffered' = 0
    /\ WaitRemote
    /\ UNCHANGED <<listening, ui, socket, written, handled>>

UiNext ==
    \/ InvokedStart
    \/ Process
    \/ \E c \in Connection :
          \/ Connects(c) \/ Writes(c) \/ Leaves(c)
          \/ NewConnection(c) \/ ReadyRead(c) \/ RemoteClientDisconect(c)

\* The event loop gets round to every slot; the UI may stop at any point.
UiFairness ==
    \A c \in Connection :
       /\ WF_uiVars(NewConnection(c))
       /\ WF_uiVars(ReadyRead(c))
       /\ WF_uiVars(RemoteClientDisconect(c))

UiSpec == UiInit /\ [][UiNext]_uiVars /\ UiFairness

-----------------------------------------------------------------------------
(* Properties.                                                             *)

\* A client that has left is noticed, so that the service stops writing to
\* its socket and stores what arrives instead: remoteClientDisconect runs, or
\* the next client's connection does its work.
DepartureNoticed ==
    \A c \in Connection : (Open(c) /\ ui[c] = "left") ~> ~Open(c)
=============================================================================
