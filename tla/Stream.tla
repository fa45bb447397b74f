------------------------------- MODULE Stream -------------------------------
(***************************************************************************)
(* The negotiation of an XMPP stream and its keep-alive, with the server:  *)
(* QXmppOutgoingClient.cpp on QXmppStream.cpp, and of QXmppSasl.cpp how    *)
(* many messages a mechanism takes.                                        *)
(*                                                                         *)
(* What has arrived is read at once and handled stanza by stanza within    *)
(* one slot: while `batch` is not empty nothing else of the client runs,   *)
(* and a close in the middle of it does not end the loop.                  *)
(*                                                                         *)
(* The server is external.  It answers what it is asked as the RFCs have   *)
(* it, may refuse anything, end the stream, close, or fall silent.         *)
(***************************************************************************)
EXTENDS Naturals, Sequences

CONSTANTS
    Mechanisms,   \* SASL mechanisms the client and the server may share
    Modes,        \* security modes the stream is configured with
    Rounds,       \* how often QXmppSaslClient::respond succeeds, for each
    MaxBacklog    \* bound on what is on its way from the server

ASSUME MechanismsAssumption ==
    /\ "none" \notin Mechanisms
    /\ Modes \subseteq {"Enabled", "Disabled", "Required"}
    /\ Rounds \in [Mechanisms -> Nat \ {0}]
ASSUME MaxBacklogAssumption == MaxBacklog \in Nat

VARIABLES
    tcp,          \* state of the socket
    encrypted,    \* QSslSocket::isEncrypted()
    securing,     \* startClientEncryption() has not come to its end
    mode,         \* configuration().streamSecurityMode()
    mech, step,   \* saslClient and its m_step
    authenticated,\* isAuthenticated
    bindId, sessionId, nonSASLAuthId,  \* a request is known by that id
    sessionAvailable, sessionStarted,  \* as in the code
    redirectHost, \* is set
    pingTimer, timeoutTimer,           \* are active
    batch,        \* stanzas read and still to be handled in this slot
    toClient, toServer,                \* what is on its way
    server,       \* what the server knows of this connection
    refused       \* history: the server has refused a request of it

socketVars == <<tcp, encrypted, securing>>
authVars == <<mech, step, authenticated>>
idVars == <<bindId, sessionId, nonSASLAuthId, sessionAvailable, sessionStarted>>
timerVars == <<pingTimer, timeoutTimer>>
linkVars == <<toClient, toServer, server, refused>>
negotiationVars == <<socketVars, mode, authVars, idVars, redirectHost,
                   timerVars, batch, linkVars>>

NoServer == [tls |-> FALSE, auth |-> FALSE, state |-> "listening"]

ClientSays == {"header", "starttls", "auth", "response", "bind", "session",
              "query", "legacyAuth", "ping"}

\* What the state of the socket and of the session amounts to.
Sock ==
    IF tcp # "connected" THEN tcp
    ELSE IF sessionStarted THEN "session" ELSE "negotiating"

StreamTypeOK ==
    /\ tcp \in {"unconnected", "connecting", "aborting", "connected", "closing"}
    /\ encrypted \in BOOLEAN /\ securing \in BOOLEAN
    /\ mode \in Modes
    /\ mech \in Mechanisms \cup {"none"}
    /\ step \in (IF mech = "none" THEN {0} ELSE 1..Rounds[mech])
    /\ authenticated \in BOOLEAN
    /\ {bindId, sessionId, nonSASLAuthId} \subseteq BOOLEAN
    /\ {sessionAvailable, sessionStarted, redirectHost} \subseteq BOOLEAN
    /\ {pingTimer, timeoutTimer} \subseteq BOOLEAN
    /\ server \in [tls : BOOLEAN, auth : BOOLEAN,
                   state : {"listening", "done", "mute"}]
    /\ refused \in BOOLEAN
    /\ toServer \in Seq(ClientSays)
    /\ securing => tcp \in {"connected", "closing"}
    /\ tcp \in {"unconnected", "connecting"} => toClient = <<>> /\ toServer = <<>>

StreamInit ==
    /\ tcp = "unconnected" /\ encrypted = FALSE /\ securing = FALSE
    /\ mode \in Modes
    /\ mech = "none" /\ step = 0 /\ authenticated = FALSE
    /\ bindId = FALSE /\ sessionId = FALSE /\ nonSASLAuthId = FALSE
    /\ sessionAvailable = FALSE /\ sessionStarted = FALSE
    /\ redirectHost = FALSE
    /\ pingTimer = FALSE /\ timeoutTimer = FALSE
    /\ batch = <<>> /\ toClient = <<>> /\ toServer = <<>>
    /\ server = NoServer /\ refused = FALSE

-----------------------------------------------------------------------------
(* The socket.                                                             *)

\* Mutant: the host it is redirected to is not forgotten.
SocketDisconnectedTwice(t) ==
    /\ authenticated' = FALSE
    /\ encrypted' = FALSE /\ securing' = FALSE
    /\ UNCHANGED redirectHost
    /\ \/ redirectHost /\ tcp' = "connecting" /\ timeoutTimer' = t /\ UNCHANGED pingTimer
       \/ ~redirectHost /\ tcp' = "unconnected" /\ timeoutTimer' = FALSE /\ pingTimer' = FALSE
    /\ toClient' = <<>> /\ toServer' = <<>>
    /\ server' = NoServer /\ refused' = FALSE

\* _q_socketDisconnected; `t` is whether timeoutTimer is active by now.
SocketDisconnected(t) ==
    /\ authenticated' = FALSE
    /\ encrypted' = FALSE /\ securing' = FALSE
    /\ redirectHost' = FALSE
    /\ \/ /\ redirectHost                    \* no signal
          /\ tcp' = "connecting"
          /\ timeoutTimer' = t /\ UNCHANGED pingTimer
       \/ /\ ~redirectHost                   \* disconnected(): pingStop
          /\ tcp' = "unconnected"
          /\ timeoutTimer' = FALSE /\ pingTimer' = FALSE
    /\ toClient' = <<>> /\ toServer' = <<>>
    /\ server' = NoServer /\ refused' = FALSE

\* disconnectFromHost: Qt closes within the call or later; what has not been
\* read by then is not read any more.
DisconnectFromHost(t) ==
    \/ /\ tcp' = CASE tcp = "connected" -> "closing"
                    [] tcp = "connecting" -> "aborting"
                    [] OTHER -> tcp
       /\ toClient' = <<>>
       /\ timeoutTimer' = t
       /\ UNCHANGED <<encrypted, securing, authenticated, redirectHost, pingTimer,
                      toServer, server, refused>>
    \/ tcp = "connected" /\ SocketDisconnected(t)

\* sendData
Send(m) ==
    toServer' = IF tcp = "connected" THEN Append(toServer, m) ELSE toServer

\* handleStart.  What the mechanism held is gone, the id of a legacy request
\* is not.
HandleStart ==
    /\ mech' = "none" /\ step' = 0
    /\ bindId' = FALSE /\ sessionId' = FALSE
    /\ sessionAvailable' = FALSE /\ sessionStarted' = FALSE
    /\ toServer' = Append(toServer, "header")

\* What an action outside of the slot of readyRead() leaves alone.
Unread == UNCHANGED <<batch, nonSASLAuthId>>
NotStarted == UNCHANGED <<mech, step, bindId, sessionId, sessionAvailable,
                          sessionStarted>>

\* connectToHost for a configuration, or the lookup it started has finished
\* (the lookup itself is in XMPPConnection): d->connectToHost, which Qt ignores
\* unless the socket is unconnected.
ConnectToHost(m) ==
    /\ batch = <<>>
    /\ mode' = m
    /\ tcp' = IF tcp = "unconnected" THEN "connecting" ELSE tcp
    /\ Unread /\ NotStarted
    /\ UNCHANGED <<encrypted, securing, authenticated, redirectHost, timerVars,
                   linkVars>>

\* _q_socketConnected, or the close that was asked for while connecting.
SocketConnected ==
    /\ batch = <<>>
    /\ \/ /\ tcp = "connecting" /\ tcp' = "connected"
          /\ HandleStart
       \/ /\ tcp = "aborting" /\ tcp' = "closing"
          /\ NotStarted /\ UNCHANGED toServer
    /\ Unread
    /\ UNCHANGED <<encrypted, securing, mode, authenticated, redirectHost,
                   timerVars, toClient, server, refused>>

\* socketError without disconnected().
SocketError ==
    /\ batch = <<>> /\ tcp \in {"connecting", "aborting"}
    /\ tcp' = "unconnected"
    /\ Unread /\ NotStarted
    /\ UNCHANGED <<encrypted, securing, mode, authenticated, redirectHost,
                   timerVars, linkVars>>

\* The connection is lost, or a close begun earlier comes to its end.
SocketCloses ==
    /\ batch = <<>> /\ tcp \in {"connected", "closing"}
    /\ SocketDisconnected(timeoutTimer)
    /\ Unread /\ NotStarted
    /\ UNCHANGED mode

\* _q_socketEncrypted
SocketEncrypted ==
    /\ batch = <<>> /\ tcp = "connected" /\ securing
    /\ securing' = FALSE /\ encrypted' = TRUE
    /\ HandleStart
    /\ server' = [server EXCEPT !.tls = TRUE]
    /\ Unread
    /\ UNCHANGED <<tcp, mode, authenticated, redirectHost, timerVars,
                   toClient, refused>>

\* The client above the stream has it closed (QXmppClient, disconnectFromServer).
CloseRequested ==
    /\ batch = <<>>
    /\ DisconnectFromHost(timeoutTimer)
    /\ Unread /\ NotStarted
    /\ UNCHANGED mode

-----------------------------------------------------------------------------
(* handleStream and handleStanza, for the stanza x.  The timeout of the    *)
(* keep-alive is stopped by any stanza before it is looked at.             *)

\* The handler only writes to the server.
OnlySends(m) ==
    /\ Send(m)
    /\ timeoutTimer' = FALSE
    /\ UNCHANGED <<socketVars, authenticated, redirectHost, pingTimer, toClient,
                   server, refused>>

\* The handler gives up.
GivesUp == DisconnectFromHost(FALSE)

\* sessionStarted is set and connected() emitted: pingStart.
Connected ==
    /\ sessionStarted' = TRUE
    /\ pingTimer' = TRUE /\ timeoutTimer' = FALSE
    /\ UNCHANGED <<socketVars, redirectHost, linkVars>>

\* handleStream: a server that gives no version gets the old authentication.
HandleStream(x) ==
    /\ x.type = "header"
    /\ \/ ~x.version /\ Send("query")
       \/ x.version /\ UNCHANGED toServer
    /\ NotStarted
    /\ UNCHANGED <<socketVars, authenticated, nonSASLAuthId, redirectHost,
                   timerVars, toClient, server, refused>>

\* What becomes of the TLS part of the features, encrypted streams apart.
Tls(x) ==
    CASE encrypted -> "go on"
      [] ~encrypted /\ mode = "Required" /\ x.tls = "Disabled" -> "give up"
      [] ~encrypted /\ mode # "Disabled" /\ x.tls # "Disabled" -> "encrypt"
      [] OTHER -> "go on"

\* Features that offer no authentication: bind, or a session, or all is done.
AfterFeatures(x) ==
    /\ sessionAvailable' = x.session
    /\ UNCHANGED <<mech, step, nonSASLAuthId>>
    /\ \/ /\ x.bind
          /\ bindId' = TRUE /\ UNCHANGED <<sessionId, sessionStarted>>
          /\ OnlySends("bind")
       \/ /\ ~x.bind /\ x.session
          /\ sessionId' = TRUE /\ UNCHANGED <<bindId, sessionStarted>>
          /\ OnlySends("session")
       \/ /\ ~x.bind /\ ~x.session
          /\ UNCHANGED <<bindId, sessionId, authenticated>>
          /\ Connected

HandleFeatures(x) ==
    /\ x.type = "features"
    /\ \/ /\ Tls(x) = "give up" \/ (Tls(x) = "go on" /\ x.mech = "unknown")
          /\ GivesUp /\ NotStarted /\ UNCHANGED nonSASLAuthId
       \/ /\ Tls(x) = "encrypt"
          /\ OnlySends("starttls") /\ NotStarted /\ UNCHANGED nonSASLAuthId
       \/ /\ Tls(x) = "go on" /\ x.mech \in Mechanisms
          /\ mech' = x.mech /\ step' = 1
          /\ OnlySends("auth")
          /\ UNCHANGED idVars
       \/ /\ Tls(x) = "go on" /\ x.mech = "none" /\ x.legacy
          /\ OnlySends("query") /\ NotStarted /\ UNCHANGED nonSASLAuthId
       \/ /\ Tls(x) = "go on" /\ x.mech = "none" /\ ~x.legacy
          /\ AfterFeatures(x)

\* <proceed/>: encryption starts at once.
HandleProceed(x) ==
    /\ x.type = "proceed"
    /\ securing' = TRUE
    /\ timeoutTimer' = FALSE
    /\ NotStarted
    /\ UNCHANGED <<tcp, encrypted, authenticated, nonSASLAuthId, redirectHost,
                   pingTimer, linkVars>>

\* Mutant: the stream is not started anew.
HandleSuccessSilent(x) ==
    /\ x.type = "success"
    /\ mech # "none" /\ authenticated' = TRUE
    /\ timeoutTimer' = FALSE /\ NotStarted
    /\ UNCHANGED <<socketVars, nonSASLAuthId, redirectHost, pingTimer, linkVars>>

HandleSuccess(x) ==
    /\ x.type = "success"
    /\ timeoutTimer' = FALSE
    /\ \/ mech # "none" /\ authenticated' = TRUE /\ HandleStart
       \/ mech = "none" /\ NotStarted /\ UNCHANGED <<authenticated, toServer>>
    /\ UNCHANGED <<socketVars, nonSASLAuthId, redirectHost, pingTimer, toClient,
                   server, refused>>

\* Mutant: any number of challenges is answered.
HandleChallengeEndless(x) ==
    /\ x.type = "challenge" /\ mech # "none" /\ ~x.bad
    /\ step' = step + 1
    /\ OnlySends("response")
    /\ UNCHANGED <<mech, idVars>>

\* A challenge is answered as often as the mechanism can, if it can be.
HandleChallenge(x) ==
    /\ x.type = "challenge" /\ mech # "none"
    /\ \/ /\ step < Rounds[mech] /\ ~x.bad
          /\ step' = step + 1
          /\ OnlySends("response")
          /\ UNCHANGED <<mech, idVars>>
       \/ /\ step < Rounds[mech] => x.bad
          /\ GivesUp /\ NotStarted /\ UNCHANGED nonSASLAuthId

\* The authentication fails: error(XmppStreamError), and the close.
HandleFailure(x) ==
    /\ x.type = "failure" /\ mech # "none"
    /\ GivesUp /\ NotStarted /\ UNCHANGED nonSASLAuthId

\* The answer to a session request, of any type.
HandleSessionReply(x) ==
    /\ x.type = "sessionReply" /\ sessionId
    /\ Connected
    /\ UNCHANGED <<authVars, bindId, sessionId, sessionAvailable, nonSASLAuthId>>

\* The result of a bind: a session is asked for where there is one to ask for.
HandleBindResult(x) ==
    /\ x.type = "bindResult" /\ bindId
    /\ \/ /\ sessionAvailable
          /\ sessionId' = TRUE /\ UNCHANGED sessionStarted
          /\ OnlySends("session")
       \/ /\ ~sessionAvailable
          /\ UNCHANGED <<sessionId, authenticated>>
          /\ Connected
    /\ UNCHANGED <<mech, step, bindId, sessionAvailable, nonSASLAuthId>>

\* Mutant: isAuthenticated is not set by the old authentication.
HandleLegacyResultSilent(x) ==
    /\ x.type = "legacyResult" /\ nonSASLAuthId
    /\ Connected
    /\ UNCHANGED <<authVars, bindId, sessionId, sessionAvailable, nonSASLAuthId>>

\* The result of the old authentication, or the fields it is to be asked for.
HandleLegacyResult(x) ==
    /\ x.type = "legacyResult" /\ nonSASLAuthId
    /\ authenticated' = TRUE
    /\ Connected
    /\ UNCHANGED <<mech, step, bindId, sessionId, sessionAvailable, nonSASLAuthId>>

HandleQueryReply(x) ==
    /\ x.type = "queryReply"
    /\ NotStarted
    /\ \/ x.fields /\ nonSASLAuthId' = TRUE /\ OnlySends("legacyAuth")
       \/ ~x.fields /\ UNCHANGED nonSASLAuthId /\ GivesUp

\* A stream error that names another host: it is tried when this one is closed.
HandleSeeOtherHost(x) ==
    /\ x.type = "seeOther"
    /\ NotStarted /\ UNCHANGED nonSASLAuthId
    /\ timeoutTimer' = FALSE
    /\ \/ /\ tcp' = (IF tcp = "connected" THEN "closing" ELSE tcp)
          /\ redirectHost' = TRUE /\ toClient' = <<>>
          /\ UNCHANGED <<encrypted, securing, authenticated, pingTimer, toServer,
                         server, refused>>
       \/ /\ tcp = "connected" /\ tcp' = "connecting"
          /\ redirectHost' = FALSE
          /\ authenticated' = FALSE /\ encrypted' = FALSE /\ securing' = FALSE
          /\ toClient' = <<>> /\ toServer' = <<>>
          /\ server' = NoServer /\ refused' = FALSE
          /\ UNCHANGED pingTimer

\* Everything else is reported, answered or ignored: other stream errors (an
\* error signal and no close), refusals of a bind or of the old
\* authentication, a failure of TLS, pings and their answers.
HandleOther(x) ==
    /\ x.type \in {"error", "bindError", "legacyError", "tlsFailure", "pong", "iq"}
    /\ timeoutTimer' = FALSE
    /\ NotStarted
    /\ UNCHANGED <<socketVars, authenticated, nonSASLAuthId, redirectHost,
                   pingTimer, linkVars>>

\* One turn of the loop in _q_socketReadyRead.
HandleStanza ==
    /\ batch # <<>>
    /\ batch' = Tail(batch)
    /\ LET x == Head(batch) IN
         \/ HandleStream(x) \/ HandleFeatures(x) \/ HandleProceed(x)
         \/ HandleSuccess(x) \/ HandleChallenge(x) \/ HandleFailure(x)
         \/ HandleSessionReply(x) \/ HandleBindResult(x)
         \/ HandleLegacyResult(x) \/ HandleQueryReply(x)
         \/ HandleSeeOtherHost(x) \/ HandleOther(x)
    /\ UNCHANGED mode

\* _q_socketReadyRead reads what is there; what makes no document yet waits.
SocketReadyRead ==
    /\ batch = <<>> /\ tcp = "connected" /\ ~securing
    /\ \E n \in 1..Len(toClient) :
          /\ batch' = SubSeq(toClient, 1, n)
          /\ toClient' = SubSeq(toClient, n + 1, Len(toClient))
    /\ NotStarted
    /\ UNCHANGED <<socketVars, mode, authenticated, nonSASLAuthId, redirectHost,
                   timerVars, toServer, server, refused>>

-----------------------------------------------------------------------------
(* The keep-alive, with its defaults: a ping every 60 s, an answer within  *)
(* 20 s, so that a ping is answered or given up before the next one.       *)

\* Mutant: the timeout is not started.
PingSendForgets ==
    /\ batch = <<>> /\ pingTimer /\ ~timeoutTimer
    /\ toServer' = IF "ping" \in {toServer[i] : i \in DOMAIN toServer}
                    THEN toServer ELSE Append(toServer, "ping")
    /\ Unread /\ NotStarted
    /\ UNCHANGED <<socketVars, mode, authenticated, redirectHost, timerVars,
                   toClient, server, refused>>

\* pingSend, whatever the stream is at; a second ping on its way is one with
\* the first.
PingSend ==
    /\ batch = <<>> /\ pingTimer /\ ~timeoutTimer
    /\ timeoutTimer' = TRUE
    /\ \/ "ping" \in {toServer[i] : i \in DOMAIN toServer} /\ UNCHANGED toServer
       \/ "ping" \notin {toServer[i] : i \in DOMAIN toServer} /\ Send("ping")
    /\ Unread /\ NotStarted
    /\ UNCHANGED <<socketVars, mode, authenticated, redirectHost, pingTimer,
                   toClient, server, refused>>

\* pingTimeout; the error signal is the client's business.
PingTimeout ==
    /\ batch = <<>> /\ timeoutTimer
    /\ DisconnectFromHost(FALSE)
    /\ Unread /\ NotStarted
    /\ UNCHANGED mode

-----------------------------------------------------------------------------
(* The server (external).                                                  *)

Stanza(t) == [type |-> t]

\* Before the authentication some way to go on is offered, if only TLS.
Offers(srv) ==
    IF srv.auth
    THEN [type : {"features"}, tls : {"Disabled"}, mech : {"none"},
          legacy : {FALSE}, bind : BOOLEAN, session : BOOLEAN]
    ELSE {f \in [type : {"features"},
                 tls : IF srv.tls THEN {"Disabled"} ELSE {"Disabled", "Enabled", "Required"},
                 mech : Mechanisms \cup {"none", "unknown"},
                 legacy : BOOLEAN, bind : {FALSE}, session : {FALSE}] :
            f.tls = "Required" \/ f.mech # "none" \/ f.legacy}

Headers(srv) ==
    {<<[type |-> "header", version |-> TRUE], f>> : f \in Offers(srv)}
    \cup {<<[type |-> "header", version |-> TRUE], Stanza("seeOther")>>}
    \cup IF srv.tls \/ srv.auth THEN {}
          ELSE {<<[type |-> "header", version |-> FALSE]>>}

Verdicts ==
    {<<Stanza("success")>>, <<Stanza("failure")>>}
    \cup {<<[type |-> "challenge", bad |-> b]>> : b \in BOOLEAN}

\* What the server may answer to m.
Answers(m, srv) ==
    CASE m = "header"     -> Headers(srv)
      [] m = "starttls"   -> {<<Stanza("proceed")>>, <<Stanza("tlsFailure")>>}
      [] m \in {"auth", "response"} -> Verdicts
      [] m = "bind"       -> {<<Stanza("bindResult")>>, <<Stanza("bindError")>>}
      [] m = "session"    -> {<<Stanza("sessionReply")>>}
      [] m = "query"      -> {<<Stanza("legacyError")>>}
                             \cup {<<[type |-> "queryReply", fields |-> b]>> : b \in BOOLEAN}
      [] m = "legacyAuth" -> {<<Stanza("legacyResult")>>, <<Stanza("legacyError")>>}
      [] m = "ping"       -> {<<Stanza("pong")>>}
                             \cup (IF srv.auth THEN {} ELSE {<<Stanza("error")>>})

Refusals == {"tlsFailure", "bindError", "legacyError"}
LastWords == {"seeOther", "error", "tlsFailure"}   \* the server closes after them

Speaks == tcp = "connected" /\ server.state = "listening"

ServerAnswers ==
    /\ Speaks /\ toServer # <<>>
    /\ toServer' = Tail(toServer)
    /\ \E a \in Answers(Head(toServer), server) :
          LET last == a[Len(a)].type IN
          /\ toClient' = toClient \o a
          /\ server' = [server EXCEPT
                          !.auth = @ \/ last \in {"success", "legacyResult"},
                          !.state = IF last \in LastWords THEN "done" ELSE @]
          /\ refused' = (refused \/ last \in Refusals)
    /\ NotStarted /\ Unread
    /\ UNCHANGED <<socketVars, mode, authenticated, redirectHost, timerVars>>

\* It speaks up by itself: a stanza, a stream error, or in a session one that
\* sends the client elsewhere.
ServerSpeaks ==
    /\ Speaks /\ Len(toClient) < MaxBacklog
    /\ \E t \in {"error"} \cup (IF server.auth THEN {"iq"} ELSE {})
                           \cup (IF Sock = "session" THEN {"seeOther"} ELSE {}) :
          /\ toClient' = Append(toClient, Stanza(t))
          /\ server' = [server EXCEPT !.state = IF t \in LastWords THEN "done" ELSE @]
    /\ NotStarted /\ Unread
    /\ UNCHANGED <<socketVars, mode, authenticated, redirectHost, timerVars,
                   toServer, refused>>

\* It falls silent, or the network loses everything from now on.
ServerDies ==
    /\ Speaks
    /\ server' = [server EXCEPT !.state = "mute"]
    /\ NotStarted /\ Unread
    /\ UNCHANGED <<socketVars, mode, authenticated, redirectHost, timerVars,
                   toClient, toServer, refused>>

-----------------------------------------------------------------------------
StreamNext ==
    \/ \E m \in Modes : ConnectToHost(m)
    \/ CloseRequested
    \/ SocketConnected \/ SocketError \/ SocketCloses
    \/ SocketEncrypted \/ SocketReadyRead \/ HandleStanza
    \/ PingSend \/ PingTimeout
    \/ ServerAnswers \/ ServerSpeaks \/ ServerDies

\* Timers that are not stopped fire, and what has arrived is read.
StreamFairness ==
    /\ WF_negotiationVars(PingSend) /\ WF_negotiationVars(PingTimeout)
    /\ WF_negotiationVars(SocketReadyRead) /\ WF_negotiationVars(HandleStanza)

StreamSpec == StreamInit /\ [][StreamNext]_negotiationVars /\ StreamFairness

-----------------------------------------------------------------------------
(* Properties.                                                             *)

\* Features of a server that insists on TLS and offers nothing before it.
OnlyTls(x) ==
    /\ x.type = "features" /\ x.tls = "Required"
    /\ x.mech = "none" /\ ~x.legacy

\* A session is reported on an authenticated stream only, in every security
\* mode.  The one exception is the code's: under TLSDisabled, the features of
\* a server that insists on TLS and offers nothing else are taken for features
\* with nothing left to do.
SessionIsAuthenticated ==
    [][Sock # "session" /\ Sock' = "session"
          => \/ authenticated'
             \/ mode = "Disabled" /\ batch # <<>> /\ OnlyTls(Head(batch))]_negotiationVars

\* The negotiation never comes to a halt with each side waiting for the
\* other: whatever is offered and however what arrives is split into reads,
\* a stream that is up and at rest has a session.  A refused bind or a refused
\* legacy authentication is the exception: neither is looked at, and nothing
\* limits the time a negotiation takes.
NegotiationConcludes ==
    /\ tcp = "connected" /\ ~securing /\ batch = <<>>
    /\ toClient = <<>> /\ toServer = <<>> /\ server.state = "listening"
    /\ ~refused
    => sessionStarted

\* The keep-alive notices a server that fell silent in a session.
DeadServerNoticed ==
    Sock = "session" /\ server.state = "mute" ~> Sock # "session"

\* The negotiation in all its detail is, to the client above it, the stream of
\* the contract.
Coarse == INSTANCE StreamContract
              WITH alive <- TRUE, sock <- Sock, redirect <- redirectHost,
                   pinging <- pingTimer
StreamKeepsContract == Coarse!ContractSpec
=============================================================================
