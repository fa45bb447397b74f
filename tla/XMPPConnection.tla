--------------------------- MODULE XMPPConnection ---------------------------
(***************************************************************************)
(* How the service keeps its XMPP connection: class XMPP (XMPPService.cpp) *)
(* with the token client it drives (GoogleConnectController.cpp) and the   *)
(* socket and timers of QXmppClient / QXmppOutgoingClient it is built on.  *)
(*                                                                         *)
(* Everything runs in one event loop, so an action is one slot with all    *)
(* the slots it calls synchronously through signals.  What interleaves is  *)
(* the order in which timers, HTTP replies, socket events and user         *)
(* requests reach that loop.                                               *)
(***************************************************************************)
EXTENDS Naturals

CONSTANTS
    UserFiles,     \* what UserID.txt may hold: "none", or an account given
                   \* as a "jid" or with a "host"
    MaxToken,      \* bound on token timers and token requests together
    CharIsSigned   \* m_LastError is a plain char: its sign is the build's

ASSUME UserFilesAssumption == UserFiles \subseteq {"none", "jid", "host"}
ASSUME MaxTokenAssumption == MaxToken \in Nat \ {0}
ASSUME CharAssumption == CharIsSigned \in BOOLEAN

VARIABLES
    alive,        \* the process runs
    token,        \* settings: "access_token" is not empty   (persistent)
    userFile,     \* content of UserID.txt                  (persistent)
    google,       \* m_GoogleConnect is set, disconnected() is connected
    connType,     \* m_ConnectionType
    paused,       \* m_PauseService
    restarting,   \* m_Restarting
    connected,    \* m_Connected
    lastErrorNeg, \* m_LastError < 0
    askTimers,    \* pending singleShot(3 s, askNewToken)
    renewals,     \* token requests whose reply is outstanding
    ui,           \* a UI client is connected to m_Socket
    told,         \* last connection status it was sent since its last DISCONNECT
    sock,         \* the XMPP socket and the stream on it
    lookup,       \* a DNS lookup is running
    hostKnown,    \* the configuration names a host
    redirect,     \* redirectHost is set
    pinging,      \* pingTimer is active
    conflict,     \* receivedConflict
    reconnTimer,  \* reconnectionTimer is active
    presence,     \* clientPresence is "available" or "unavailable"
    announced,    \* presence the server was last told on this session
    stalled,      \* history: a silent reply was the last retry there was
    strayed       \* history: m_Connected outlived a session by a redirect

settings == <<token, userFile>>
uiVars == <<ui, told>>
streamVars == <<sock, lookup, hostKnown, redirect, pinging>>
clientVars == <<conflict, reconnTimer, presence, announced>>
tokenVars == <<restarting, askTimers, renewals>>
flagVars == <<alive, google, connType, paused, connected, lastErrorNeg>>
codeVars == <<settings, uiVars, streamVars, clientVars, tokenVars, flagVars>>
history == <<stalled, strayed>>
vars == <<codeVars, history>>

\* "aborting": connecting, to be closed when connected (Qt's pendingClose).
\* "negotiating": TCP is up; "session": QXmppOutgoingClient::isConnected().
SockStates == {"unconnected", "connecting", "aborting", "negotiating",
               "session", "closing"}
Presences == {"available", "unavailable"}

\* The bounds MaxToken puts on the timers and requests for a token.
CountersOK ==
    /\ askTimers \in Nat
    /\ renewals \in Nat
    /\ askTimers + renewals <= MaxToken

ServiceOK ==
    /\ alive \in BOOLEAN
    /\ token \in BOOLEAN
    /\ userFile \in UserFiles
    /\ google \in BOOLEAN
    /\ connType \in {"GOOGLE", "OTHER"}
    /\ paused \in BOOLEAN
    /\ restarting \in BOOLEAN
    /\ connected \in BOOLEAN
    /\ lastErrorNeg \in BOOLEAN
    /\ ui \in BOOLEAN
    /\ told \in {"none", "loggedIn", "failed"}

StreamOK ==
    /\ sock \in SockStates
    /\ lookup \in BOOLEAN
    /\ hostKnown \in BOOLEAN
    /\ redirect \in BOOLEAN
    /\ pinging \in BOOLEAN

ClientOK ==
    /\ conflict \in BOOLEAN
    /\ reconnTimer \in BOOLEAN
    /\ presence \in Presences
    /\ announced \in Presences \cup {"none"}

TypeOK ==
    /\ CountersOK /\ ServiceOK /\ StreamOK /\ ClientOK
    /\ stalled \in BOOLEAN /\ strayed \in BOOLEAN

-----------------------------------------------------------------------------
(* QXmppOutgoingClient and QXmppStream: opening and closing the socket.    *)

\* d->connectToHost: Qt ignores the call unless the socket is unconnected.
OpenSocket ==
    sock' = IF sock = "unconnected" THEN "connecting" ELSE sock

\* connectToHost() under the configuration `host` (does it name a host?).
ConnectToHost(host) ==
    IF host THEN OpenSocket /\ UNCHANGED lookup
            ELSE lookup' = TRUE /\ UNCHANGED sock

\* connectToServer(config): new configuration, presence back to available.
ConnectToServer(host) ==
    /\ hostKnown' = host
    /\ presence' = "available"
    /\ ConnectToHost(host)

\* disconnectFromHost when Qt finishes the close later, or has nothing to close.
CloseLater ==
    /\ sock' = CASE sock \in {"negotiating", "session"} -> "closing"
                 [] sock = "connecting" -> "aborting"
                 [] OTHER -> sock
    /\ announced' = IF sock = "session" THEN "none" ELSE announced
    /\ UNCHANGED pinging

\* Mutant: pingStop is not connected to disconnected().
SocketClosedPinging ==
    /\ redirect' = FALSE
    /\ announced' = "none"
    /\ sock' = IF redirect THEN "connecting" ELSE "unconnected"
    /\ UNCHANGED pinging

\* The socket part of _q_socketDisconnected: reopen for a redirect, or rest.
SocketClosed ==
    /\ redirect' = FALSE
    /\ announced' = "none"
    /\ sock' = IF redirect THEN "connecting" ELSE "unconnected"
    /\ pinging' = (pinging /\ redirect)

\* disconnectFromHost when Qt closes within the call.
CloseNow == sock \in {"negotiating", "session"} /\ SocketClosed

-----------------------------------------------------------------------------
(* XMPP: reports to the UI client and the token restart.                   *)

\* What logConnection / logFailedConnecting write; `neg` is m_LastError < 0.
Report(code, neg) ==
    /\ told' = IF ui THEN code ELSE told
    /\ lastErrorNeg' = (neg /\ ~ui)

\* logConnectionError: only the first error after a LOGIN is reported.
LogConnectionError ==
    /\ told' = IF ui /\ lastErrorNeg THEN "failed" ELSE told
    /\ lastErrorNeg' = FALSE

\* Mutant: the latch is set before the token is looked at.
OAuth2RestartLatchedFirst(pause) ==
    \/ /\ pause \/ restarting
       /\ UNCHANGED <<restarting, askTimers>>
    \/ /\ ~pause /\ ~restarting
       /\ askTimers + renewals' < MaxToken
       /\ restarting' = TRUE
       /\ askTimers' = IF token THEN askTimers + 1 ELSE askTimers

\* oauth2Restart, under the value of m_PauseService at the call.
OAuth2Restart(pause) ==
    \/ /\ pause \/ restarting \/ ~token
       /\ UNCHANGED <<restarting, askTimers>>
    \/ /\ ~pause /\ ~restarting /\ token
       /\ askTimers + renewals' < MaxToken
       /\ restarting' = TRUE
       /\ askTimers' = askTimers + 1

\* simpleConnectRestart.
SimpleConnectRestart(pause) ==
    \/ /\ pause \/ userFile = "none"
       /\ UNCHANGED <<connType, presence, hostKnown, sock, lookup>>
    \/ /\ ~pause /\ userFile # "none"
       /\ connType' = "OTHER"
       /\ ConnectToServer(userFile = "host")

\* Mutant: m_Connected is not cleared.
OauthDisconnectedStale(pause, neg) ==
    /\ presence' = "unavailable"
    /\ UNCHANGED connected
    /\ Report("failed", neg)
    /\ OAuth2Restart(pause)

\* Mutant: the client is not told.
OauthDisconnectedSilent(pause, neg) ==
    /\ presence' = "unavailable"
    /\ connected' = FALSE
    /\ lastErrorNeg' = neg
    /\ UNCHANGED told
    /\ OAuth2Restart(pause)

\* oauthDisconnected without its socket and its timer: disconnectFromServer
\* goes unavailable, then the client is told and the token restart asked for.
OauthDisconnected(pause, neg) ==
    /\ presence' = "unavailable"
    /\ connected' = FALSE
    /\ Report("failed", neg)
    /\ OAuth2Restart(pause)

\* oauthDisconnected is the only slot on disconnected(), if google at all.
Heard == google /\ ~redirect

\* The slots of disconnected(), and of error(...) if `error` comes with it.
Disconnected(error) ==
    \/ /\ Heard
       /\ OauthDisconnected(paused, lastErrorNeg /\ ~error)
    \/ /\ ~Heard
       /\ IF error THEN LogConnectionError ELSE UNCHANGED <<told, lastErrorNeg>>
       /\ UNCHANGED <<presence, connected, restarting, askTimers>>

\* disconnectFromHost called by the stream itself.
CloseStream(error) ==
    /\ UNCHANGED renewals
    /\ \/ /\ CloseLater
          /\ IF error THEN LogConnectionError
                      ELSE UNCHANGED <<told, lastErrorNeg>>
          /\ UNCHANGED <<redirect, presence, connected, restarting, askTimers>>
       \/ /\ CloseNow
          /\ Disconnected(error)

-----------------------------------------------------------------------------
(* Start, crash and restart of the process.                                *)

\* The constructor, for the settings it finds.
Start(tok, file) ==
    /\ alive' = TRUE
    /\ token' = tok /\ userFile' = file
    /\ google' = tok
    /\ connType' = "OTHER" /\ paused' = FALSE
    /\ connected' = FALSE /\ lastErrorNeg' = FALSE
    /\ restarting' = tok
    /\ askTimers' = IF tok THEN 1 ELSE 0
    /\ renewals' = 0
    /\ ui' = FALSE /\ told' = "none"
    /\ sock' = IF ~tok /\ file = "host" THEN "connecting" ELSE "unconnected"
    /\ lookup' = (~tok /\ file = "jid")
    /\ hostKnown' = (~tok /\ file = "host")
    /\ redirect' = FALSE /\ pinging' = FALSE
    /\ conflict' = FALSE /\ reconnTimer' = FALSE
    /\ presence' = "available" /\ announced' = "none"

\* Before the process is started for the first time.
Init ==
    /\ alive = FALSE
    /\ token \in BOOLEAN /\ userFile \in UserFiles
    /\ google = FALSE
    /\ connType = "OTHER" /\ paused = FALSE
    /\ connected = FALSE /\ lastErrorNeg = FALSE
    /\ restarting = FALSE /\ askTimers = 0 /\ renewals = 0
    /\ ui = FALSE /\ told = "none"
    /\ sock = "unconnected" /\ lookup = FALSE /\ hostKnown = FALSE
    /\ redirect = FALSE /\ pinging = FALSE
    /\ conflict = FALSE /\ reconnTimer = FALSE
    /\ presence = "available" /\ announced = "none"
    /\ stalled = FALSE /\ strayed = FALSE

\* The platform starts the headless process.
Boot ==
    /\ ~alive
    /\ Start(token, userFile)

\* Only the settings survive the end of the process.
Die ==
    /\ alive' = FALSE
    /\ google' = FALSE
    /\ connType' = "OTHER" /\ paused' = FALSE
    /\ connected' = FALSE /\ lastErrorNeg' = FALSE
    /\ restarting' = FALSE /\ askTimers' = 0 /\ renewals' = 0
    /\ ui' = FALSE /\ told' = "none"
    /\ sock' = "unconnected" /\ lookup' = FALSE /\ hostKnown' = FALSE
    /\ redirect' = FALSE /\ pinging' = FALSE
    /\ conflict' = FALSE /\ reconnTimer' = FALSE
    /\ presence' = "available" /\ announced' = "none"
    /\ UNCHANGED settings

\* bb.action.STOP, or the platform kills the process.
Stop == alive /\ Die

-----------------------------------------------------------------------------
(* Timers and HTTP replies.                                                *)

\* Mutant: the timer is not single-shot.
AskNewTokenRepeating ==
    /\ alive /\ askTimers > 0 /\ google
    /\ restarting' = FALSE
    /\ renewals' = renewals + 1
    /\ UNCHANGED <<askTimers, settings, uiVars, streamVars, clientVars, flagVars>>

\* askNewToken: clears the latch and asks; m_GoogleConnect may be NULL.
AskNewToken ==
    /\ alive /\ askTimers > 0
    /\ \/ /\ google
          /\ restarting' = FALSE
          /\ askTimers' = askTimers - 1
          /\ renewals' = renewals + 1
          /\ UNCHANGED <<settings, uiVars, streamVars, clientVars, flagVars>>
       \/ /\ ~google
          /\ Die

\* checkRefresh -> parseRefresh -> tokenObtained -> readyRestart.  `found`:
\* the answer holds a token; tokenObtained is emitted in either case.
TokenReply(found) ==
    /\ alive /\ renewals > 0
    /\ renewals' = renewals - 1
    /\ restarting' = FALSE
    /\ token' = (token \/ found)
    /\ connType' = "GOOGLE"
    /\ ConnectToServer(TRUE)
    /\ UNCHANGED <<askTimers, userFile, uiVars, redirect, pinging, conflict,
                   reconnTimer, announced, alive, google, paused, connected,
                   lastErrorNeg>>

\* checkRefresh: an error reply emits failedRenew -> oauth2Restart.
FailedRenew ==
    /\ alive /\ renewals > 0
    /\ renewals' = renewals - 1
    /\ OAuth2Restart(paused)
    /\ UNCHANGED <<settings, uiVars, streamVars, clientVars, flagVars>>

\* checkRefresh: "Host  not found" emits failedConnection, to which nothing is
\* connected, and an empty answer emits nothing.
SilentReply ==
    /\ alive /\ renewals > 0
    /\ renewals' = renewals - 1
    /\ UNCHANGED <<restarting, askTimers, settings, uiVars, streamVars,
                   clientVars, flagVars>>

\* Mutant: the timer's slot opens nothing.
ReconnectForgets ==
    /\ alive /\ reconnTimer
    /\ reconnTimer' = FALSE
    /\ UNCHANGED <<settings, uiVars, streamVars, conflict, presence, announced,
                   tokenVars, flagVars>>

\* _q_reconnect.
Reconnect ==
    /\ alive /\ reconnTimer
    /\ reconnTimer' = FALSE
    /\ ConnectToHost(hostKnown)
    /\ UNCHANGED <<settings, uiVars, hostKnown, redirect, pinging, conflict,
                   presence, announced, tokenVars, flagVars>>

\* pingTimeout: disconnectFromHost, then error(KeepAliveError), which starts
\* the reconnection timer after whatever the disconnection did to it.
PingTimeout ==
    /\ alive /\ pinging
    /\ CloseStream(TRUE)
    /\ reconnTimer' = TRUE
    /\ UNCHANGED <<settings, ui, lookup, hostKnown, conflict, alive, google,
                   connType, paused>>

-----------------------------------------------------------------------------
(* The socket and the server.                                              *)

\* What an action on the stream that reports nothing leaves alone.
quiet == <<settings, uiVars, tokenVars, flagVars>>

LookupDone ==
    /\ alive /\ lookup
    /\ lookup' = FALSE
    /\ OpenSocket
    /\ UNCHANGED <<hostKnown, redirect, pinging, clientVars, quiet>>

SocketConnected ==
    /\ alive /\ sock \in {"connecting", "aborting"}
    /\ sock' = IF sock = "connecting" THEN "negotiating" ELSE "closing"
    /\ UNCHANGED <<lookup, hostKnown, redirect, pinging, clientVars, quiet>>

\* Mutant: a failed connection does not start the reconnection timer.
ConnectFailsForGood ==
    /\ alive /\ sock \in {"connecting", "aborting"}
    /\ sock' = "unconnected"
    /\ LogConnectionError
    /\ UNCHANGED <<settings, ui, lookup, hostKnown, redirect, pinging, conflict,
                   reconnTimer, presence, announced, tokenVars, alive, google,
                   connType, paused, connected>>

\* error(SocketError) with no disconnected(): nobody but the timer retries.
ConnectFails ==
    /\ alive /\ sock \in {"connecting", "aborting"}
    /\ sock' = "unconnected"
    /\ reconnTimer' = (reconnTimer \/ ~conflict)
    /\ LogConnectionError
    /\ UNCHANGED <<settings, ui, lookup, hostKnown, redirect, pinging, conflict,
                   presence, announced, tokenVars, alive, google, connType,
                   paused, connected>>

\* connected(): logConnection, pingStart, and the initial presence.
SessionStarted ==
    /\ alive /\ sock = "negotiating"
    /\ sock' = "session"
    /\ pinging' = TRUE
    /\ conflict' = FALSE
    /\ announced' = presence
    /\ connected' = TRUE
    /\ Report("loggedIn", lastErrorNeg)
    /\ UNCHANGED <<settings, ui, lookup, hostKnown, redirect, reconnTimer,
                   presence, tokenVars, alive, google, connType, paused>>

\* The server or the network closes: error(SocketError), then disconnected().
RemoteClose ==
    /\ alive /\ sock \in {"negotiating", "session"}
    /\ UNCHANGED renewals
    /\ SocketClosed
    /\ Disconnected(TRUE)
    /\ reconnTimer' = (~Heard /\ (reconnTimer \/ ~conflict))
    /\ UNCHANGED <<settings, ui, lookup, hostKnown, conflict, alive, google,
                   connType, paused>>

\* A close begun earlier comes to its end.
CloseCompletes ==
    /\ alive /\ sock = "closing"
    /\ UNCHANGED renewals
    /\ SocketClosed
    /\ Disconnected(FALSE)
    /\ reconnTimer' = (reconnTimer /\ ~Heard)
    /\ UNCHANGED <<settings, ui, lookup, hostKnown, conflict, alive, google,
                   connType, paused>>

\* The stream gives up: on a SASL failure with error(XmppStreamError), on
\* impossible security or mechanisms with no error at all.
NegotiationFails(error) ==
    /\ alive /\ sock = "negotiating"
    /\ CloseStream(error)
    /\ reconnTimer' = (reconnTimer /\ (sock' = "closing" \/ ~Heard))
    /\ UNCHANGED <<settings, ui, lookup, hostKnown, conflict, alive, google,
                   connType, paused>>

\* A stream error; a conflict inhibits the reconnection timer.
StreamError(isConflict) ==
    /\ alive /\ sock \in {"negotiating", "session"}
    /\ conflict' = (conflict \/ isConflict)
    /\ LogConnectionError
    /\ UNCHANGED <<settings, ui, streamVars, reconnTimer, presence, announced,
                   tokenVars, alive, google, connType, paused, connected>>

\* see-other-host: close, and reopen elsewhere with no disconnected().
SeeOtherHost ==
    /\ alive
    /\ sock \in {"negotiating", "session"}
    /\ \/ CloseLater /\ redirect' = TRUE
       \/ /\ sock' = "connecting"
          /\ announced' = "none"
          /\ redirect' = FALSE
          /\ UNCHANGED pinging
    /\ UNCHANGED <<lookup, hostKnown, conflict, reconnTimer, presence, quiet>>

-----------------------------------------------------------------------------
(* Requests of the UI client (readyRead) and of the network monitor.       *)

UiConnects ==
    /\ alive /\ ~ui
    /\ ui' = TRUE /\ told' = "none"
    /\ UNCHANGED <<settings, streamVars, clientVars, tokenVars, flagVars>>

UiLeaves ==
    /\ alive /\ ui
    /\ ui' = FALSE /\ told' = "none"
    /\ UNCHANGED <<settings, streamVars, clientVars, tokenVars, flagVars>>

\* Any login while m_Connected only repeats REPLY_LOGGED_IN.
LoginAgain ==
    /\ connected
    /\ Report("loggedIn", lastErrorNeg)
    /\ UNCHANGED <<connType, streamVars, clientVars>>

\* LOGIN and ADVANCED_LOGIN (which names a host).
UiLogin(host) ==
    /\ alive /\ ui
    /\ \/ LoginAgain /\ UNCHANGED token
       \/ /\ ~connected
          /\ lastErrorNeg' = CharIsSigned
          /\ connType' = "OTHER"
          /\ token' = FALSE
          /\ ConnectToServer(host)
          /\ UNCHANGED <<told, redirect, pinging, conflict, reconnTimer,
                         announced>>
    /\ UNCHANGED <<userFile, ui, tokenVars, alive, google, paused, connected>>

\* OAUTH2_LOGIN.  The client puts the token (if it has one) into the shared
\* settings before it sends the request.
UiOAuth2Login(stored) ==
    /\ alive /\ ui
    /\ token' = (token \/ stored)
    /\ \/ LoginAgain
       \/ /\ ~connected /\ token'
          /\ connType' = "GOOGLE"
          /\ ConnectToServer(TRUE)
          /\ UNCHANGED <<told, lastErrorNeg, redirect, pinging, conflict,
                         reconnTimer, announced>>
       \/ /\ ~connected /\ ~token'
          /\ UNCHANGED <<told, lastErrorNeg, connType, streamVars, clientVars>>
    /\ UNCHANGED <<userFile, ui, tokenVars, alive, google, paused, connected>>

\* REQUEST_CONNECTION_STATUS.
UiStatus ==
    /\ alive /\ ui
    /\ Report(IF connected THEN "loggedIn" ELSE "failed", lastErrorNeg)
    /\ UNCHANGED <<settings, ui, streamVars, clientVars, tokenVars, alive,
                   google, connType, paused, connected>>

\* DISCONNECT: the token is erased after disconnectFromServer, so a close
\* that completes within the call still finds it.
UiDisconnect ==
    /\ alive /\ ui /\ connected
    /\ UNCHANGED renewals
    /\ \/ /\ CloseLater
          /\ told' = "none"
          /\ UNCHANGED <<redirect, lastErrorNeg, restarting, askTimers>>
       \/ /\ CloseNow
          /\ \/ Heard /\ Report("failed", lastErrorNeg) /\ OAuth2Restart(paused)
             \/ /\ ~Heard
                /\ told' = "none"
                /\ UNCHANGED <<lastErrorNeg, restarting, askTimers>>
    /\ presence' = "unavailable"
    /\ reconnTimer' = FALSE
    /\ connected' = FALSE
    /\ token' = FALSE
    /\ UNCHANGED <<userFile, ui, lookup, hostKnown, conflict, alive, google,
                   connType, paused>>

\* SET_PRESENCE, SET_STATUS_TEXT -> setClientPresence, never unavailable.
UiSetPresence ==
    /\ alive /\ ui
    /\ \/ /\ sock = "session"
          /\ presence' = "available" /\ announced' = "available"
          /\ UNCHANGED <<sock, lookup, hostKnown>>
       \/ /\ sock # "session"
          /\ ConnectToServer(hostKnown)
          /\ UNCHANGED announced
    /\ UNCHANGED <<settings, uiVars, redirect, pinging, conflict, reconnTimer,
                   tokenVars, flagVars>>

\* sendXMPPMessageTo with no socket to write to: cache, and reconnect.
SendFails ==
    /\ alive /\ sock \notin {"negotiating", "session"}
    /\ UNCHANGED renewals
    /\ \/ /\ connType = "GOOGLE"
          /\ OAuth2Restart(paused)
          /\ UNCHANGED <<connType, presence, hostKnown, sock, lookup>>
       \/ /\ connType = "OTHER"
          /\ SimpleConnectRestart(paused)
          /\ UNCHANGED <<restarting, askTimers>>
    /\ UNCHANGED <<settings, uiVars, redirect, pinging, conflict, reconnTimer,
                   announced, alive, google, paused, connected, lastErrorNeg>>

\* connectedChanged(false) -> waitForInternet.
WaitForInternet ==
    /\ alive
    /\ paused' = TRUE
    /\ UNCHANGED renewals
    /\ (CloseLater /\ UNCHANGED redirect) \/ CloseNow
    /\ OauthDisconnected(TRUE, lastErrorNeg)
    /\ reconnTimer' = FALSE
    /\ UNCHANGED <<settings, ui, lookup, hostKnown, conflict, alive, google,
                   connType>>

\* connectedChanged(true) -> internetIsBack.
InternetIsBack ==
    /\ alive
    /\ paused' = FALSE
    /\ UNCHANGED renewals
    /\ \/ /\ connType = "GOOGLE"
          /\ OAuth2Restart(FALSE)
          /\ UNCHANGED <<connType, presence, hostKnown, sock, lookup>>
       \/ /\ connType = "OTHER"
          /\ SimpleConnectRestart(FALSE)
          /\ UNCHANGED <<restarting, askTimers>>
    /\ UNCHANGED <<settings, uiVars, redirect, pinging, conflict, reconnTimer,
                   announced, alive, google, connected, lastErrorNeg>>

-----------------------------------------------------------------------------
\* What will bring a connection back without anybody asking for it.
Retrying == askTimers > 0 \/ renewals > 0 \/ reconnTimer \/ lookup
Idle == sock = "unconnected" /\ ~Retrying

\* History: `silent` is a dropped reply, `stray` a redirect of a session.
Recorded(silent, stray) ==
    /\ stalled' = (Idle' /\ (stalled \/ silent))
    /\ strayed' = (connected' /\ sock' # "session" /\ (strayed \/ stray))

Plain(A) == A /\ Recorded(FALSE, FALSE)

\* Every QNetworkReply finishes, in one of these ways.
Reply ==
    \/ Plain((\E found \in BOOLEAN : TokenReply(found)) \/ FailedRenew)
    \/ SilentReply /\ Recorded(TRUE, FALSE)

Ask == Plain(AskNewToken)
Again == Plain(Reconnect)
Resolve == Plain(LookupDone)

Stream ==
    \/ SocketConnected \/ ConnectFails \/ SessionStarted
    \/ RemoteClose \/ CloseCompletes \/ PingTimeout
    \/ \E b \in BOOLEAN : NegotiationFails(b) \/ StreamError(b)

Requests ==
    \/ UiConnects \/ UiLeaves \/ UiStatus \/ UiDisconnect \/ UiSetPresence
    \/ SendFails
    \/ \E b \in BOOLEAN : UiLogin(b) \/ UiOAuth2Login(b)

Internal ==
    \/ Ask \/ Again \/ Resolve \/ Reply
    \/ Plain(Boot \/ Stop \/ Stream \/ Requests)
    \/ SeeOtherHost /\ Recorded(FALSE, TRUE)

LosePause == Plain(WaitForInternet)
GainResume == Plain(InternetIsBack)

Next == Internal \/ LosePause \/ GainResume

Spec == Init /\ [][Next]_vars

\* Qt fires every timer that is not stopped, and finishes every DNS lookup and
\* every QNetworkReply, one way or the other.
FairSpec ==
    /\ Spec
    /\ WF_vars(Ask) /\ WF_vars(Again) /\ WF_vars(Resolve) /\ WF_vars(Reply)

-----------------------------------------------------------------------------
(* Properties.                                                             *)

\* The latch of oauth2Restart never sticks: m_Restarting is only ever set
\* while the timer that clears it is pending.  Otherwise no disconnection,
\* failed send or returning network could ever ask for a token again.
LatchHasTimer == restarting => askTimers > 0

\* With the disconnected() signal wired, m_Connected never outlives the
\* session: every way the stream goes down clears it, a see-other-host in an
\* established session excepted, which raises no signal.
ConnectedIsTrue ==
    google /\ connected => sock \in {"session", "closing"} \/ strayed

\* Nor is the UI client left believing it is logged in once m_Connected is
\* cleared for any reason but its own DISCONNECT.
UiBelief ==
    google /\ ui /\ told = "loggedIn" => connected

\* A Google connection that is down always has something pending to retry it,
\* unless a conflict inhibits the timer or a reply was dropped silently:
\* oauthDisconnected, failedRenew and _q_streamError between them never leave
\* the service with nothing to do.
Down == google /\ connType = "GOOGLE" /\ token /\ ~paused /\ sock = "unconnected"
RetryArmed == Down /\ ~conflict => Retrying \/ stalled \/ strayed

\* And the retries go on: whenever such a connection is down, the service
\* comes to ask for a token or to open the socket.
Trying == sock # "unconnected" \/ renewals > 0
KeepsTrying == Down /\ ~conflict ~> (Trying \/ ~Down \/ stalled \/ strayed)

\* What this module assumes of the stream, in all the slots that open, close
\* or lose it, is no more than what the stream promises: a redirect is only
\* pending while a close is, and the keep-alive runs from the beginning of a
\* session to the end of a connection that is not redirected.
Promised == INSTANCE StreamContract
StreamAsPromised == Promised!ContractSpec

=============================================================================
