------------------------- MODULE Supervision_proofs -------------------------
(***************************************************************************)
(* Proofs about the service, and about the service together with its       *)
(* network monitor: for every bound MaxToken, every content of UserID.txt, *)
(* either signedness of char and every bound on timers and requests.       *)
(***************************************************************************)
EXTENDS Supervision, TLAPS

-----------------------------------------------------------------------------
(* The service alone: XMPPConnection.                                      *)


\* A pending redirect is always waiting for a close, and if m_Connected is
\* set by then, the redirect hit an established session.
RedirectWaits == redirect => sock = "closing" /\ (connected => strayed)

\* What the history remembers of a stray session is that m_Connected is set.
StrayIsConnected == strayed => connected

\* The inductive invariant.
IInv ==
    /\ TypeOK
    /\ LatchHasTimer
    /\ RedirectWaits
    /\ StrayIsConnected
    /\ ConnectedIsTrue
    /\ UiBelief
    /\ RetryArmed

(***************************************************************************)
(* The actions of Next, grouped by the part of the service they belong to. *)
(***************************************************************************)
Life == Boot \/ Stop

Token ==
    \/ AskNewToken \/ FailedRenew
    \/ \E found \in BOOLEAN : TokenReply(found)

\* Steps of the stream that raise no signal of QXmppClient ...
Calm == Reconnect \/ LookupDone \/ SocketConnected

\* ... those that raise connected() or error(...) only ...
Told ==
    \/ ConnectFails \/ SessionStarted
    \/ \E c \in BOOLEAN : StreamError(c)

\* ... and those that may raise disconnected().
Lost ==
    \/ RemoteClose \/ CloseCompletes \/ PingTimeout
    \/ \E e \in BOOLEAN : NegotiationFails(e)

Login ==
    \/ UiConnects \/ UiLeaves \/ UiStatus \/ UiSetPresence
    \/ \E b \in BOOLEAN : UiLogin(b) \/ UiOAuth2Login(b)

Asked == UiDisconnect \/ SendFails \/ WaitForInternet \/ InternetIsBack

Ordinary == Life \/ Token \/ Calm \/ Told \/ Lost \/ Login \/ Asked

\* The last two are the ones the history variables take note of.
Code == Ordinary \/ SilentReply \/ SeeOtherHost

USE DEF settings, uiVars, streamVars, clientVars, tokenVars, flagVars,
        codeVars, history, vars, quiet

\* Every step is one of these actions together with a record of the history.
LEMMA StepCases ==
  ASSUME Next
  PROVE  \/ Ordinary /\ Recorded(FALSE, FALSE)
         \/ SilentReply /\ Recorded(TRUE, FALSE)
         \/ SeeOtherHost /\ Recorded(FALSE, TRUE)
  BY DEF Next, Internal, LosePause, GainResume, Plain, Ask, Again, Resolve, Reply,
         Stream, Requests, Ordinary, Life, Token, Calm, Told, Lost, Login, Asked

-----------------------------------------------------------------------------
\* What disconnected() and a close do to the service's own variables.
SlotsOK ==
    /\ told' \in {"none", "loggedIn", "failed"}
    /\ lastErrorNeg' \in BOOLEAN
    /\ connected' \in BOOLEAN
    /\ restarting' \in BOOLEAN

LEMMA DisconnectedService ==
  ASSUME ServiceOK, NEW e \in BOOLEAN, Disconnected(e)
  PROVE  SlotsOK
<1> USE DEF ServiceOK, SlotsOK
<1>1. CASE OauthDisconnected(paused, lastErrorNeg /\ ~e)
  BY <1>1 DEF OauthDisconnected, Report, OAuth2Restart
<1>2. CASE /\ LogConnectionError \/ UNCHANGED <<told, lastErrorNeg>>
           /\ UNCHANGED <<connected, restarting>>
  BY <1>2 DEF LogConnectionError
<1>3. QED
  BY <1>1, <1>2 DEF Disconnected

LEMMA CloseService ==
  ASSUME ServiceOK, NEW e \in BOOLEAN, CloseStream(e)
  PROVE  SlotsOK
<1>1. CASE Disconnected(e)
  BY <1>1, DisconnectedService
<1>2. CASE /\ LogConnectionError \/ UNCHANGED <<told, lastErrorNeg>>
           /\ UNCHANGED <<connected, restarting>>
  BY <1>2 DEF LogConnectionError, ServiceOK, SlotsOK
<1>3. QED
  BY <1>1, <1>2 DEF CloseStream

LEMMA ServiceKept == ASSUME ServiceOK, Code PROVE ServiceOK'
<1> USE CharAssumption DEF ServiceOK, SlotsOK
<1>1. CASE Life
  BY <1>1 DEF Life, Boot, Start, Stop, Die
<1>2. CASE Token
  <2>1. CASE AskNewToken
    BY <2>1 DEF AskNewToken, Die
  <2>2. CASE FailedRenew
    BY <2>2 DEF FailedRenew, OAuth2Restart
  <2>3. ASSUME NEW found \in BOOLEAN, TokenReply(found) PROVE ServiceOK'
    BY <2>3 DEF TokenReply
  <2>4. QED
    BY <1>2, <2>1, <2>2, <2>3 DEF Token
<1>3. CASE Calm
  BY <1>3 DEF Calm, Reconnect, LookupDone, SocketConnected
<1>4. CASE Told
  <2>1. CASE ConnectFails
    BY <2>1 DEF ConnectFails, LogConnectionError
  <2>2. CASE SessionStarted
    BY <2>2 DEF SessionStarted, Report
  <2>3. ASSUME NEW c \in BOOLEAN, StreamError(c) PROVE ServiceOK'
    BY <2>3 DEF StreamError, LogConnectionError
  <2>4. QED
    BY <1>4, <2>1, <2>2, <2>3 DEF Told
<1>5. CASE Lost
  <2>1. CASE RemoteClose
    BY <2>1, DisconnectedService DEF RemoteClose
  <2>2. CASE CloseCompletes
    BY <2>2, DisconnectedService DEF CloseCompletes
  <2>3. CASE PingTimeout
    BY <2>3, CloseService DEF PingTimeout
  <2>4. ASSUME NEW e \in BOOLEAN, NegotiationFails(e) PROVE ServiceOK'
    BY <2>4, CloseService DEF NegotiationFails
  <2>5. QED
    BY <1>5, <2>1, <2>2, <2>3, <2>4 DEF Lost
<1>6. CASE Login
  <2>1. CASE UiConnects \/ UiLeaves \/ UiStatus \/ UiSetPresence
    <3>1. CASE UiConnects \/ UiLeaves
      BY <3>1 DEF UiConnects, UiLeaves
    <3>2. CASE UiStatus
      BY <3>2 DEF UiStatus, Report
    <3>3. CASE UiSetPresence
      BY <3>3 DEF UiSetPresence
    <3>4. QED
      BY <2>1, <3>1, <3>2, <3>3
  <2>2. ASSUME NEW b \in BOOLEAN, UiLogin(b) PROVE ServiceOK'
    BY <2>2 DEF UiLogin, LoginAgain, Report
  <2>3. ASSUME NEW b \in BOOLEAN, UiOAuth2Login(b) PROVE ServiceOK'
    BY <2>3 DEF UiOAuth2Login, LoginAgain, Report
  <2>4. QED
    BY <1>6, <2>1, <2>2, <2>3 DEF Login
<1>7. CASE Asked
  <2> USE DEF OAuth2Restart
  <2>1. CASE UiDisconnect
    BY <2>1 DEF UiDisconnect, Report
  <2>2. CASE SendFails
    BY <2>2 DEF SendFails, SimpleConnectRestart
  <2>3. CASE WaitForInternet
    BY <2>3 DEF WaitForInternet, OauthDisconnected, Report
  <2>4. CASE InternetIsBack
    BY <2>4 DEF InternetIsBack, SimpleConnectRestart
  <2>5. QED
    BY <1>7, <2>1, <2>2, <2>3, <2>4 DEF Asked
<1>8. CASE SilentReply \/ SeeOtherHost
  BY <1>8 DEF SilentReply, SeeOtherHost
<1>9. QED
  BY <1>1, <1>2, <1>3, <1>4, <1>5, <1>6, <1>7, <1>8 DEF Code, Ordinary

LEMMA StreamKept == ASSUME ServiceOK, StreamOK, Code PROVE StreamOK'
<1> USE DEF StreamOK, SockStates, OpenSocket, ConnectToHost, ConnectToServer
<1>1. CASE Life
  BY <1>1 DEF Life, Boot, Start, Stop, Die, ServiceOK
<1>2. CASE Token
  BY <1>2 DEF Token, AskNewToken, Die, FailedRenew, TokenReply
<1>3. CASE Calm
  BY <1>3 DEF Calm, Reconnect, LookupDone, SocketConnected
<1>4. CASE Told
  BY <1>4 DEF Told, ConnectFails, SessionStarted, StreamError
<1>5. CASE Lost
  BY <1>5 DEF Lost, RemoteClose, CloseCompletes, PingTimeout, NegotiationFails, CloseStream, CloseLater, CloseNow, SocketClosed
<1>6. CASE Login
  <2>1. CASE UiConnects \/ UiLeaves \/ UiStatus \/ UiSetPresence
    BY <2>1 DEF UiConnects, UiLeaves, UiStatus, UiSetPresence
  <2>2. ASSUME NEW b \in BOOLEAN, UiLogin(b) \/ UiOAuth2Login(b) PROVE StreamOK'
    BY <2>2 DEF UiLogin, UiOAuth2Login, LoginAgain
  <2>3. QED
    BY <1>6, <2>1, <2>2 DEF Login
<1>7. CASE Asked
  BY <1>7 DEF Asked, UiDisconnect, SendFails, WaitForInternet, InternetIsBack, SimpleConnectRestart, CloseLater, CloseNow, SocketClosed, ServiceOK
<1>8. CASE SilentReply \/ SeeOtherHost
  BY <1>8 DEF SilentReply, SeeOtherHost, CloseLater
<1>9. QED
  BY <1>1, <1>2, <1>3, <1>4, <1>5, <1>6, <1>7, <1>8 DEF Code, Ordinary

LEMMA ClientKept == ASSUME ServiceOK, StreamOK, ClientOK, Code PROVE ClientOK'
<1> USE DEF ClientOK, Presences, ConnectToServer
<1>1. CASE Life
  BY <1>1 DEF Life, Boot, Start, Stop, Die
<1>2. CASE Token
  BY <1>2 DEF Token, AskNewToken, Die, FailedRenew, TokenReply
<1>3. CASE Calm
  BY <1>3 DEF Calm, Reconnect, LookupDone, SocketConnected
<1>4. CASE Told
  BY <1>4 DEF Told, ConnectFails, SessionStarted, StreamError
<1>5. CASE Lost
  <2> USE DEF CloseStream, CloseLater, CloseNow, SocketClosed, Disconnected, OauthDisconnected, Heard
  <2>1. CASE RemoteClose
    BY <2>1 DEF RemoteClose
  <2>2. CASE CloseCompletes
    BY <2>2 DEF CloseCompletes
  <2>3. CASE PingTimeout
    BY <2>3 DEF PingTimeout
  <2>4. ASSUME NEW e \in BOOLEAN, NegotiationFails(e) PROVE ClientOK'
    BY <2>4 DEF NegotiationFails
  <2>5. QED
    BY <1>5, <2>1, <2>2, <2>3, <2>4 DEF Lost
<1>6. CASE Login
  BY <1>6 DEF Login, UiConnects, UiLeaves, UiStatus, UiSetPresence, UiLogin, UiOAuth2Login, LoginAgain
<1>7. CASE Asked
  BY <1>7 DEF Asked, UiDisconnect, SendFails, WaitForInternet, InternetIsBack, OauthDisconnected, SimpleConnectRestart, CloseLater, CloseNow, SocketClosed
<1>8. CASE SilentReply \/ SeeOtherHost
  BY <1>8 DEF SilentReply, SeeOtherHost, CloseLater
<1>9. QED
  BY <1>1, <1>2, <1>3, <1>4, <1>5, <1>6, <1>7, <1>8 DEF Code, Ordinary

-----------------------------------------------------------------------------
(* The token timers: every action but four reaches them through            *)
(* oauth2Restart, or not at all.                                           *)

LEMMA TokenStep ==
  ASSUME Code
  PROVE  \/ Life \/ AskNewToken \/ (\E found \in BOOLEAN : TokenReply(found))
         \/ /\ renewals' = renewals \/ (renewals > 0 /\ renewals' = renewals - 1)
            /\ \/ UNCHANGED <<restarting, askTimers>>
               \/ \E pause \in {paused, TRUE, FALSE} : OAuth2Restart(pause)
<1>1. CASE Token
  BY <1>1 DEF Token, FailedRenew
<1>2. CASE Calm
  BY <1>2 DEF Calm, Reconnect, LookupDone, SocketConnected
<1>3. CASE Told
  BY <1>3 DEF Told, ConnectFails, SessionStarted, StreamError
<1>4. CASE Lost
  BY <1>4 DEF Lost, RemoteClose, CloseCompletes, PingTimeout, NegotiationFails,
              CloseStream, Disconnected, OauthDisconnected
<1>5. CASE Login
  BY <1>5 DEF Login, UiConnects, UiLeaves, UiStatus, UiSetPresence, UiLogin, UiOAuth2Login
<1>6. CASE Asked
  BY <1>6 DEF Asked, UiDisconnect, SendFails, WaitForInternet, InternetIsBack, OauthDisconnected
<1>7. CASE SilentReply \/ SeeOtherHost
  BY <1>7 DEF SilentReply, SeeOtherHost
<1>8. QED
  BY <1>1, <1>2, <1>3, <1>4, <1>5, <1>6, <1>7 DEF Code, Ordinary

\* oauth2Restart, with the number r of requests that remain outstanding.
LEMMA RestartKeeps ==
  ASSUME CountersOK, LatchHasTimer,
         NEW r \in Nat, r <= renewals, renewals' = r,
         NEW pause, OAuth2Restart(pause)
  PROVE  CountersOK' /\ LatchHasTimer'
<1>1. CASE UNCHANGED <<restarting, askTimers>>
  <2>1. CountersOK'
    BY <1>1, MaxTokenAssumption DEF CountersOK
  <2>2. LatchHasTimer'
    BY <1>1 DEF LatchHasTimer
  <2>3. QED
    BY <2>1, <2>2
<1>2. CASE askTimers + renewals' < MaxToken /\ askTimers' = askTimers + 1
  <2>1. CountersOK'
    BY <1>2, MaxTokenAssumption DEF CountersOK
  <2>2. askTimers' > 0
    BY <1>2 DEF CountersOK
  <2>3. QED
    BY <2>1, <2>2 DEF LatchHasTimer
<1>3. QED
  BY <1>1, <1>2 DEF OAuth2Restart

LEMMA TokensKept ==
  ASSUME CountersOK, LatchHasTimer, ServiceOK, Code
  PROVE  CountersOK' /\ LatchHasTimer'
<1>1. CASE Life
  <2>1. /\ renewals' = 0
        /\ askTimers' = 0 \/ askTimers' = 1
        /\ restarting' => askTimers' = 1
    BY <1>1 DEF Life, Boot, Start, Stop, Die
  <2>2. CountersOK'
    <3>1. CASE askTimers' = 0
      BY <2>1, <3>1, MaxTokenAssumption DEF CountersOK
    <3>2. CASE askTimers' = 1
      BY <2>1, <3>2, MaxTokenAssumption DEF CountersOK
    <3>3. QED
      BY <2>1, <3>1, <3>2
  <2>3. QED
    BY <2>1, <2>2 DEF LatchHasTimer
<1>2. CASE AskNewToken
  <2>1. ~restarting'
    BY <1>2 DEF AskNewToken, Die
  <2>2. CountersOK'
    <3>1. CASE askTimers > 0 /\ askTimers' = askTimers - 1 /\ renewals' = renewals + 1
      BY <3>1 DEF CountersOK
    <3>2. CASE askTimers' = 0 /\ renewals' = 0
      BY <3>2, MaxTokenAssumption DEF CountersOK
    <3>3. QED
      BY <1>2, <3>1, <3>2 DEF AskNewToken, Die
  <2>3. QED
    BY <2>1, <2>2 DEF LatchHasTimer
<1>3. ASSUME NEW found \in BOOLEAN, TokenReply(found) PROVE CountersOK' /\ LatchHasTimer'
  <2>1. ~restarting' /\ renewals > 0 /\ renewals' = renewals - 1 /\ askTimers' = askTimers
    BY <1>3 DEF TokenReply
  <2>2. CountersOK'
    BY <2>1, MaxTokenAssumption DEF CountersOK
  <2>3. QED
    BY <2>1, <2>2 DEF LatchHasTimer
<1>4. ASSUME renewals' = renewals \/ (renewals > 0 /\ renewals' = renewals - 1),
             \/ UNCHANGED <<restarting, askTimers>>
             \/ \E pause \in {paused, TRUE, FALSE} : OAuth2Restart(pause)
      PROVE  CountersOK' /\ LatchHasTimer'
  <2>1. PICK r \in Nat : r <= renewals /\ renewals' = r
    BY <1>4 DEF CountersOK
  <2>2. CASE UNCHANGED <<restarting, askTimers>>
    <3>1. CountersOK'
      BY <2>1, <2>2, MaxTokenAssumption DEF CountersOK
    <3>2. LatchHasTimer'
      BY <2>2 DEF LatchHasTimer
    <3>3. QED
      BY <3>1, <3>2
  <2>3. QED
    BY <1>4, <2>1, <2>2, RestartKeeps
<1>5. QED
  BY <1>1, <1>2, <1>3, <1>4, TokenStep

-----------------------------------------------------------------------------
(* m_Connected, the session and what the UI client was told.               *)

\* What a step does to the history.
HistoryStep ==
    \/ Ordinary /\ Recorded(FALSE, FALSE)
    \/ SilentReply /\ Recorded(TRUE, FALSE)
    \/ SeeOtherHost /\ Recorded(FALSE, TRUE)

\* Only a see-other-host sets redirectHost, and then it waits for the close.
LEMMA RedirectKept ==
  ASSUME StreamOK, ServiceOK, RedirectWaits, HistoryStep
  PROVE  RedirectWaits'
<1> USE DEF RedirectWaits, Recorded, StreamOK, SockStates
<1>0. SUFFICES ASSUME Ordinary, Recorded(FALSE, FALSE) PROVE RedirectWaits'
  <2>1. CASE SilentReply /\ Recorded(TRUE, FALSE)
    BY <2>1 DEF SilentReply
  <2>2. CASE SeeOtherHost /\ Recorded(FALSE, TRUE)
    BY <2>2 DEF SeeOtherHost, CloseLater
  <2>3. QED
    BY <2>1, <2>2 DEF HistoryStep
<1>1. CASE Life
  BY <1>1 DEF Life, Boot, Start, Stop, Die
<1>2. CASE Token
  BY <1>0, <1>2 DEF Token, AskNewToken, Die, FailedRenew, TokenReply, ConnectToServer, ConnectToHost, OpenSocket
<1>3. CASE Calm
  BY <1>0, <1>3 DEF Calm, Reconnect, LookupDone, SocketConnected, ConnectToHost, OpenSocket
<1>4. CASE Told
  BY <1>0, <1>4 DEF Told, ConnectFails, SessionStarted, StreamError
<1>5. CASE Lost
  <2> USE DEF CloseStream, CloseLater, CloseNow, SocketClosed, Disconnected, OauthDisconnected
  <2>1. CASE RemoteClose
    BY <1>0, <2>1 DEF RemoteClose
  <2>2. CASE CloseCompletes
    BY <1>0, <2>2 DEF CloseCompletes
  <2>3. CASE PingTimeout
    BY <1>0, <2>3 DEF PingTimeout
  <2>4. ASSUME NEW e \in BOOLEAN, NegotiationFails(e) PROVE RedirectWaits'
    BY <1>0, <2>4 DEF NegotiationFails
  <2>5. QED
    BY <1>5, <2>1, <2>2, <2>3, <2>4 DEF Lost
<1>6. CASE Login
  BY <1>0, <1>6 DEF Login, UiConnects, UiLeaves, UiStatus, UiSetPresence, UiLogin, UiOAuth2Login, LoginAgain, ConnectToServer, ConnectToHost, OpenSocket
<1>7. CASE Asked
  <2> USE DEF CloseLater, CloseNow, SocketClosed, OauthDisconnected, SimpleConnectRestart, ConnectToServer, ConnectToHost, OpenSocket
  <2>1. CASE UiDisconnect
    BY <1>0, <2>1 DEF UiDisconnect
  <2>2. CASE SendFails
    BY <1>0, <2>2 DEF SendFails
  <2>3. CASE WaitForInternet
    BY <1>0, <2>3 DEF WaitForInternet
  <2>4. CASE InternetIsBack
    BY <1>0, <2>4 DEF InternetIsBack
  <2>5. QED
    BY <1>7, <2>1, <2>2, <2>3, <2>4 DEF Asked
<1>8. QED
  BY <1>0, <1>1, <1>2, <1>3, <1>4, <1>5, <1>6, <1>7 DEF Ordinary

LEMMA ConnectedKept ==
  ASSUME StreamOK, ServiceOK, RedirectWaits, ConnectedIsTrue, HistoryStep
  PROVE  ConnectedIsTrue'
<1> USE DEF ConnectedIsTrue, RedirectWaits, Recorded, StreamOK, SockStates
<1>0. SUFFICES ASSUME Ordinary, Recorded(FALSE, FALSE) PROVE ConnectedIsTrue'
  <2>1. CASE SilentReply /\ Recorded(TRUE, FALSE)
    BY <2>1 DEF SilentReply
  <2>2. CASE SeeOtherHost /\ Recorded(FALSE, TRUE)
    BY <2>2 DEF SeeOtherHost, CloseLater
  <2>3. QED
    BY <2>1, <2>2 DEF HistoryStep
<1>1. CASE Life
  BY <1>1 DEF Life, Boot, Start, Stop, Die
<1>2. CASE Token
  BY <1>0, <1>2 DEF Token, AskNewToken, Die, FailedRenew, TokenReply, ConnectToServer, ConnectToHost, OpenSocket
<1>3. CASE Calm
  BY <1>0, <1>3 DEF Calm, Reconnect, LookupDone, SocketConnected, ConnectToHost, OpenSocket
<1>4. CASE Told
  BY <1>0, <1>4 DEF Told, ConnectFails, SessionStarted, StreamError
<1>5. CASE Lost
  <2> USE DEF CloseStream, CloseLater, CloseNow, SocketClosed, Disconnected, OauthDisconnected, Heard
  <2>1. CASE RemoteClose
    BY <1>0, <2>1 DEF RemoteClose
  <2>2. CASE CloseCompletes
    BY <1>0, <2>2 DEF CloseCompletes
  <2>3. CASE PingTimeout
    BY <1>0, <2>3 DEF PingTimeout
  <2>4. ASSUME NEW e \in BOOLEAN, NegotiationFails(e) PROVE ConnectedIsTrue'
    BY <1>0, <2>4 DEF NegotiationFails
  <2>5. QED
    BY <1>5, <2>1, <2>2, <2>3, <2>4 DEF Lost
<1>6. CASE Login
  BY <1>0, <1>6 DEF Login, UiConnects, UiLeaves, UiStatus, UiSetPresence, UiLogin, UiOAuth2Login, LoginAgain, ConnectToServer, ConnectToHost, OpenSocket
<1>7. CASE Asked
  <2> USE DEF CloseLater, CloseNow, SocketClosed, OauthDisconnected, SimpleConnectRestart, ConnectToServer, ConnectToHost, OpenSocket
  <2>1. CASE UiDisconnect
    BY <1>0, <2>1 DEF UiDisconnect
  <2>2. CASE SendFails
    BY <1>0, <2>2 DEF SendFails
  <2>3. CASE WaitForInternet
    BY <1>0, <2>3 DEF WaitForInternet
  <2>4. CASE InternetIsBack
    BY <1>0, <2>4 DEF InternetIsBack
  <2>5. QED
    BY <1>7, <2>1, <2>2, <2>3, <2>4 DEF Asked
<1>8. QED
  BY <1>0, <1>1, <1>2, <1>3, <1>4, <1>5, <1>6, <1>7 DEF Ordinary

LEMMA UiBeliefKept ==
  ASSUME StreamOK, ServiceOK, UiBelief, Code
  PROVE  UiBelief'
<1> USE DEF UiBelief, ServiceOK, Report
<1>1. CASE Life
  BY <1>1 DEF Life, Boot, Start, Stop, Die
<1>2. CASE Token
  <2>1. CASE AskNewToken
    <3>1. CASE Die
      BY <3>1 DEF Die
    <3>2. CASE UNCHANGED <<uiVars, flagVars>>
      BY <3>2
    <3>3. QED
      BY <2>1, <3>1, <3>2 DEF AskNewToken
  <2>2. CASE FailedRenew \/ \E found \in BOOLEAN : TokenReply(found)
    BY <2>2 DEF FailedRenew, TokenReply
  <2>3. QED
    BY <1>2, <2>1, <2>2 DEF Token
<1>3. CASE Calm
  BY <1>3 DEF Calm, Reconnect, LookupDone, SocketConnected
<1>4. CASE Told
  BY <1>4 DEF Told, ConnectFails, SessionStarted, StreamError, LogConnectionError
<1>5. CASE Lost
  <2> USE DEF CloseStream, CloseLater, CloseNow, SocketClosed, Disconnected, OauthDisconnected, LogConnectionError, Heard
  <2>1. CASE RemoteClose
    BY <2>1 DEF RemoteClose
  <2>2. CASE CloseCompletes
    BY <2>2 DEF CloseCompletes
  <2>3. CASE PingTimeout
    <3>1. CASE LogConnectionError /\ UNCHANGED connected
      BY <2>3, <3>1 DEF PingTimeout
    <3>2. CASE CloseNow /\ Disconnected(TRUE)
      BY <2>3, <3>2 DEF PingTimeout
    <3>3. QED
      BY <2>3, <3>1, <3>2 DEF PingTimeout
  <2>4. ASSUME NEW e \in BOOLEAN, NegotiationFails(e) PROVE UiBelief'
    BY <2>4 DEF NegotiationFails
  <2>5. QED
    BY <1>5, <2>1, <2>2, <2>3, <2>4 DEF Lost
<1>6. CASE Login
  BY <1>6 DEF Login, UiConnects, UiLeaves, UiStatus, UiSetPresence, UiLogin, UiOAuth2Login, LoginAgain
<1>7. CASE Asked
  <2> USE DEF CloseLater, CloseNow, SocketClosed, OauthDisconnected, SimpleConnectRestart, ConnectToServer, ConnectToHost, OpenSocket
  <2>1. CASE UiDisconnect
    BY <2>1 DEF UiDisconnect
  <2>2. CASE SendFails
    BY <2>2 DEF SendFails
  <2>3. CASE WaitForInternet
    BY <2>3 DEF WaitForInternet
  <2>4. CASE InternetIsBack
    BY <2>4 DEF InternetIsBack
  <2>5. QED
    BY <1>7, <2>1, <2>2, <2>3, <2>4 DEF Asked
<1>8. CASE SilentReply \/ SeeOtherHost
  BY <1>8 DEF SilentReply, SeeOtherHost
<1>9. QED
  BY <1>1, <1>2, <1>3, <1>4, <1>5, <1>6, <1>7, <1>8 DEF Code, Ordinary

-----------------------------------------------------------------------------
(* Something is always left to retry.                                      *)

\* oauth2Restart leaves a timer behind, by the latch if not by its own.
LEMMA RestartRetries ==
  ASSUME CountersOK, LatchHasTimer, NEW pause, ~pause, token, OAuth2Restart(pause)
  PROVE  askTimers' > 0
<1>1. CASE restarting /\ UNCHANGED <<restarting, askTimers>>
  BY <1>1 DEF LatchHasTimer
<1>2. CASE askTimers' = askTimers + 1
  BY <1>2 DEF CountersOK
<1>3. QED
  BY <1>1, <1>2 DEF OAuth2Restart

LEMMA RetryKept ==
  ASSUME CountersOK, ServiceOK, StreamOK, ClientOK,
         LatchHasTimer, RedirectWaits, StrayIsConnected, ConnectedIsTrue,
         RetryArmed, HistoryStep
  PROVE  RetryArmed'
<1> USE DEF RetryArmed, Down, Retrying, Idle, Recorded, RedirectWaits, ConnectedIsTrue, CountersOK, ServiceOK, StreamOK, ClientOK, SockStates, LatchHasTimer
<1>0. SUFFICES ASSUME Ordinary, Recorded(FALSE, FALSE) PROVE RetryArmed'
  <2>1. CASE SilentReply /\ Recorded(TRUE, FALSE)
    BY <2>1 DEF SilentReply
  <2>2. CASE SeeOtherHost /\ Recorded(FALSE, TRUE)
    BY <2>2 DEF SeeOtherHost, CloseLater
  <2>3. QED
    BY <2>1, <2>2 DEF HistoryStep
<1>1. CASE Life
  BY <1>1 DEF Life, Boot, Start, Stop, Die
<1>2. CASE Token
  <2>1. CASE AskNewToken
    <3>1. CASE Die
      BY <3>1 DEF Die
    <3>2. CASE renewals' = renewals + 1
      BY <3>2
    <3>3. QED
      BY <2>1, <3>1, <3>2 DEF AskNewToken
  <2>2. CASE FailedRenew
    BY <1>0, <2>2, RestartRetries DEF FailedRenew
  <2>3. ASSUME NEW found \in BOOLEAN, TokenReply(found) PROVE RetryArmed'
    BY <2>3 DEF TokenReply, ConnectToServer, ConnectToHost, OpenSocket
  <2>4. QED
    BY <1>2, <2>1, <2>2, <2>3 DEF Token
<1>3. CASE Calm
  BY <1>0, <1>3 DEF Calm, Reconnect, LookupDone, SocketConnected, ConnectToHost, OpenSocket
<1>4. CASE Told
  BY <1>0, <1>4 DEF Told, ConnectFails, SessionStarted, StreamError
<1>5. CASE Lost
  <2> USE DEF CloseStream, CloseLater, CloseNow, SocketClosed, Disconnected, OauthDisconnected, Heard, OAuth2Restart
  <2>1. CASE RemoteClose
    BY <1>0, <2>1 DEF RemoteClose
  <2>2. CASE CloseCompletes
    BY <1>0, <2>2 DEF CloseCompletes
  <2>3. CASE PingTimeout
    BY <1>0, <2>3 DEF PingTimeout
  <2>4. ASSUME NEW e \in BOOLEAN, NegotiationFails(e) PROVE RetryArmed'
    BY <1>0, <2>4 DEF NegotiationFails
  <2>5. QED
    BY <1>5, <2>1, <2>2, <2>3, <2>4 DEF Lost
<1>6. CASE Login
  <2>1. CASE UiConnects \/ UiLeaves \/ UiStatus
    <3>1. UNCHANGED <<google, connType, token, paused, sock, conflict, connected,
                      askTimers, renewals, reconnTimer, lookup>>
      BY <2>1 DEF UiConnects, UiLeaves, UiStatus
    <3>2. QED
      BY <1>0, <3>1 DEF StrayIsConnected
  <2>2. CASE UiSetPresence
    BY <1>0, <2>2 DEF UiSetPresence, ConnectToServer, ConnectToHost, OpenSocket
  <2>3. ASSUME NEW b \in BOOLEAN, UiLogin(b) \/ UiOAuth2Login(b) PROVE RetryArmed'
    BY <1>0, <2>3 DEF UiLogin, UiOAuth2Login, LoginAgain, ConnectToServer, ConnectToHost, OpenSocket
  <2>4. QED
    BY <1>6, <2>1, <2>2, <2>3 DEF Login
<1>7. CASE Asked
  <2> USE DEF CloseLater, CloseNow, SocketClosed, OauthDisconnected, SimpleConnectRestart, ConnectToServer, ConnectToHost, OpenSocket, OAuth2Restart
  <2>1. CASE UiDisconnect
    BY <1>0, <2>1 DEF UiDisconnect
  <2>2. CASE SendFails
    BY <1>0, <2>2 DEF SendFails
  <2>3. CASE WaitForInternet
    BY <1>0, <2>3 DEF WaitForInternet
  <2>4. CASE InternetIsBack
    BY <1>0, <2>4 DEF InternetIsBack
  <2>5. QED
    BY <1>7, <2>1, <2>2, <2>3, <2>4 DEF Asked
<1>8. QED
  BY <1>0, <1>1, <1>2, <1>3, <1>4, <1>5, <1>6, <1>7 DEF Ordinary

-----------------------------------------------------------------------------
(* The theorems.                                                           *)

LEMMA IInvInit == Init => IInv
<1> SUFFICES ASSUME Init PROVE IInv
  OBVIOUS
<1>1. CountersOK
  BY MaxTokenAssumption DEF Init, CountersOK
<1>2. TypeOK
  BY <1>1 DEF Init, TypeOK, ServiceOK, StreamOK, ClientOK, SockStates, Presences
<1>3. QED
  BY <1>2 DEF Init, IInv, LatchHasTimer, RedirectWaits, StrayIsConnected,
              ConnectedIsTrue, UiBelief, RetryArmed, Down

LEMMA IInvStep == IInv /\ [Next]_vars => IInv'
<1>1. ASSUME IInv, Next PROVE IInv'
  <2>1. CountersOK /\ ServiceOK /\ StreamOK /\ ClientOK
    BY <1>1 DEF IInv, TypeOK
  <2>2. HistoryStep
    BY <1>1, StepCases DEF HistoryStep
  <2>3. Code
    BY <2>2 DEF HistoryStep, Code
  <2>4. PICK silent \in BOOLEAN, stray \in BOOLEAN : Recorded(silent, stray)
    BY <2>2 DEF HistoryStep
  <2>5. CountersOK' /\ LatchHasTimer'
    BY <1>1, <2>1, <2>3, TokensKept DEF IInv
  <2>6. ServiceOK' /\ StreamOK' /\ ClientOK'
    BY <2>1, <2>3, ServiceKept, StreamKept, ClientKept
  <2>7. stalled' \in BOOLEAN /\ strayed' \in BOOLEAN /\ StrayIsConnected'
    BY <2>4 DEF Recorded, StrayIsConnected
  <2>8. RedirectWaits' /\ ConnectedIsTrue'
    BY <1>1, <2>1, <2>2, RedirectKept, ConnectedKept DEF IInv
  <2>9. UiBelief'
    BY <1>1, <2>1, <2>3, UiBeliefKept DEF IInv
  <2>10. RetryArmed'
    BY <1>1, <2>1, <2>2, RetryKept DEF IInv
  <2>11. QED
    BY <2>5, <2>6, <2>7, <2>8, <2>9, <2>10 DEF IInv, TypeOK
<1>2. ASSUME IInv, UNCHANGED vars PROVE IInv'
  <2>1. UNCHANGED <<askTimers, renewals>> /\ CountersOK
    BY <1>2 DEF IInv, TypeOK
  <2>2. CountersOK'
    BY <2>1 DEF CountersOK
  <2>3. TypeOK'
    BY <1>2, <2>2 DEF IInv, TypeOK, ServiceOK, StreamOK, ClientOK
  <2>4. LatchHasTimer' /\ RedirectWaits' /\ StrayIsConnected' /\ ConnectedIsTrue' /\ UiBelief'
    BY <1>2 DEF IInv, LatchHasTimer, RedirectWaits, StrayIsConnected, ConnectedIsTrue, UiBelief
  <2>5. RetryArmed'
    BY <1>2 DEF IInv, RetryArmed, Down, Retrying
  <2>6. QED
    BY <2>3, <2>4, <2>5 DEF IInv
<1>3. QED
  BY <1>1, <1>2

\* The inductive invariant holds throughout.
THEOREM Invariance == Spec => []IInv
<1>1. Init => IInv
  BY IInvInit
<1>2. IInv /\ [Next]_vars => IInv'
  BY IInvStep
<1>3. QED
  BY <1>1, <1>2, PTL DEF Spec

\* Every variable keeps its type, and the timers and requests their bound.
THEOREM TypeCorrect == Spec => []TypeOK
<1>1. IInv => TypeOK
  BY DEF IInv
<1>2. QED
  BY <1>1, Invariance, PTL

\* The latch of oauth2Restart never sticks, however many restarts, replies,
\* pauses and DISCONNECTs overlap.
THEOREM LatchSafe == Spec => []LatchHasTimer
<1>1. IInv => LatchHasTimer
  BY DEF IInv
<1>2. QED
  BY <1>1, Invariance, PTL

\* m_Connected never outlives the session of a Google connection, except by a
\* see-other-host in that session.
THEOREM ConnectedSafe == Spec => []ConnectedIsTrue
<1>1. IInv => ConnectedIsTrue
  BY DEF IInv
<1>2. QED
  BY <1>1, Invariance, PTL

\* The UI client of a Google connection is not left believing it is logged in.
THEOREM UiBeliefSafe == Spec => []UiBelief
<1>1. IInv => UiBelief
  BY DEF IInv
<1>2. QED
  BY <1>1, Invariance, PTL

\* A Google connection that is down always has something left to retry it.
THEOREM RetrySafe == Spec => []RetryArmed
<1>1. IInv => RetryArmed
  BY DEF IInv
<1>2. QED
  BY <1>1, Invariance, PTL

-----------------------------------------------------------------------------
(* The refinement: what the client does to its stream is what a stream     *)
(* promises.                                                               *)

\* A process that does not run holds nothing open.
Dormant == ~alive => Promised!Rest

\* One step of a living stream, or none.
Moves == Promised!Lives \/ UNCHANGED Promised!contractVars

LEMMA DormantKept ==
  ASSUME ServiceOK, Dormant, Code
  PROVE  Dormant'
<1>1. CASE Life
  BY <1>1 DEF Life, Boot, Start, Stop, Die, Dormant, Promised!Rest
<1>2. CASE AskNewToken
  BY <1>2 DEF AskNewToken, Die, Dormant, Promised!Rest
<1>3. CASE alive /\ UNCHANGED alive
  BY <1>3 DEF Dormant
<1>4. QED
  BY <1>1, <1>2, <1>3 DEF Code, Ordinary, Life, Token, Calm, Told, Lost, Login, Asked,
     FailedRenew, TokenReply, Reconnect, LookupDone, SocketConnected, ConnectFails,
     SessionStarted, StreamError, RemoteClose, CloseCompletes, PingTimeout,
     NegotiationFails, UiConnects, UiLeaves, UiStatus, UiSetPresence, UiLogin,
     UiOAuth2Login, UiDisconnect, SendFails, WaitForInternet, InternetIsBack,
     SilentReply, SeeOtherHost

\* Opening: nothing happens to a socket that is in use.
LEMMA OpeningMoves ==
  ASSUME alive, UNCHANGED <<alive, redirect, pinging>>,
         OpenSocket \/ UNCHANGED sock
  PROVE  Moves
  BY DEF OpenSocket, Moves, Promised!Lives, Promised!Opens, Promised!contractVars

LEMMA ConnectingOpens ==
  ASSUME NEW h, ConnectToServer(h) \/ ConnectToHost(h)
  PROVE  OpenSocket \/ UNCHANGED sock
  BY DEF ConnectToServer, ConnectToHost

LEMMA RestartingOpens ==
  ASSUME NEW p, SimpleConnectRestart(p)
  PROVE  OpenSocket \/ UNCHANGED sock
  BY ConnectingOpens DEF SimpleConnectRestart

\* Closing: at once, or in two steps.
LEMMA ClosingMoves ==
  ASSUME StreamOK, RedirectWaits, alive, UNCHANGED alive,
         (CloseLater /\ UNCHANGED redirect) \/ CloseNow
  PROVE  Moves
<1> USE DEF Moves, Promised!Lives, Promised!contractVars
<1>1. CASE CloseLater /\ UNCHANGED redirect
  BY <1>1 DEF CloseLater, StreamOK, SockStates, Promised!BeginsClose
<1>2. CASE CloseNow
  BY <1>2 DEF CloseNow, SocketClosed, RedirectWaits, StreamOK, Promised!Ends
<1>3. QED
  BY <1>1, <1>2

LEMMA StreamMoves ==
  ASSUME ServiceOK, StreamOK, RedirectWaits, Calm \/ Told \/ Lost \/ SeeOtherHost
  PROVE  Moves
<1> USE DEF Moves, Promised!Lives, Promised!contractVars
<1>1. CASE Calm
  <2>1. CASE SocketConnected
    BY <2>1 DEF SocketConnected, Promised!Connects, Promised!BeginsClose
  <2>2. CASE Reconnect \/ LookupDone
    BY <2>2, OpeningMoves, ConnectingOpens DEF Reconnect, LookupDone
  <2>3. QED
    BY <1>1, <2>1, <2>2 DEF Calm
<1>2. CASE Told
  BY <1>2 DEF Told, ConnectFails, SessionStarted, StreamError, Promised!Fails,
     Promised!BeginsSession
<1>3. CASE Lost
  <2>1. CASE RemoteClose \/ CloseCompletes
    BY <2>1 DEF RemoteClose, CloseCompletes, SocketClosed, StreamOK, RedirectWaits,
       Promised!Ends, Promised!MovesOn
  <2>2. ASSUME NEW e \in BOOLEAN, PingTimeout \/ NegotiationFails(e) PROVE Moves
    BY <2>2, ClosingMoves DEF PingTimeout, NegotiationFails, CloseStream
  <2>3. QED
    BY <1>3, <2>1, <2>2 DEF Lost
<1>4. CASE SeeOtherHost
  BY <1>4 DEF SeeOtherHost, CloseLater, RedirectWaits, Promised!BeginsClose,
     Promised!MovesOn
<1>5. QED
  BY <1>1, <1>2, <1>3, <1>4

LEMMA RequestMoves ==
  ASSUME ServiceOK, StreamOK, RedirectWaits, Login \/ Asked
  PROVE  Moves
<1>1. CASE UiConnects \/ UiLeaves \/ UiStatus
  BY <1>1 DEF UiConnects, UiLeaves, UiStatus, Moves, Promised!contractVars
<1>2. CASE UiSetPresence \/ \E b \in BOOLEAN : UiLogin(b) \/ UiOAuth2Login(b)
  <2>1. /\ alive /\ UNCHANGED <<alive, redirect, pinging>>
        /\ UNCHANGED sock \/ \E h : ConnectToServer(h)
    BY <1>2 DEF UiSetPresence, UiLogin, UiOAuth2Login, LoginAgain
  <2>2. QED
    BY <2>1, OpeningMoves, ConnectingOpens
<1>3. CASE SendFails \/ InternetIsBack
  <2>1. /\ alive /\ UNCHANGED <<alive, redirect, pinging>>
        /\ UNCHANGED sock \/ \E p : SimpleConnectRestart(p)
    BY <1>3 DEF SendFails, InternetIsBack
  <2>2. QED
    BY <2>1, OpeningMoves, RestartingOpens
<1>4. CASE UiDisconnect \/ WaitForInternet
  BY <1>4, ClosingMoves DEF UiDisconnect, WaitForInternet
<1>5. QED
  BY <1>1, <1>2, <1>3, <1>4 DEF Login, Asked

LEMMA ContractStep ==
  ASSUME ServiceOK, StreamOK, RedirectWaits, Dormant, Code
  PROVE  [Promised!ContractNext]_Promised!contractVars
<1> USE DEF Promised!ContractNext
<1>1. CASE Life
  <2>1. CASE Boot
    BY <2>1 DEF Boot, Start, Dormant, Promised!Rest, Promised!Begins
  <2>2. CASE Stop
    BY <2>2 DEF Stop, Die, Promised!Rest, Promised!Vanishes
  <2>3. QED
    BY <1>1, <2>1, <2>2 DEF Life
<1>2. CASE Token
  <2>1. CASE AskNewToken
    BY <2>1 DEF AskNewToken, Die, Promised!Rest, Promised!Vanishes, Promised!contractVars
  <2>2. CASE FailedRenew
    BY <2>2 DEF FailedRenew, Promised!contractVars
  <2>3. ASSUME NEW found \in BOOLEAN, TokenReply(found) PROVE Moves
    BY <2>3, OpeningMoves, ConnectingOpens DEF TokenReply
  <2>4. QED
    BY <1>2, <2>1, <2>2, <2>3 DEF Token, Moves
<1>3. CASE Calm \/ Told \/ Lost \/ SeeOtherHost
  BY <1>3, StreamMoves DEF Moves
<1>4. CASE Login \/ Asked
  BY <1>4, RequestMoves DEF Moves
<1>5. CASE SilentReply
  BY <1>5 DEF SilentReply, Promised!contractVars
<1>6. QED
  BY <1>1, <1>2, <1>3, <1>4, <1>5 DEF Code, Ordinary

\* Whatever the timers, the server, the UI client and the network monitor do
\* in between, the client opens, closes and loses its stream in no other way
\* than a stream promises.
THEOREM StreamContractKept == Spec => StreamAsPromised
<1>1. Init => Promised!Rest /\ Dormant
  BY DEF Init, Promised!Rest, Dormant
<1>2. ASSUME IInv, Dormant, [Next]_vars
      PROVE  Dormant' /\ [Promised!ContractNext]_Promised!contractVars
  <2>1. CASE UNCHANGED vars
    BY <1>2, <2>1 DEF Dormant, Promised!Rest, Promised!contractVars
  <2>2. CASE Next
    <3>1. Code
      BY <2>2, StepCases DEF Code
    <3>2. QED
      BY <1>2, <3>1, DormantKept, ContractStep DEF IInv, TypeOK
  <2>3. QED
    BY <1>2, <2>1, <2>2
<1>3. QED
  BY <1>1, <1>2, Invariance, PTL DEF Spec, StreamAsPromised, Promised!ContractSpec

-----------------------------------------------------------------------------
(* The service under its network monitor: Supervision.                     *)

USE DEF monitorVars, allVars


-----------------------------------------------------------------------------
(* The service in the composition makes only steps of its own.             *)

LEMMA SupStepIsStep == ASSUME SupNext PROVE [Next]_vars
<1>1. CASE Inside(Internal)
  BY <1>1 DEF Inside, Next
<1>2. CASE Attach
  BY <1>2 DEF Attach
<1>3. ASSUME NEW b \in BOOLEAN, PlatformEvent(b) PROVE [Next]_vars
  BY <1>3 DEF PlatformEvent, Next
<1>4. CASE LossTimer
  BY <1>4 DEF LossTimer, Next
<1>5. QED
  BY <1>1, <1>2, <1>3, <1>4 DEF SupNext

\* The composition implements the service alone, so that everything proved of
\* XMPPConnection holds under the network monitor.
THEOREM SupImplements == SupSpec => Spec
<1>1. SupInit => Init
  BY DEF SupInit
<1>2. [SupNext]_allVars => [Next]_vars
  BY SupStepIsStep
<1>3. QED
  BY <1>1, <1>2, PTL DEF SupSpec, Spec

\* In particular, a Google connection that is down keeps something to retry it.
THEOREM SupRetrySafe == SupSpec => []RetryArmed
  BY SupImplements, RetrySafe, PTL

-----------------------------------------------------------------------------
(* The monitor.                                                            *)

\* The pending loss timers and their bound.
TimersOK == lossTimers \in Nat /\ lossTimers <= MaxLossTimers

MonitorFlagsOK ==
    available \in BOOLEAN /\ nsConnected \in BOOLEAN /\ nsCache \in BOOLEAN

LEMMA TimersKept ==
  ASSUME TimersOK, SupNext
  PROVE  TimersOK'
<1>1. \/ lossTimers' = lossTimers \/ lossTimers' = 0
      \/ (lossTimers < MaxLossTimers /\ lossTimers' = lossTimers + 1)
      \/ (lossTimers > 0 /\ lossTimers' = lossTimers - 1)
  BY Zenon DEF SupNext, Inside, Attach, PlatformEvent, LossTimer, NS!SetConnected,
               NS!RegisterConnectionLoss
<1>2. QED
  BY <1>1, MaxLossTimersAssumption DEF TimersOK

LEMMA MonitorFlagsKept ==
  ASSUME MonitorFlagsOK, SupNext
  PROVE  MonitorFlagsOK'
<1> USE DEF MonitorFlagsOK
<1>1. CASE Inside(Internal) \/ Attach
  BY <1>1, Zenon DEF Inside, Attach
<1>2. ASSUME NEW b \in BOOLEAN, PlatformEvent(b) PROVE MonitorFlagsOK'
  BY <1>2, Zenon DEF PlatformEvent, NS!SetConnected
<1>3. CASE LossTimer
  BY <1>3 DEF LossTimer, NS!RegisterConnectionLoss
<1>4. QED
  BY <1>1, <1>2, <1>3 DEF SupNext

LEMMA MonitorTypeKept ==
  ASSUME NS!NSTypeOK, SupNext
  PROVE  NS!NSTypeOK'
  BY TimersKept, MonitorFlagsKept DEF NS!NSTypeOK, TimersOK, MonitorFlagsOK

LEMMA AttachedTypeKept ==
  ASSUME attached \in BOOLEAN, SupNext
  PROVE  attached' \in BOOLEAN
  BY DEF SupNext, Inside, Attach, PlatformEvent, LossTimer

LEMMA LossKept ==
  ASSUME NS!NSTypeOK, LossNotForgotten, SupNext
  PROVE  LossNotForgotten'
<1> USE DEF LossNotForgotten, NS!LossArmed
<1>1. CASE Inside(Internal)
  <2>1. CASE UNCHANGED monitorVars
    BY <2>1
  <2>2. CASE nsConnected' = FALSE
    BY <2>2
  <2>3. QED
    BY <1>1, <2>1, <2>2 DEF Inside
<1>2. CASE Attach
  BY <1>2 DEF Attach
<1>3. ASSUME NEW b \in BOOLEAN, PlatformEvent(b) PROVE LossNotForgotten'
  <2>1. CASE ~b /\ nsConnected
    <3>1. lossTimers' = lossTimers + 1 /\ ~nsCache'
      BY <1>3, <2>1, Zenon DEF PlatformEvent, NS!SetConnected
    <3>2. lossTimers' > 0
      BY <3>1 DEF NS!NSTypeOK
    <3>3. QED
      BY <3>1, <3>2
  <2>2. CASE ~b /\ ~nsConnected
    BY <1>3, <2>2, Zenon DEF PlatformEvent, NS!SetConnected
  <2>3. CASE b
    BY <1>3, <2>3, Zenon DEF PlatformEvent, NS!SetConnected
  <2>4. QED
    BY <2>1, <2>2, <2>3
<1>4. CASE LossTimer
  BY <1>4, Zenon DEF LossTimer, NS!RegisterConnectionLoss
<1>5. QED
  BY <1>1, <1>2, <1>3, <1>4 DEF SupNext

-----------------------------------------------------------------------------
(* The pause.                                                              *)

\* No step of the process by itself begins a pause.
LEMMA PauseFrame ==
  ASSUME Internal, paused', alive'
  PROVE  paused /\ alive
<1>1. CASE Ask \/ Again \/ Resolve \/ Reply
  BY <1>1 DEF Ask, Again, Resolve, Reply, Plain, AskNewToken, Die, Reconnect,
              LookupDone, TokenReply, FailedRenew, SilentReply
<1>2. CASE Boot \/ Stop
  BY <1>2 DEF Boot, Start, Stop, Die
<1>3. CASE Stream
  BY <1>3 DEF Stream, SocketConnected, ConnectFails, SessionStarted, RemoteClose,
              CloseCompletes, PingTimeout, NegotiationFails, StreamError
<1>4. CASE Requests
  BY <1>4 DEF Requests, UiConnects, UiLeaves, UiStatus, UiDisconnect,
              UiSetPresence, SendFails, UiLogin, UiOAuth2Login
<1>5. CASE SeeOtherHost
  BY <1>5 DEF SeeOtherHost
<1>6. QED
  BY <1>1, <1>2, <1>3, <1>4, <1>5 DEF Internal, Plain

LEMMA PauseKept ==
  ASSUME NS!NSTypeOK, attached \in BOOLEAN, PauseEnds, SupNext
  PROVE  PauseEnds'
<1> USE DEF PauseEnds
<1>1. CASE Inside(Internal)
  BY <1>1, PauseFrame DEF Inside
<1>2. CASE Attach
  BY <1>2 DEF Attach
<1>3. ASSUME NEW b \in BOOLEAN, PlatformEvent(b) PROVE PauseEnds'
  <2>1. CASE attached /\ NS!EmitsGain(b)
    BY <1>3, <2>1 DEF PlatformEvent, GainResume, Plain, InternetIsBack
  <2>2. CASE ~attached
    BY <1>3, <2>2 DEF PlatformEvent
  <2>3. CASE attached /\ ~NS!EmitsGain(b)
    <3>1. UNCHANGED <<alive, paused, attached, nsConnected>>
      BY <1>3, <2>3 DEF PlatformEvent, NS!SetConnected, NS!EmitsGain
    <3>2. QED
      BY <3>1
  <2>4. QED
    BY <2>1, <2>2, <2>3
<1>4. CASE LossTimer
  <2>1. nsConnected' = (nsConnected /\ nsCache) /\ UNCHANGED attached
    BY <1>4 DEF LossTimer, NS!RegisterConnectionLoss
  <2>2. CASE attached /\ ~nsCache
    BY <2>1, <2>2
  <2>3. CASE ~(attached /\ ~nsCache)
    <3>1. UNCHANGED <<alive, paused>>
      BY <1>4, <2>3 DEF LossTimer, NS!EmitsLoss
    <3>2. QED
      BY <2>1, <3>1
  <2>4. QED
    BY <2>2, <2>3
<1>5. QED
  BY <1>1, <1>2, <1>3, <1>4 DEF SupNext

-----------------------------------------------------------------------------
(* The inductive invariant of the composition, and the theorems.           *)

SupInv == NS!NSTypeOK /\ attached \in BOOLEAN /\ LossNotForgotten /\ PauseEnds

LEMMA SupInvInit == SupInit => SupInv
<1> SUFFICES ASSUME SupInit PROVE SupInv
  OBVIOUS
<1>1. NS!NSTypeOK
  <2>1. lossTimers \in Nat /\ lossTimers <= MaxLossTimers
    BY MaxLossTimersAssumption DEF SupInit, NS!NSInit
  <2>2. QED
    BY <2>1, Zenon DEF SupInit, NS!NSInit, NS!NSTypeOK
<1>2. LossNotForgotten
  BY DEF SupInit, NS!NSInit, LossNotForgotten, NS!LossArmed
<1>3. QED
  BY <1>1, <1>2 DEF SupInit, Init, SupInv, PauseEnds

LEMMA SupInvStep == SupInv /\ [SupNext]_allVars => SupInv'
<1>1. ASSUME SupInv, SupNext PROVE SupInv'
  BY <1>1, MonitorTypeKept, AttachedTypeKept, LossKept, PauseKept DEF SupInv
<1>2. ASSUME SupInv, UNCHANGED allVars PROVE SupInv'
  BY <1>2 DEF SupInv, NS!NSTypeOK, LossNotForgotten, NS!LossArmed, PauseEnds
<1>3. QED
  BY <1>1, <1>2

THEOREM SupInvariance == SupSpec => []SupInv
  BY SupInvInit, SupInvStep, PTL DEF SupSpec

\* A pause of the service always has its end still to come: the monitor has
\* reported "not connected" and has yet to report "connected".
THEOREM PauseSafe == SupSpec => []PauseEnds
<1>1. SupInv => PauseEnds
  BY DEF SupInv
<1>2. QED
  BY <1>1, SupInvariance, PTL

\* A loss of the network that is not reported yet keeps a timer that will
\* report it, over any mix of repeated events and pending timers.
THEOREM LossSafe == SupSpec => []LossNotForgotten
<1>1. SupInv => LossNotForgotten
  BY DEF SupInv
<1>2. QED
  BY <1>1, SupInvariance, PTL

\* Type correctness of the composition.
THEOREM SupTypeCorrect == SupSpec => []SupTypeOK
<1>1. SupInv /\ TypeOK => SupTypeOK
  BY DEF SupInv, SupTypeOK
<1>2. QED
  BY <1>1, SupInvariance, SupImplements, TypeCorrect, PTL

=============================================================================
