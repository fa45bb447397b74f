---------------------------- MODULE Stream_proofs ----------------------------
(***************************************************************************)
(* Proofs about the negotiation of a stream, for every set of mechanisms,  *)
(* every number of rounds they take, and every set of security modes.      *)
(***************************************************************************)
EXTENDS Stream, TLAPS

-----------------------------------------------------------------------------
(* The inductive invariant.                                                *)

Levels == {"Disabled", "Enabled", "Required"}

Features == [type : {"features"}, tls : Levels, mech : Mechanisms \cup {"none", "unknown"},
             legacy : BOOLEAN, bind : BOOLEAN, session : BOOLEAN]

Plain == {"seeOther", "success", "failure", "proceed", "tlsFailure", "bindResult",
          "bindError", "sessionReply", "legacyError", "legacyResult", "pong",
          "error", "iq"}

\* All that comes from a server.
Stanzas ==
    Features \cup [type : {"header"}, version : BOOLEAN]
    \cup [type : {"challenge"}, bad : BOOLEAN]
    \cup [type : {"queryReply"}, fields : BOOLEAN] \cup [type : Plain]

\* What has arrived or is on its way, in the order it is handled in.
Line == batch \o toClient

Replies == {"features", "proceed", "tlsFailure", "success", "challenge", "failure",
            "bindResult", "bindError", "sessionReply", "queryReply",
            "legacyResult", "legacyError"}

\* The server has answered, and it is the client's turn.
Reply(x) == x.type \in Replies \/ (x.type = "header" /\ ~x.version)
Turning(x) == Reply(x) \/ x.type = "seeOther"

\* It is the server's turn.
Requests(m) == m # "ping"

Asked(S) == \E i \in DOMAIN toServer : toServer[i] \in S
Heard(S) == \E i \in DOMAIN Line : Line[i].type \in S
NothingAsked == \A i \in DOMAIN toServer : ~Requests(toServer[i])

\* There is no connection, or not yet.
Idle == {"unconnected", "connecting", "aborting"}

SocketTypes ==
    /\ tcp \in {"unconnected", "connecting", "aborting", "connected", "closing"}
    /\ encrypted \in BOOLEAN /\ securing \in BOOLEAN
    /\ mode \in Modes
    /\ securing => tcp \in {"connected", "closing"}

AuthTypes ==
    /\ mech \in Mechanisms \cup {"none"}
    /\ step \in (IF mech = "none" THEN {0} ELSE 1..Rounds[mech])
    /\ authenticated \in BOOLEAN

FlagTypes ==
    /\ {bindId, sessionId, nonSASLAuthId} \subseteq BOOLEAN
    /\ {sessionAvailable, sessionStarted, redirectHost} \subseteq BOOLEAN
    /\ {pingTimer, timeoutTimer} \subseteq BOOLEAN

LinkTypes ==
    /\ server \in [tls : BOOLEAN, auth : BOOLEAN,
                   state : {"listening", "done", "mute"}]
    /\ refused \in BOOLEAN
    /\ toServer \in Seq(ClientSays)
    /\ batch \in Seq(Stanzas) /\ toClient \in Seq(Stanzas)
    /\ tcp \in Idle => toClient = <<>> /\ toServer = <<>> /\ server = NoServer

Types == SocketTypes /\ AuthTypes /\ FlagTypes /\ LinkTypes

\* The two sides take turns: of requests, answers to handle, encryption that
\* comes up and a session there is one at a time.
OneAnswer ==
    \A i, j \in DOMAIN Line : Turning(Line[i]) /\ Turning(Line[j]) => i = j
OneRequest ==
    \A i, j \in DOMAIN toServer : Requests(toServer[i]) /\ Requests(toServer[j]) => i = j
NotBoth ==
    (\E i \in DOMAIN Line : Turning(Line[i])) => NothingAsked
QuietWhileSecuring ==
    securing => NothingAsked /\ \A i \in DOMAIN Line : ~Turning(Line[i])
QuietInSession ==
    tcp = "connected" /\ sessionStarted =>
        NothingAsked /\ ~securing /\ \A i \in DOMAIN Line : ~Reply(Line[i])

\* What gives the client its turn is only handled on a stream that is up.
TurnIsUp == \A i \in DOMAIN Line : Turning(Line[i]) => tcp = "connected"

\* Nothing follows what the server closes after.
LastIsLast ==
    \A i \in DOMAIN Line : Line[i].type \in LastWords =>
        i = Len(Line) /\ (tcp = "connected" => server.state # "listening")

Turns ==
    /\ OneAnswer /\ OneRequest /\ NotBoth
    /\ QuietWhileSecuring /\ QuietInSession /\ TurnIsUp /\ LastIsLast

\* An answer that is to come finds the client waiting for it.
Awaited ==
    /\ Asked({"auth", "response"}) \/ Heard({"success", "challenge", "failure"})
          => mech # "none"
    /\ Asked({"bind"}) \/ Heard({"bindResult"}) => bindId
    /\ Asked({"session"}) \/ Heard({"sessionReply"}) => sessionId
    /\ Asked({"legacyAuth"}) \/ Heard({"legacyResult"}) => nonSASLAuthId

\* What the server knows of the stream the client knows, or is being told.
Known ==
    /\ server.tls = encrypted
    /\ tcp = "connected" /\ server.auth
          => authenticated \/ Heard({"success", "legacyResult"})
    /\ Asked({"bind", "session"}) \/ Heard({"bindResult", "sessionReply"})
          => authenticated
    /\ Heard(Refusals) => refused

\* Features that leave nothing to authenticate with come after it, unless TLS
\* is to come first.
FeaturesTrue ==
    \A i \in DOMAIN Line : Line[i].type = "features" =>
        /\ Line[i].tls = "Required" => ~encrypted /\ ~Line[i].bind /\ ~Line[i].session
        /\ Line[i].tls # "Required" /\ Line[i].mech = "none" /\ ~Line[i].legacy
              => authenticated

\* A pending redirection waits for the close.
RedirectWaits == redirectHost => tcp = "closing"

\* As long as the server listens and has refused nothing, it is somebody's turn.
Moving ==
    tcp = "connected" /\ server.state = "listening" /\ ~refused =>
        \/ securing \/ sessionStarted \/ ~NothingAsked
        \/ \E i \in DOMAIN Line : Reply(Line[i])

Knowledge == Awaited /\ Known /\ FeaturesTrue /\ RedirectWaits /\ Moving

StreamInv == Types /\ Turns /\ Knowledge

USE DEF socketVars, authVars, idVars, timerVars, linkVars, negotiationVars

-----------------------------------------------------------------------------
(* The line of what arrives.                                               *)

LEMMA LineIsSeq == ASSUME Types PROVE Line \in Seq(Stanzas)
  BY DEF Types, LinkTypes, Line

\* Nothing has arrived: all that is said of the line holds of it.
LEMMA LineEmpty ==
  ASSUME batch = <<>>, toClient = <<>> PROVE Line = <<>>
  BY DEF Line

\* Reading moves nothing in the line.
LEMMA LineRead ==
  ASSUME Types, SocketReadyRead
  PROVE  Line' = Line /\ batch' \in Seq(Stanzas) /\ toClient' \in Seq(Stanzas)
<1> SUFFICES ASSUME NEW n \in 1..Len(toClient), batch = <<>>,
                    batch' = SubSeq(toClient, 1, n),
                    toClient' = SubSeq(toClient, n + 1, Len(toClient))
             PROVE  Line' = Line /\ batch' \in Seq(Stanzas) /\ toClient' \in Seq(Stanzas)
  BY DEF SocketReadyRead
<1>1. toClient \in Seq(Stanzas)
  BY DEF Types, LinkTypes
<1>2. batch' \in Seq(Stanzas) /\ toClient' \in Seq(Stanzas)
  BY <1>1
<1>3. Line = toClient
  BY <1>1 DEF Line
<1>4. Line' = toClient
  <2> DEFINE a == SubSeq(toClient, 1, n)
             b == SubSeq(toClient, n + 1, Len(toClient))
  <2>1. a \in Seq(Stanzas) /\ Len(a) = n /\ \A i \in 1..n : a[i] = toClient[i]
    BY <1>1
  <2>2. b \in Seq(Stanzas) /\ Len(b) = Len(toClient) - n
        /\ \A i \in 1..(Len(toClient) - n) : b[i] = toClient[n + i]
    BY <1>1
  <2>3. a \o b \in Seq(Stanzas) /\ Len(a \o b) = Len(toClient)
    BY <1>1, <2>1, <2>2
  <2>4. \A i \in 1..Len(toClient) : (a \o b)[i] = toClient[i]
    BY <1>1, <2>1, <2>2
  <2>5. a \o b = toClient
    BY <1>1, <2>3, <2>4
  <2>6. QED
    BY <2>5 DEF Line
<1>5. QED
  BY <1>2, <1>3, <1>4

\* What arrives is added at its end.
LEMMA LineGrows ==
  ASSUME Types, NEW a \in Seq(Stanzas), batch' = batch, toClient' = toClient \o a
  PROVE  /\ Line' \in Seq(Stanzas) /\ toClient' \in Seq(Stanzas)
         /\ Len(Line') = Len(Line) + Len(a)
         /\ \A i \in DOMAIN Line : i \in DOMAIN Line' /\ Line'[i] = Line[i]
         /\ \A i \in DOMAIN Line' \ DOMAIN Line :
               i - Len(Line) \in DOMAIN a /\ Line'[i] = a[i - Len(Line)]
<1>1. batch \in Seq(Stanzas) /\ toClient \in Seq(Stanzas)
  BY DEF Types, LinkTypes
<1>2. Line \in Seq(Stanzas) /\ Len(Line) = Len(batch) + Len(toClient)
  BY <1>1 DEF Line
<1>3. toClient' \in Seq(Stanzas) /\ Len(toClient') = Len(toClient) + Len(a)
  BY <1>1
<1>4. Line' \in Seq(Stanzas) /\ Len(Line') = Len(batch) + Len(toClient')
  BY <1>1, <1>3 DEF Line
<1>5. \A i \in 1..Len(Line) : Line'[i] = Line[i]
  BY <1>1, <1>3 DEF Line
<1>6. \A i \in (Len(Line) + 1)..Len(Line') : Line'[i] = a[i - Len(Line)]
  BY <1>1, <1>2, <1>3, <1>4 DEF Line
<1>7. DOMAIN Line = 1..Len(Line) /\ DOMAIN Line' = 1..Len(Line') /\ DOMAIN a = 1..Len(a)
  BY <1>2, <1>4
<1>8. Len(Line') = Len(Line) + Len(a) /\ Len(Line) \in Nat /\ Len(a) \in Nat
  BY <1>1, <1>2, <1>3, <1>4
<1>9. ASSUME NEW i \in DOMAIN Line' \ DOMAIN Line
      PROVE  i - Len(Line) \in DOMAIN a /\ Line'[i] = a[i - Len(Line)]
  BY <1>6, <1>7, <1>8, <1>9
<1>10. \A i \in DOMAIN Line : i \in DOMAIN Line' /\ Line'[i] = Line[i]
  BY <1>5, <1>7, <1>8
<1>11. QED
  BY <1>3, <1>4, <1>8, <1>9, <1>10

\* What is handled leaves it at the front; a close takes away its end.
LEMMA LineDrops ==
  ASSUME Types, batch # <<>>, batch' = Tail(batch), toClient' \in {toClient, <<>>}
  PROVE  /\ batch' \in Seq(Stanzas) /\ toClient' \in Seq(Stanzas)
         /\ Line' \in Seq(Stanzas)
         /\ 1 \in DOMAIN Line /\ Line[1] = Head(batch) /\ Head(batch) \in Stanzas
         /\ Len(Line') + 1 \in DOMAIN Line
         /\ \A i \in DOMAIN Line' : i + 1 \in DOMAIN Line /\ Line'[i] = Line[i + 1]
         /\ toClient' = toClient =>
               \A i \in DOMAIN Line : i # 1 => i - 1 \in DOMAIN Line' /\ Line'[i - 1] = Line[i]
<1>1. batch \in Seq(Stanzas) /\ toClient \in Seq(Stanzas)
  BY DEF Types, LinkTypes
<1>2. /\ batch' \in Seq(Stanzas) /\ Len(batch') = Len(batch) - 1
      /\ \A i \in 1..Len(batch') : batch'[i] = batch[i + 1]
      /\ Len(batch) >= 1 /\ Head(batch) = batch[1] /\ Head(batch) \in Stanzas
  BY <1>1
<1>3. toClient' \in Seq(Stanzas) /\ Len(toClient') <= Len(toClient)
  <2>1. CASE toClient' = toClient
    BY <1>1, <2>1
  <2>2. CASE toClient' = <<>>
    BY <1>1, <2>2
  <2>3. QED
    BY <2>1, <2>2
<1>4. /\ Line \in Seq(Stanzas) /\ Len(Line) = Len(batch) + Len(toClient)
      /\ Line' \in Seq(Stanzas) /\ Len(Line') = Len(batch') + Len(toClient')
  BY <1>1, <1>2, <1>3 DEF Line
<1>5. Line[1] = Head(batch)
  BY <1>1, <1>2 DEF Line
<1>6. ASSUME NEW i \in 1..Len(Line') PROVE Line'[i] = Line[i + 1]
  <2>1. CASE i <= Len(batch')
    BY <1>1, <1>2, <1>3, <2>1 DEF Line
  <2>2. CASE i > Len(batch')
    <3>1. toClient' = toClient
      BY <1>4, <2>2
    <3>2. QED
      BY <1>1, <1>2, <1>3, <1>4, <2>2, <3>1 DEF Line
  <2>3. QED
    BY <1>4, <1>2, <2>1, <2>2
<1>7. DOMAIN Line = 1..Len(Line) /\ DOMAIN Line' = 1..Len(Line')
  BY <1>4
<1>8. /\ Len(Line) \in Nat /\ Len(Line') \in Nat /\ Len(Line') + 1 <= Len(Line)
      /\ toClient' = toClient => Len(Line') + 1 = Len(Line)
  <2> DEFINE b == Len(batch)  b1 == Len(batch')  c == Len(toClient)  c1 == Len(toClient')
             l == Len(Line)  l1 == Len(Line')
  <2>1. b \in Nat /\ c \in Nat /\ c1 \in Nat /\ b1 \in Nat /\ b1 + 1 = b /\ c1 <= c
    BY <1>1, <1>2, <1>3
  <2>2. toClient' = toClient => c1 = c
    OBVIOUS
  <2>3. l = b + c /\ l1 = b1 + c1
    BY <1>4
  <2> HIDE DEF b, b1, c, c1, l, l1
  <2>4. l \in Nat /\ l1 \in Nat /\ l1 + 1 <= l /\ (toClient' = toClient => l1 + 1 = l)
    BY <2>1, <2>2, <2>3
  <2>5. QED
    BY <2>4 DEF l, l1
<1>9. ASSUME NEW i \in DOMAIN Line' PROVE i + 1 \in DOMAIN Line /\ Line'[i] = Line[i + 1]
  <2> DEFINE l == Len(Line)  l1 == Len(Line')
  <2>1. l \in Nat /\ l1 \in Nat /\ l1 + 1 <= l /\ i \in 1..l1
    BY <1>7, <1>8, <1>9
  <2> HIDE DEF l, l1
  <2>2. i + 1 \in 1..l
    BY <2>1
  <2>3. QED
    BY <1>6, <1>7, <2>1, <2>2 DEF l, l1
<1>10. ASSUME toClient' = toClient, NEW i \in DOMAIN Line, i # 1
       PROVE  i - 1 \in DOMAIN Line' /\ Line'[i - 1] = Line[i]
  <2>1. i - 1 \in 1..Len(Line') /\ (i - 1) + 1 = i
    BY <1>7, <1>8, <1>10
  <2>2. QED
    BY <1>6, <1>7, <2>1
<1>11. Len(Line') + 1 \in DOMAIN Line /\ 1 \in DOMAIN Line
  <2> DEFINE l == Len(Line)  l1 == Len(Line')
  <2>1. l \in Nat /\ l1 \in Nat /\ l1 + 1 <= l
    BY <1>8
  <2> HIDE DEF l, l1
  <2>2. l1 + 1 \in 1..l /\ 1 \in 1..l
    BY <2>1
  <2>3. QED
    BY <1>7, <2>2 DEF l, l1
<1>12. QED
  BY <1>2, <1>3, <1>4, <1>5, <1>9, <1>10, <1>11

-----------------------------------------------------------------------------
(* What a handler may count on when it looks at the stanza x.              *)

LEMMA StanzaShape ==
  ASSUME NEW x \in Stanzas
  PROVE  /\ x.type = "features" => x \in Features
         /\ x.type = "header" => x.version \in BOOLEAN
         /\ x.type = "challenge" => x.bad \in BOOLEAN
         /\ x.type = "queryReply" => x.fields \in BOOLEAN
  BY DEF Stanzas, Features, Plain

LEMMA TurnFacts ==
  ASSUME Types, Turns, batch # <<>>, Turning(Head(batch))
  PROVE  /\ tcp = "connected" /\ ~securing /\ NothingAsked
         /\ Reply(Head(batch)) => ~sessionStarted
         /\ \A i \in DOMAIN Line : Turning(Line[i]) => i = 1
<1> DEFINE x == Head(batch)
<1>1. 1 \in DOMAIN Line /\ Line[1] = x
  BY DEF Types, LinkTypes, Line
<1>2. tcp = "connected" /\ ~securing /\ NothingAsked
  BY <1>1 DEF Turns, TurnIsUp, QuietWhileSecuring, NotBoth
<1>3. Reply(x) => ~sessionStarted
  BY <1>1, <1>2 DEF Turns, QuietInSession
<1>4. \A i \in DOMAIN Line : Turning(Line[i]) => i = 1
  BY <1>1 DEF Turns, OneAnswer
<1>5. QED
  BY <1>2, <1>3, <1>4

\* What the client knows when it looks at x.
Informed(x) ==
    /\ x \in Stanzas
    /\ Turning(x) => tcp = "connected" /\ ~securing
    /\ Reply(x) => ~sessionStarted
    /\ x.type \in {"success", "challenge", "failure"} => mech # "none"
    /\ x.type = "bindResult" => bindId /\ authenticated
    /\ x.type = "sessionReply" => sessionId /\ authenticated
    /\ x.type = "legacyResult" => nonSASLAuthId
    /\ x.type \in Refusals => refused
    /\ Turning(x) /\ x.type \notin {"success", "legacyResult"} /\ server.auth
          => authenticated
    /\ x.type = "features" =>
          /\ x.tls = "Required" => ~encrypted /\ ~x.bind /\ ~x.session
          /\ x.tls # "Required" /\ x.mech = "none" /\ ~x.legacy => authenticated

LEMMA AnswerFacts ==
  ASSUME StreamInv, batch # <<>> PROVE Informed(Head(batch))
<1> DEFINE x == Head(batch)
<1> USE DEF StreamInv, Knowledge
<1>1. 1 \in DOMAIN Line /\ Line[1] = x /\ x \in Stanzas
  BY DEF Types, LinkTypes, Line
<1>2. \A S : x.type \in S => Heard(S)
  BY <1>1 DEF Heard
<1>3. /\ x.type \in {"success", "challenge", "failure"} => mech # "none"
      /\ x.type = "bindResult" => bindId
      /\ x.type = "sessionReply" => sessionId
      /\ x.type = "legacyResult" => nonSASLAuthId
  BY <1>2 DEF Awaited
<1>4. /\ x.type \in {"bindResult", "sessionReply"} => authenticated
      /\ x.type \in Refusals => refused
  BY <1>2 DEF Known
<1>5. ASSUME Turning(x), x.type \notin {"success", "legacyResult"}, server.auth
      PROVE  authenticated
  <2>1. tcp = "connected" /\ \A i \in DOMAIN Line : Turning(Line[i]) => i = 1
    BY <1>5, TurnFacts
  <2>2. ~Heard({"success", "legacyResult"})
    BY <1>1, <1>5, <2>1 DEF Heard, Turning, Reply, Replies
  <2>3. QED
    BY <1>5, <2>1, <2>2 DEF Known
<1>6. x.type = "features" =>
               /\ x.tls = "Required" => ~encrypted /\ ~x.bind /\ ~x.session
               /\ x.tls # "Required" /\ x.mech = "none" /\ ~x.legacy => authenticated
  BY <1>1 DEF FeaturesTrue
<1>7. /\ Turning(x) => tcp = "connected" /\ ~securing
      /\ Reply(x) => ~sessionStarted
  BY TurnFacts DEF Turning
<1>8. QED
  BY <1>1, <1>3, <1>4, <1>5, <1>6, <1>7 DEF Informed

-----------------------------------------------------------------------------
(* What a handler may do of what the turns depend on.                      *)

StaysUp == UNCHANGED <<tcp, encrypted, redirectHost, toClient, server, refused>>

\* It makes a request, and notes which answer it awaits.
Asks(m) ==
    /\ StaysUp /\ UNCHANGED <<securing, pingTimer>>
    /\ toServer' = Append(toServer, m)
    /\ ~sessionStarted /\ ~sessionStarted'
    /\ server.auth => authenticated'
    /\ m \in {"auth", "response"} => mech' # "none"
    /\ m = "bind" => bindId' /\ authenticated'
    /\ m = "session" => sessionId' /\ authenticated'
    /\ m = "legacyAuth" => nonSASLAuthId'

Secures ==
    /\ StaysUp /\ securing' = TRUE /\ ~sessionStarted /\ ~sessionStarted'
    /\ server.auth => authenticated
    /\ UNCHANGED <<toServer, mech, authenticated, bindId, sessionId, nonSASLAuthId,
                   pingTimer>>

HasSession ==
    /\ StaysUp /\ UNCHANGED <<securing, toServer>>
    /\ ~sessionStarted /\ sessionStarted' = TRUE /\ pingTimer' = TRUE
    /\ server.auth => authenticated'

Ignores ==
    /\ StaysUp
    /\ UNCHANGED <<securing, toServer, mech, authenticated, bindId, sessionId,
                   nonSASLAuthId, sessionStarted, pingTimer>>

\* A close begins.
Shuts ==
    /\ toClient' = <<>>
    /\ tcp' = CASE tcp = "connected" -> "closing"
                [] tcp = "connecting" -> "aborting"
                [] OTHER -> tcp
    /\ redirectHost' => tcp' = "closing"
    /\ redirectHost' = redirectHost \/ tcp = "connected"
    /\ UNCHANGED <<encrypted, securing, toServer, server, refused, mech, authenticated,
                   bindId, sessionId, nonSASLAuthId, sessionStarted, pingTimer>>

\* A connection has ended.
Ended ==
    /\ toClient' = <<>> /\ toServer' = <<>> /\ server' = NoServer
    /\ tcp \in {"connected", "closing"}
    /\ \/ tcp' = "unconnected" /\ ~redirectHost /\ pingTimer' = FALSE
       \/ /\ tcp' = "connecting" /\ pingTimer' = pingTimer
          /\ tcp = "closing" <=> redirectHost
    /\ encrypted' = FALSE /\ securing' = FALSE /\ ~authenticated' /\ redirectHost' = FALSE
    /\ refused' = FALSE
    /\ UNCHANGED <<mech, bindId, sessionId, nonSASLAuthId, sessionStarted>>

Takes ==
    \/ \E m \in ClientSays \ {"ping"} : Asks(m)
    \/ Secures \/ HasSession
    \/ Ignores /\ refused /\ (server.auth => authenticated)
    \/ Shuts \/ Ended

LEMMA RedirectFacts ==
  ASSUME StreamInv
  PROVE  redirectHost \in BOOLEAN /\ (redirectHost => tcp = "closing")
  BY DEF StreamInv, Knowledge, RedirectWaits, Types, FlagTypes

LEMMA DisconnectCases ==
  ASSUME StreamInv, NEW t \in BOOLEAN, DisconnectFromHost(t), NotStarted, nonSASLAuthId' = nonSASLAuthId
  PROVE  Shuts \/ Ended
<1>1. redirectHost => tcp = "closing"
  BY DEF StreamInv, Knowledge, RedirectWaits
<1>2. CASE tcp = "connected" /\ SocketDisconnected(t)
  BY <1>1, <1>2 DEF SocketDisconnected, Ended, NotStarted
<1>3. CASE ~(tcp = "connected" /\ SocketDisconnected(t))
  BY <1>1, <1>3 DEF DisconnectFromHost, Shuts, NotStarted
<1>4. QED
  BY <1>2, <1>3

\* A request of the client on a stream that is up.
LEMMA SendAsks ==
  ASSUME NEW m \in ClientSays \ {"ping"}, OnlySends(m), tcp = "connected",
         ~sessionStarted, ~sessionStarted', server.auth => authenticated,
         m \in {"auth", "response"} => mech' # "none",
         m = "bind" => bindId' /\ authenticated,
         m = "session" => sessionId' /\ authenticated,
         m = "legacyAuth" => nonSASLAuthId'
  PROVE  Takes
<1>1. Asks(m)
  BY DEF OnlySends, Send, Asks, StaysUp
<1>2. QED
  BY <1>1 DEF Takes

LEMMA FeaturesKind ==
  ASSUME StreamInv, NEW x, Informed(x), HandleFeatures(x)
  PROVE  Takes
<1>1. /\ x.type = "features" /\ tcp = "connected" /\ (server.auth => authenticated)
      /\ ~sessionStarted
      /\ Tls(x) = "go on" /\ x.mech = "none" /\ ~x.legacy /\ (x.bind \/ x.session)
            => authenticated
  BY DEF HandleFeatures, Informed, Turning, Reply, Replies
<1> USE DEF ClientSays
<1>2. CASE GivesUp /\ NotStarted /\ UNCHANGED nonSASLAuthId
  BY <1>2, DisconnectCases DEF GivesUp, Takes
<1>3. CASE NotStarted /\ OnlySends("starttls")
  BY <1>1, <1>3, SendAsks DEF NotStarted
<1>4. CASE NotStarted /\ OnlySends("query")
  BY <1>1, <1>4, SendAsks DEF NotStarted
<1>5. CASE x.mech \in Mechanisms /\ mech' = x.mech /\ OnlySends("auth") /\ UNCHANGED idVars
  BY <1>1, <1>5, SendAsks, MechanismsAssumption
<1>6. CASE Tls(x) = "go on" /\ x.mech = "none" /\ ~x.legacy /\ AfterFeatures(x)
  <2>1. CASE x.bind /\ bindId' = TRUE /\ UNCHANGED <<sessionId, sessionStarted>> /\ OnlySends("bind")
    BY <1>1, <1>6, <2>1, SendAsks
  <2>2. CASE ~x.bind /\ x.session /\ sessionId' = TRUE /\ sessionStarted' = sessionStarted /\ OnlySends("session")
    BY <1>1, <1>6, <2>2, SendAsks
  <2>3. CASE authenticated' = authenticated /\ Connected
    BY <1>1, <2>3 DEF Connected, HasSession, StaysUp, Takes
  <2>4. QED
    BY <1>6, <2>1, <2>2, <2>3 DEF AfterFeatures
<1>7. QED
  BY <1>2, <1>3, <1>4, <1>5, <1>6 DEF HandleFeatures

LEMMA HandlerKind ==
  ASSUME StreamInv, NEW x, Informed(x),
         \/ HandleStream(x) \/ HandleFeatures(x) \/ HandleProceed(x)
         \/ HandleSuccess(x) \/ HandleChallenge(x) \/ HandleFailure(x)
         \/ HandleSessionReply(x) \/ HandleBindResult(x)
         \/ HandleLegacyResult(x) \/ HandleQueryReply(x)
         \/ HandleSeeOtherHost(x) \/ HandleOther(x)
  PROVE  \/ Turning(x) /\ Takes
         \/ ~Turning(x) /\ Ignores
<1> USE DEF ClientSays
<1>1. /\ x \in Stanzas /\ (Turning(x) => tcp = "connected" /\ ~securing)
      /\ Reply(x) => ~sessionStarted
  BY DEF Informed
<1>2. /\ x.type \in Replies \cup {"seeOther"} => Turning(x)
      /\ x.type \in Replies => ~sessionStarted
  BY <1>1 DEF Turning, Reply
<1>3. Turning(x) /\ x.type \notin {"success", "legacyResult"} /\ server.auth => authenticated
  BY DEF Informed
<1>4. CASE HandleStream(x)
  <2>1. CASE x.version /\ UNCHANGED toServer
    BY <1>4, <2>1 DEF HandleStream, NotStarted, Turning, Reply, Replies, Ignores, StaysUp
  <2>2. CASE ~x.version /\ Send("query")
    <3>1. Turning(x) /\ ~sessionStarted
      BY <1>1, <1>4, <2>2 DEF HandleStream, Turning, Reply
    <3>2. Asks("query")
      BY <1>1, <1>3, <1>4, <2>2, <3>1 DEF HandleStream, Send, NotStarted, Asks, StaysUp
    <3>3. QED
      BY <3>1, <3>2 DEF Takes
  <2>3. QED
    BY <1>4, <2>1, <2>2 DEF HandleStream
<1>5. CASE HandleProceed(x)
  <2>1. Secures
    BY <1>2, <1>3, <1>5 DEF Replies, HandleProceed, NotStarted, Secures, StaysUp
  <2>2. QED
    BY <1>2, <1>5, <2>1 DEF HandleProceed, Takes, Replies
<1>6. CASE HandleSuccess(x)
  <2>1. x.type = "success" /\ Turning(x) /\ mech # "none" /\ ~sessionStarted
    BY <1>2, <1>6 DEF HandleSuccess, Informed, Replies
  <2>2. Asks("header")
    BY <1>6, <2>1 DEF HandleSuccess, HandleStart, Asks, StaysUp
  <2>3. QED
    BY <2>1, <2>2 DEF Takes
<1>7. CASE HandleChallenge(x)
  <2>1. x.type = "challenge" /\ Turning(x) /\ tcp = "connected" /\ (server.auth => authenticated)
        /\ ~sessionStarted
    BY <1>1, <1>2, <1>3, <1>7 DEF HandleChallenge, Replies
  <2>2. CASE OnlySends("response") /\ UNCHANGED <<mech, idVars>>
    BY <1>7, <2>1, <2>2, SendAsks DEF HandleChallenge
  <2>3. CASE GivesUp /\ NotStarted /\ UNCHANGED nonSASLAuthId
    BY <2>1, <2>3, DisconnectCases DEF GivesUp, Takes
  <2>4. QED
    BY <1>7, <2>2, <2>3 DEF HandleChallenge
<1>8. CASE HandleFailure(x)
  BY <1>2, <1>8, DisconnectCases DEF HandleFailure, GivesUp, Takes, Replies
<1>9. CASE HandleSessionReply(x)
  <2>1. x.type = "sessionReply" /\ Turning(x) /\ authenticated /\ ~sessionStarted
    BY <1>2, <1>9 DEF HandleSessionReply, Replies, Informed
  <2>2. HasSession
    BY <1>9, <2>1 DEF HandleSessionReply, Connected, HasSession, StaysUp
  <2>3. QED
    BY <2>1, <2>2 DEF Takes
<1>10. CASE HandleBindResult(x)
  <2>1. x.type = "bindResult" /\ Turning(x) /\ tcp = "connected" /\ authenticated
        /\ ~sessionStarted
    BY <1>1, <1>2, <1>10 DEF HandleBindResult, Replies, Informed
  <2>2. CASE sessionId' = TRUE /\ UNCHANGED sessionStarted /\ OnlySends("session")
    BY <1>10, <2>1, <2>2, SendAsks DEF HandleBindResult
  <2>3. CASE authenticated' = authenticated /\ Connected
    BY <2>1, <2>3 DEF Connected, HasSession, StaysUp, Takes
  <2>4. QED
    BY <1>10, <2>2, <2>3 DEF HandleBindResult
<1>11. CASE HandleLegacyResult(x)
  <2>1. x.type = "legacyResult" /\ Turning(x) /\ ~sessionStarted
    BY <1>2, <1>11 DEF HandleLegacyResult, Replies
  <2>2. HasSession
    BY <1>11, <2>1 DEF HandleLegacyResult, Connected, HasSession, StaysUp
  <2>3. QED
    BY <2>1, <2>2 DEF Takes
<1>12. CASE HandleQueryReply(x)
  <2>1. x.type = "queryReply" /\ Turning(x) /\ tcp = "connected" /\ (server.auth => authenticated)
        /\ ~sessionStarted
    BY <1>1, <1>2, <1>3, <1>12 DEF HandleQueryReply, Replies
  <2>2. CASE nonSASLAuthId' = TRUE /\ OnlySends("legacyAuth")
    BY <1>12, <2>1, <2>2, SendAsks DEF HandleQueryReply, NotStarted
  <2>3. CASE UNCHANGED nonSASLAuthId /\ GivesUp
    BY <1>12, <2>1, <2>3, DisconnectCases DEF HandleQueryReply, GivesUp, Takes
  <2>4. QED
    BY <1>12, <2>2, <2>3 DEF HandleQueryReply
<1>13. CASE HandleSeeOtherHost(x)
  <2>1. x.type = "seeOther" /\ Turning(x) /\ tcp = "connected"
    BY <1>1, <1>2, <1>13 DEF HandleSeeOtherHost
  <2>2. Shuts \/ Ended
    BY <1>13, <2>1, RedirectFacts DEF HandleSeeOtherHost, NotStarted, Shuts, Ended
  <2>3. QED
    BY <2>1, <2>2 DEF Takes
<1>14. CASE HandleOther(x)
  <2>1. Ignores
    BY <1>14 DEF HandleOther, NotStarted, Ignores, StaysUp
  <2>2. Turning(x) => refused
    BY <1>14 DEF HandleOther, Informed, Turning, Reply, Replies, Refusals
  <2>3. Turning(x) => (server.auth => authenticated)
    BY <1>3, <1>14 DEF HandleOther
  <2>4. QED
    BY <2>1, <2>2, <2>3 DEF Takes
<1>15. CASE HandleFeatures(x)
  BY <1>2, <1>15, FeaturesKind DEF HandleFeatures, Replies
<1>16. QED
  BY <1>4, <1>5, <1>6, <1>7, <1>8, <1>9, <1>10, <1>11, <1>12, <1>13, <1>14, <1>15

\* Each handler does one of these, and ignores all that does not give it its
\* turn.
LEMMA HandlerKinds ==
  ASSUME StreamInv, HandleStanza
  PROVE  \/ Turning(Head(batch)) /\ Takes
         \/ ~Turning(Head(batch)) /\ Ignores
  BY HandlerKind, AnswerFacts DEF HandleStanza

-----------------------------------------------------------------------------
(* The steps keep the turns.                                               *)

\* What is left of the line once the answer at its head has been taken.
Hushed ==
    /\ \A i \in DOMAIN Line' : ~Turning(Line'[i])
    /\ \A i \in DOMAIN Line' : Line'[i].type \in LastWords => i = Len(Line')

LEMMA QuietTells ==
  ASSUME Hushed, NEW S, S \subseteq Replies PROVE ~Heard(S)'
  BY DEF Hushed, Heard, Turning, Reply

LEMMA QuietTurns ==
  ASSUME Hushed
  PROVE  /\ OneAnswer' /\ NotBoth' /\ TurnIsUp' /\ FeaturesTrue'
         /\ ~Heard({"success", "challenge", "failure"})' /\ ~Heard({"bindResult"})'
         /\ ~Heard({"sessionReply"})' /\ ~Heard({"legacyResult"})'
         /\ ~Heard({"success", "legacyResult"})' /\ ~Heard({"bindResult", "sessionReply"})'
         /\ ~Heard(Refusals)'
<1>1. OneAnswer' /\ NotBoth' /\ TurnIsUp'
  BY DEF Hushed, OneAnswer, NotBoth, TurnIsUp
<1>2. FeaturesTrue'
  BY DEF Hushed, FeaturesTrue, Turning, Reply, Replies
<1>3. QED
  BY <1>1, <1>2, QuietTells DEF Replies, Refusals

\* The first stanza is taken by a handler that has its turn.
LEMMA TakenLine ==
  ASSUME StreamInv, batch # <<>>, batch' = Tail(batch), toClient' \in {toClient, <<>>},
         Turning(Head(batch))
  PROVE  /\ Hushed /\ NothingAsked /\ ~securing /\ tcp = "connected"
         /\ \A i \in DOMAIN Line' : Line'[i].type \in LastWords => server.state # "listening"
<1> USE DEF StreamInv
<1>1. NothingAsked /\ ~securing /\ tcp = "connected"
      /\ \A i \in DOMAIN Line : Turning(Line[i]) => i = 1
  BY TurnFacts
<1>2. \A i \in DOMAIN Line' : i + 1 \in DOMAIN Line /\ Line'[i] = Line[i + 1]
  BY LineDrops
<1>3. /\ Line \in Seq(Stanzas) /\ Line' \in Seq(Stanzas)
      /\ Len(Line') + 1 \in DOMAIN Line
  BY LineDrops, LineIsSeq
<1>4. \A i \in DOMAIN Line' : ~Turning(Line'[i])
  BY <1>1, <1>2, <1>3
<1>5. ASSUME NEW i \in DOMAIN Line', Line'[i].type \in LastWords
      PROVE  i = Len(Line') /\ server.state # "listening"
  <2>1. i + 1 = Len(Line) /\ server.state # "listening"
    BY <1>1, <1>2, <1>5 DEF Turns, LastIsLast
  <2>2. i \in 1..Len(Line') /\ Len(Line') + 1 \in 1..Len(Line) /\ Len(Line') \in Nat /\ Len(Line) \in Nat
    BY <1>3
  <2>3. QED
    BY <2>1, <2>2
<1>6. QED
  BY <1>1, <1>4, <1>5 DEF Hushed

\* A request is made on a line that is quiet, by whoever has the turn.
LEMMA AskedOne ==
  ASSUME Types, NothingAsked, NEW m \in ClientSays \ {"ping"}, toServer' = Append(toServer, m)
  PROVE  /\ OneRequest' /\ ~NothingAsked'
         /\ \A S : "ping" \notin S => (Asked(S)' <=> m \in S)
<1>1. toServer \in Seq(ClientSays)
  BY DEF Types, LinkTypes
<1>2. /\ DOMAIN toServer' = 1..(Len(toServer) + 1) /\ Len(toServer) \in Nat
      /\ toServer'[Len(toServer) + 1] = m
      /\ \A i \in 1..Len(toServer) : toServer'[i] = toServer[i]
      /\ DOMAIN toServer = 1..Len(toServer)
  BY <1>1
<1>3. \A i \in 1..Len(toServer) : toServer'[i] = "ping"
  BY <1>2 DEF NothingAsked, Requests
<1>4. \A i \in DOMAIN toServer' : Requests(toServer'[i]) <=> i = Len(toServer) + 1
  BY <1>2, <1>3 DEF Requests
<1>5. OneRequest' /\ ~NothingAsked'
  BY <1>2, <1>4 DEF OneRequest, NothingAsked
<1>6. \A S : "ping" \notin S => (Asked(S)' <=> m \in S)
  BY <1>2, <1>3 DEF Asked
<1>7. QED
  BY <1>5, <1>6

LEMMA NothingAskedNow ==
  ASSUME NothingAsked'
  PROVE  OneRequest' /\ \A S : "ping" \notin S => ~Asked(S)'
  BY DEF NothingAsked, OneRequest, Asked, Requests

LEMMA AskKept ==
  ASSUME Types, Hushed, NothingAsked, NEW m \in ClientSays \ {"ping"}, Asks(m),
         tcp = "connected", ~securing, ~redirectHost, server.tls = encrypted,
         \A i \in DOMAIN Line' : Line'[i].type \in LastWords => server.state # "listening"
  PROVE  Turns' /\ Knowledge'
<1>1. /\ OneRequest' /\ ~NothingAsked'
      /\ \A S : "ping" \notin S => (Asked(S)' <=> m \in S)
  BY AskedOne DEF Asks
<1>2. QuietWhileSecuring' /\ QuietInSession'
  BY DEF Asks, QuietWhileSecuring, QuietInSession
<1>7. LastIsLast'
  BY DEF Asks, StaysUp, LastIsLast, Hushed
<1>3. Awaited'
  BY <1>1, QuietTurns DEF Asks, Awaited
<1>4. Known'
  BY <1>1, QuietTurns DEF Asks, StaysUp, Known
<1>5. RedirectWaits' /\ Moving'
  BY <1>1 DEF Asks, StaysUp, RedirectWaits, Moving
<1>6. QED
  BY <1>1, <1>2, <1>7, <1>3, <1>4, <1>5, QuietTurns DEF Knowledge, Turns

LEMMA CloseKept ==
  ASSUME StreamInv, Hushed, Shuts \/ Ended
  PROVE  Turns' /\ Knowledge'
<1> USE DEF StreamInv
<1>1. CASE Shuts
  <2>1. tcp' # "connected"
    BY <1>1 DEF Shuts
  <2>2. OneRequest' /\ QuietWhileSecuring'
    BY <1>1, QuietTurns DEF Shuts, Turns, OneRequest, QuietWhileSecuring, NothingAsked, Hushed
  <2>3. Turns'
    BY <2>1, <2>2, QuietTurns DEF Turns, QuietInSession, LastIsLast, Hushed
  <2>4. \A S : Asked(S)' <=> Asked(S)
    BY <1>1 DEF Shuts, Asked
  <2>5. Awaited' /\ Known' /\ RedirectWaits' /\ Moving'
    BY <1>1, <2>1, <2>4, QuietTurns DEF Shuts, Knowledge, Awaited, Known, RedirectWaits, Moving
  <2>6. QED
    BY <2>3, <2>5, QuietTurns DEF Knowledge
<1>2. CASE Ended
  <2>1. tcp' # "connected" /\ NothingAsked'
    BY <1>2 DEF Ended, NothingAsked
  <2>2. OneRequest' /\ \A S : "ping" \notin S => ~Asked(S)'
    BY <2>1, NothingAskedNow
  <2>3. Turns'
    BY <1>2, <2>1, <2>2, QuietTurns DEF Ended, Turns, QuietInSession, QuietWhileSecuring, LastIsLast, Hushed
  <2>4. Awaited' /\ Known' /\ RedirectWaits' /\ Moving'
    BY <1>2, <2>1, <2>2, QuietTurns DEF Ended, NoServer, Awaited, Known, RedirectWaits, Moving
  <2>5. QED
    BY <2>3, <2>4, QuietTurns DEF Knowledge
<1>3. QED
  BY <1>1, <1>2

\* Encryption that comes up, or a session, is the next turn.
LEMMA OtherwiseKept ==
  ASSUME StreamInv, Hushed, NothingAsked, tcp = "connected", ~securing,
         Secures \/ HasSession \/ (Ignores /\ refused /\ (server.auth => authenticated)),
         \A i \in DOMAIN Line' : Line'[i].type \in LastWords => server.state # "listening"
  PROVE  Turns' /\ Knowledge'
<1> USE DEF StreamInv
<1>1. StaysUp /\ toServer' = toServer
  BY DEF Secures, HasSession, Ignores
<1>2. NothingAsked'
  BY <1>1 DEF NothingAsked
<1>3. OneRequest' /\ \A S : "ping" \notin S => ~Asked(S)'
  BY <1>2, NothingAskedNow
<1>4. LastIsLast'
  BY <1>1 DEF StaysUp, LastIsLast, Hushed
<1>5. QuietWhileSecuring' /\ QuietInSession'
  BY <1>2 DEF Hushed, QuietWhileSecuring, QuietInSession, Turning, Secures, HasSession, Ignores
<1>6. Turns'
  BY <1>3, <1>4, <1>5, QuietTurns DEF Turns
<1>7. Awaited'
  BY <1>3, QuietTurns DEF Awaited
<1>8. Known'
  BY <1>1, <1>3, QuietTurns DEF Known, Knowledge, StaysUp, Secures, HasSession, Ignores
<1>9. RedirectWaits' /\ Moving'
  BY <1>1 DEF StaysUp, RedirectWaits, Knowledge, Moving, Secures, HasSession, Ignores
<1>10. QED
  BY <1>6, <1>7, <1>8, <1>9, QuietTurns DEF Knowledge

\* A stanza that is nobody's turn leaves the line and changes nothing else.
LEMMA IgnoreKept ==
  ASSUME StreamInv, batch # <<>>, batch' = Tail(batch), ~Turning(Head(batch)), Ignores
  PROVE  Turns' /\ Knowledge'
<1> USE DEF StreamInv, Ignores, StaysUp
<1>1. /\ Line[1] = Head(batch)
      /\ Line \in Seq(Stanzas) /\ Line' \in Seq(Stanzas)
      /\ Len(Line') + 1 \in DOMAIN Line
      /\ \A i \in DOMAIN Line' : i + 1 \in DOMAIN Line /\ Line'[i] = Line[i + 1]
      /\ \A i \in DOMAIN Line : i # 1 => i - 1 \in DOMAIN Line' /\ Line'[i - 1] = Line[i]
  BY LineDrops, LineIsSeq
<1>2. DOMAIN Line' \subseteq Nat /\ DOMAIN Line \subseteq Nat
  BY <1>1
<1>3. \A S : Asked(S)' <=> Asked(S)
  BY DEF Asked
<1>4. NothingAsked' <=> NothingAsked
  BY DEF NothingAsked
<1>5. OneAnswer'
  BY <1>1, <1>2 DEF Turns, OneAnswer
<1>6. OneRequest' /\ NotBoth' /\ QuietWhileSecuring' /\ QuietInSession' /\ TurnIsUp'
  BY <1>1, <1>4 DEF Turns, OneRequest, NotBoth, QuietWhileSecuring, QuietInSession, TurnIsUp
<1>7. ASSUME NEW i \in DOMAIN Line', Line'[i].type \in LastWords
      PROVE  i = Len(Line') /\ (tcp = "connected" => server.state # "listening")
  <2>1. i + 1 = Len(Line) /\ (tcp = "connected" => server.state # "listening")
    BY <1>1, <1>7 DEF Turns, LastIsLast
  <2>2. i \in 1..Len(Line') /\ Len(Line') + 1 \in 1..Len(Line) /\ Len(Line') \in Nat /\ Len(Line) \in Nat
    BY <1>1
  <2>3. QED
    BY <2>1, <2>2
<1>8. Turns'
  BY <1>5, <1>6, <1>7 DEF Turns, LastIsLast
<1>9. ASSUME NEW S PROVE /\ Heard(S)' => Heard(S)
                         /\ Heard(S) /\ S \subseteq Replies => Heard(S)'
  BY <1>1 DEF Heard, Turning, Reply
<1>10. Awaited'
  BY <1>3, <1>9 DEF Awaited, Knowledge
<1>11. Known'
  BY <1>3, <1>9 DEF Known, Knowledge, Replies
<1>12. FeaturesTrue' /\ RedirectWaits'
  BY <1>1 DEF FeaturesTrue, RedirectWaits, Knowledge
<1>13. (\E i \in DOMAIN Line : Reply(Line[i])) => \E i \in DOMAIN Line' : Reply(Line'[i])
  BY <1>1 DEF Turning
<1>14. Moving'
  BY <1>4, <1>13 DEF Moving, Knowledge
<1>15. QED
  BY <1>8, <1>10, <1>11, <1>12, <1>14 DEF Knowledge

LEMMA HandleKept ==
  ASSUME StreamInv, HandleStanza PROVE Turns' /\ Knowledge'
<1>1. batch # <<>> /\ batch' = Tail(batch)
  BY DEF HandleStanza
<1>2. CASE ~Turning(Head(batch)) /\ Ignores
  BY <1>1, <1>2, IgnoreKept
<1>3. CASE Turning(Head(batch)) /\ Takes
  <2>1. toClient' \in {toClient, <<>>}
    BY <1>3 DEF Takes, Asks, Secures, HasSession, Ignores, StaysUp, Shuts, Ended
  <2>2. /\ Hushed /\ NothingAsked /\ ~securing /\ tcp = "connected"
        /\ \A i \in DOMAIN Line' : Line'[i].type \in LastWords => server.state # "listening"
    BY <1>1, <1>3, <2>1, TakenLine
  <2>3. CASE \E m \in ClientSays \ {"ping"} : Asks(m)
    <3>1. PICK m \in ClientSays \ {"ping"} : Asks(m)
      BY <2>3
    <3>2. ~redirectHost /\ server.tls = encrypted /\ ~sessionStarted' /\ Types
      BY <2>2, <3>1 DEF StreamInv, Knowledge, RedirectWaits, Known, Asks
    <3>3. QED
      BY <2>2, <3>1, <3>2, AskKept
  <2>4. CASE Shuts \/ Ended
    BY <2>2, <2>4, CloseKept
  <2>5. CASE Secures \/ HasSession \/ (Ignores /\ refused /\ (server.auth => authenticated))
    BY <2>2, <2>5, OtherwiseKept
  <2>6. QED
    BY <1>3, <2>3, <2>4, <2>5 DEF Takes
<1>4. QED
  BY <1>2, <1>3, HandlerKinds

-----------------------------------------------------------------------------
(* The types.                                                              *)

LEMMA DisconnectTypes ==
  ASSUME Types, NEW t \in BOOLEAN, DisconnectFromHost(t)
  PROVE  /\ authenticated' \in BOOLEAN
         /\ {redirectHost', pingTimer', timeoutTimer'} \subseteq BOOLEAN
  BY DEF Types, AuthTypes, FlagTypes, DisconnectFromHost, SocketDisconnected

LEMMA HandleAuthTypes ==
  ASSUME StreamInv, HandleStanza PROVE AuthTypes'
<1> DEFINE x == Head(batch)
<1>0. AuthTypes
  BY DEF StreamInv, Types
<1>1. UNCHANGED authVars => AuthTypes'
  BY <1>0 DEF AuthTypes
<1>2. UNCHANGED <<mech, step>> /\ authenticated' \in BOOLEAN => AuthTypes'
  BY <1>0 DEF AuthTypes
<1>3. HandleStream(x) \/ HandleProceed(x) \/ HandleSessionReply(x) \/ HandleOther(x)
        => UNCHANGED authVars
  BY DEF HandleStream, HandleProceed, HandleSessionReply, HandleOther, NotStarted
<1>4. CASE HandleFailure(x) \/ HandleQueryReply(x) \/ HandleSeeOtherHost(x)
  BY <1>0, <1>2, <1>4, DisconnectTypes
     DEF HandleFailure, HandleQueryReply, HandleSeeOtherHost, OnlySends, GivesUp,
         NotStarted, StreamInv, AuthTypes
<1>5. CASE HandleBindResult(x) \/ HandleLegacyResult(x)
  BY <1>0, <1>2, <1>5 DEF HandleBindResult, HandleLegacyResult, OnlySends, AuthTypes
<1>6. CASE HandleSuccess(x)
  BY <1>0, <1>6 DEF HandleSuccess, HandleStart, NotStarted, AuthTypes
<1>7. CASE HandleChallenge(x)
  <2>1. CASE GivesUp /\ NotStarted
    BY <1>0, <1>2, <2>1, DisconnectTypes DEF GivesUp, NotStarted, StreamInv
  <2>2. CASE step < Rounds[mech] /\ step' = step + 1 /\ OnlySends("response") /\ mech' = mech
    <3>1. mech \in Mechanisms /\ Rounds[mech] \in Nat /\ step \in 1..Rounds[mech]
      BY <1>0, <1>7, MechanismsAssumption DEF AuthTypes, HandleChallenge
    <3>2. step' \in 1..Rounds[mech]
      BY <2>2, <3>1
    <3>3. QED
      BY <1>0, <1>7, <2>2, <3>1, <3>2 DEF AuthTypes, OnlySends, HandleChallenge
  <2>3. QED
    BY <1>7, <2>1, <2>2 DEF HandleChallenge
<1>8. CASE HandleFeatures(x)
  <2>1. CASE GivesUp /\ NotStarted
    BY <1>0, <1>2, <2>1, DisconnectTypes DEF GivesUp, NotStarted, StreamInv
  <2>2. CASE NotStarted /\ (OnlySends("starttls") \/ OnlySends("query"))
    BY <1>0, <1>2, <2>2 DEF OnlySends, NotStarted, AuthTypes
  <2>3. CASE x.mech \in Mechanisms /\ mech' = x.mech /\ step' = 1 /\ OnlySends("auth")
    <3>1. 1 \in 1..Rounds[mech'] /\ mech' # "none"
      BY <2>3, MechanismsAssumption
    <3>2. QED
      BY <1>0, <2>3, <3>1 DEF OnlySends, AuthTypes
  <2>4. CASE AfterFeatures(x)
    BY <1>0, <1>2, <2>4 DEF AfterFeatures, OnlySends, AuthTypes
  <2>5. QED
    BY <1>8, <2>1, <2>2, <2>3, <2>4 DEF HandleFeatures
<1>9. QED
  BY <1>1, <1>3, <1>4, <1>5, <1>6, <1>7, <1>8 DEF HandleStanza

LEMMA HandleFlagTypes ==
  ASSUME StreamInv, HandleStanza PROVE FlagTypes'
<1> DEFINE x == Head(batch)
<1>0. FlagTypes
  BY DEF StreamInv, Types
<1>1. x \in Stanzas
  BY AnswerFacts DEF Informed, HandleStanza
<1> DEFINE Ids == {bindId', sessionId', nonSASLAuthId', sessionAvailable', sessionStarted'} \subseteq BOOLEAN
           Timers == {redirectHost', pingTimer', timeoutTimer'} \subseteq BOOLEAN
<1>2. Ids /\ Timers => FlagTypes'
  BY DEF FlagTypes
<1>3. NotStarted /\ nonSASLAuthId' = nonSASLAuthId => Ids
  BY <1>0 DEF NotStarted, FlagTypes
<1>4. (\E m \in ClientSays : OnlySends(m)) => Timers
  BY <1>0 DEF OnlySends, FlagTypes
<1>5. GivesUp => Timers
  BY DisconnectTypes DEF GivesUp, StreamInv
<1>6. CASE HandleStream(x) \/ HandleProceed(x) \/ HandleOther(x) \/ HandleSeeOtherHost(x)
  BY <1>0, <1>2, <1>3, <1>6 DEF HandleStream, HandleProceed, HandleOther, HandleSeeOtherHost, FlagTypes
<1>7. CASE HandleSuccess(x)
  BY <1>0, <1>2, <1>3, <1>7 DEF HandleSuccess, HandleStart, FlagTypes
<1>8. CASE HandleChallenge(x) \/ HandleFailure(x)
  BY <1>0, <1>2, <1>3, <1>4, <1>5, <1>8 DEF HandleChallenge, HandleFailure, NotStarted, FlagTypes, ClientSays
<1>9. CASE HandleSessionReply(x) \/ HandleLegacyResult(x)
  BY <1>0, <1>2, <1>9 DEF HandleSessionReply, HandleLegacyResult, Connected, FlagTypes
<1>10. CASE HandleBindResult(x)
  BY <1>0, <1>2, <1>4, <1>10 DEF HandleBindResult, Connected, FlagTypes, ClientSays
<1>11. CASE HandleQueryReply(x)
  BY <1>0, <1>2, <1>3, <1>4, <1>5, <1>11 DEF HandleQueryReply, NotStarted, FlagTypes, ClientSays
<1>12. CASE HandleFeatures(x)
  <2>1. CASE /\ NotStarted /\ nonSASLAuthId' = nonSASLAuthId
             /\ GivesUp \/ OnlySends("starttls") \/ OnlySends("query")
    BY <1>2, <1>3, <1>4, <1>5, <2>1 DEF ClientSays
  <2>2. CASE OnlySends("auth") /\ UNCHANGED idVars
    BY <1>0, <1>2, <1>4, <2>2 DEF FlagTypes, ClientSays
  <2>3. CASE AfterFeatures(x)
    <3>1. x.session \in BOOLEAN
      BY <1>1, <1>12, StanzaShape DEF HandleFeatures, Features
    <3>2. QED
      BY <1>0, <1>2, <1>4, <2>3, <3>1 DEF AfterFeatures, Connected, FlagTypes, ClientSays
  <2>4. QED
    BY <1>12, <2>1, <2>2, <2>3 DEF HandleFeatures
<1>13. QED
  BY <1>6, <1>7, <1>8, <1>9, <1>10, <1>11, <1>12 DEF HandleStanza

\* The socket and what is on its way, by what a handler does.
LEMMA SteadyTypes ==
  ASSUME Types, mode' = mode, batch' \in Seq(Stanzas), toClient' \in Seq(Stanzas),
         \/ /\ StaysUp /\ (toServer' = toServer \/ \E m \in ClientSays : toServer' = Append(toServer, m))
            /\ tcp = "connected" \/ toServer' = toServer
            /\ securing' = securing \/ (securing' = TRUE /\ tcp = "connected")
         \/ Shuts \/ Ended
  PROVE  SocketTypes' /\ LinkTypes'
<1> USE DEF Types
<1>1. CASE StaysUp /\ toServer' = toServer /\ (securing' = securing \/ (securing' = TRUE /\ tcp = "connected"))
  <2>0. SocketTypes /\ tcp' = tcp /\ encrypted' = encrypted
    BY <1>1 DEF StaysUp
  <2>1. SocketTypes'
    <3>1. CASE securing' = securing
      BY <2>0, <3>1 DEF SocketTypes
    <3>2. CASE securing' = TRUE /\ tcp = "connected"
      BY <2>0, <3>2 DEF SocketTypes
    <3>3. QED
      BY <1>1, <3>1, <3>2
  <2>2. LinkTypes'
    BY <1>1 DEF LinkTypes, StaysUp
  <2>3. QED
    BY <2>1, <2>2
<1>2. ASSUME NEW m \in ClientSays, StaysUp, toServer' = Append(toServer, m), tcp = "connected",
             securing' = securing \/ (securing' = TRUE /\ tcp = "connected")
      PROVE  SocketTypes' /\ LinkTypes'
  <2>1. toServer' \in Seq(ClientSays)
    BY <1>2 DEF LinkTypes
  <2>2. QED
    BY <1>2, <2>1 DEF SocketTypes, LinkTypes, StaysUp, Idle
<1>3. CASE Shuts
  <2>1. SocketTypes'
    BY <1>3 DEF SocketTypes, Shuts
  <2>2. LinkTypes'
    BY <1>3 DEF SocketTypes, LinkTypes, Shuts, Idle
  <2>3. QED
    BY <2>1, <2>2
<1>4. CASE Ended
  <2>1. SocketTypes'
    BY <1>4 DEF SocketTypes, Ended
  <2>2. server' \in [tls : BOOLEAN, auth : BOOLEAN, state : {"listening", "done", "mute"}]
    BY <1>4 DEF Ended, NoServer
  <2>3. toServer' \in Seq(ClientSays)
    BY <1>4 DEF Ended
  <2>4. LinkTypes'
    BY <1>4, <2>2, <2>3 DEF LinkTypes, Ended, NoServer
  <2>5. QED
    BY <2>1, <2>4
<1>5. QED
  BY <1>1, <1>2, <1>3, <1>4

LEMMA HandleTypes ==
  ASSUME StreamInv, HandleStanza PROVE Types'
<1>1. batch # <<>> /\ batch' = Tail(batch) /\ mode' = mode /\ Types
  BY DEF HandleStanza, StreamInv
<1>2. toClient' \in {toClient, <<>>}
  BY HandlerKinds DEF Takes, Asks, Secures, HasSession, Ignores, StaysUp, Shuts, Ended
<1>3. batch' \in Seq(Stanzas) /\ toClient' \in Seq(Stanzas)
  BY <1>1, <1>2, LineDrops
<1>4. CASE Ignores
  BY <1>1, <1>3, <1>4, SteadyTypes, HandleAuthTypes, HandleFlagTypes DEF Ignores, Types
<1>5. CASE Turning(Head(batch)) /\ Takes
  <2>1. tcp = "connected"
    BY <1>1, <1>5, TurnFacts DEF StreamInv
  <2>2. CASE \E m \in ClientSays \ {"ping"} : Asks(m)
    <3>1. StaysUp /\ securing' = securing /\ \E m \in ClientSays : toServer' = Append(toServer, m)
      BY <2>2 DEF Asks
    <3>2. QED
      BY <1>1, <1>3, <2>1, <3>1, SteadyTypes, HandleAuthTypes, HandleFlagTypes DEF Types
  <2>3. CASE Secures \/ HasSession \/ Ignores
    <3>1. StaysUp /\ toServer' = toServer /\ (securing' = securing \/ securing' = TRUE)
      BY <2>3 DEF Secures, HasSession, Ignores
    <3>2. QED
      BY <1>1, <1>3, <2>1, <3>1, SteadyTypes, HandleAuthTypes, HandleFlagTypes DEF Types
  <2>4. CASE Shuts \/ Ended
    BY <1>1, <1>3, <2>4, SteadyTypes, HandleAuthTypes, HandleFlagTypes DEF Types
  <2>5. QED
    BY <1>5, <2>2, <2>3, <2>4 DEF Takes
<1>6. QED
  BY <1>4, <1>5, HandlerKinds

-----------------------------------------------------------------------------
(* The steps of the socket, the keep-alive and the server.                 *)

LEMMA InitKept == StreamInit => StreamInv
<1> SUFFICES ASSUME StreamInit PROVE StreamInv
  OBVIOUS
<1> USE DEF StreamInit
<1>1. Line = <<>>
  BY LineEmpty
<1>2. Types
  <2>1. SocketTypes /\ AuthTypes /\ FlagTypes
    BY DEF SocketTypes, AuthTypes, FlagTypes
  <2>2. batch \in Seq(Stanzas) /\ toClient \in Seq(Stanzas) /\ toServer \in Seq(ClientSays)
    OBVIOUS
  <2>3. server \in [tls : BOOLEAN, auth : BOOLEAN, state : {"listening", "done", "mute"}]
    BY DEF NoServer
  <2>4. LinkTypes
    BY <2>2, <2>3 DEF LinkTypes
  <2>5. QED
    BY <2>1, <2>4 DEF Types
<1>3. NothingAsked /\ OneRequest
  BY DEF NothingAsked, OneRequest
<1>4. Turns
  BY <1>1, <1>3 DEF Turns, OneAnswer, NotBoth, QuietWhileSecuring, QuietInSession, TurnIsUp, LastIsLast
<1>5. Knowledge
  <2>1. \A S : ~Asked(S) /\ ~Heard(S)
    BY <1>1 DEF Asked, Heard
  <2>2. Awaited /\ Known
    BY <2>1 DEF Awaited, Known, NoServer
  <2>3. FeaturesTrue /\ RedirectWaits /\ Moving
    BY <1>1 DEF FeaturesTrue, RedirectWaits, Moving
  <2>4. QED
    BY <2>2, <2>3 DEF Knowledge
<1>6. QED
  BY <1>2, <1>4, <1>5 DEF StreamInv

\* The line stays as it is, and so does all the turns depend on but the socket
\* of a stream that is not up.
LEMMA StillKept ==
  ASSUME StreamInv, Line' = Line, toServer' = toServer,
         UNCHANGED <<mech, authenticated, bindId, sessionId, nonSASLAuthId,
                     sessionStarted, encrypted, securing, redirectHost, refused>>,
         server'.tls = server.tls, server'.auth = server.auth,
         server'.state \in {server.state, "mute"},
         \/ tcp' = tcp
         \/ tcp # "connected" /\ tcp' # "connected" /\ (redirectHost => tcp' = "closing")
  PROVE  Turns' /\ Knowledge'
<1> USE DEF StreamInv
<1>1. NothingAsked' <=> NothingAsked
  BY DEF NothingAsked
<1>2. \A S : (Asked(S)' <=> Asked(S)) /\ (Heard(S)' <=> Heard(S))
  BY DEF Asked, Heard
<1>3. tcp' = "connected" <=> tcp = "connected"
  OBVIOUS
<1>4. OneAnswer' /\ OneRequest' /\ NotBoth' /\ QuietWhileSecuring'
  BY <1>1 DEF Turns, OneAnswer, OneRequest, NotBoth, QuietWhileSecuring
<1>5. QuietInSession' /\ TurnIsUp' /\ LastIsLast'
  BY <1>1, <1>3 DEF Turns, QuietInSession, TurnIsUp, LastIsLast
<1>6. Awaited' /\ Known'
  BY <1>2, <1>3 DEF Knowledge, Awaited, Known
<1>7. FeaturesTrue' /\ RedirectWaits'
  BY DEF Knowledge, FeaturesTrue, RedirectWaits
<1>8. Moving'
  BY <1>1, <1>3 DEF Knowledge, Moving
<1>9. QED
  BY <1>4, <1>5, <1>6, <1>7, <1>8 DEF Turns, Knowledge

LEMMA ConnectKept ==
  ASSUME StreamInv, NEW m \in Modes, ConnectToHost(m) PROVE StreamInv'
<1> USE DEF StreamInv, ConnectToHost, Unread, NotStarted
<1>1. Types'
  <2>1. SocketTypes'
    BY DEF Types, SocketTypes
  <2>2. AuthTypes' /\ FlagTypes'
    BY DEF Types, AuthTypes, FlagTypes
  <2>3. LinkTypes'
    BY DEF Types, LinkTypes, Idle
  <2>4. QED
    BY <2>1, <2>2, <2>3 DEF Types
<1>2. Line' = Line
  BY DEF Line
<1>3. redirectHost => tcp = "closing"
  BY DEF Knowledge, RedirectWaits
<1>4. Turns' /\ Knowledge'
  BY <1>2, <1>3, StillKept
<1>5. QED
  BY <1>1, <1>4

LEMMA ReadKept ==
  ASSUME StreamInv, SocketReadyRead PROVE StreamInv'
<1> USE DEF StreamInv, SocketReadyRead, NotStarted
<1>1. Line' = Line /\ batch' \in Seq(Stanzas) /\ toClient' \in Seq(Stanzas)
  BY LineRead
<1>2. Types'
  <2>1. SocketTypes' /\ AuthTypes' /\ FlagTypes'
    BY DEF Types, SocketTypes, AuthTypes, FlagTypes
  <2>2. LinkTypes'
    BY <1>1 DEF Types, LinkTypes, Idle
  <2>3. QED
    BY <2>1, <2>2 DEF Types
<1>3. Turns' /\ Knowledge'
  BY <1>1, StillKept
<1>4. QED
  BY <1>2, <1>3

LEMMA ErrorKept ==
  ASSUME StreamInv, SocketError PROVE StreamInv'
<1> USE DEF StreamInv, SocketError, Unread, NotStarted
<1>1. Types'
  <2>1. SocketTypes' /\ AuthTypes' /\ FlagTypes'
    BY DEF Types, SocketTypes, AuthTypes, FlagTypes
  <2>2. LinkTypes'
    BY DEF Types, LinkTypes, Idle
  <2>3. QED
    BY <2>1, <2>2 DEF Types
<1>2. Line' = Line
  BY DEF Line
<1>3. redirectHost => tcp = "closing"
  BY DEF Knowledge, RedirectWaits
<1>4. Turns' /\ Knowledge'
  BY <1>2, <1>3, StillKept
<1>5. QED
  BY <1>1, <1>4

LEMMA DiesKept ==
  ASSUME StreamInv, ServerDies PROVE StreamInv'
<1> USE DEF StreamInv, ServerDies, Speaks, Unread, NotStarted
<1>1. server' \in [tls : BOOLEAN, auth : BOOLEAN, state : {"listening", "done", "mute"}]
      /\ server'.tls = server.tls /\ server'.auth = server.auth /\ server'.state = "mute"
  BY DEF Types, LinkTypes
<1>2. Types'
  <2>1. SocketTypes' /\ AuthTypes' /\ FlagTypes'
    BY DEF Types, SocketTypes, AuthTypes, FlagTypes
  <2>2. LinkTypes'
    BY <1>1 DEF Types, LinkTypes, Idle
  <2>3. QED
    BY <2>1, <2>2 DEF Types
<1>3. Line' = Line
  BY DEF Line
<1>4. Turns' /\ Knowledge'
  BY <1>1, <1>3, StillKept
<1>5. QED
  BY <1>2, <1>4

\* A close outside of the slot of readyRead().
LEMMA OutsideClose ==
  ASSUME StreamInv, batch = <<>>, Unread, NotStarted, mode' = mode, Shuts \/ Ended,
         authenticated' \in BOOLEAN, {redirectHost', pingTimer', timeoutTimer'} \subseteq BOOLEAN
  PROVE  StreamInv'
<1> USE DEF StreamInv
<1>1. batch' = <<>> /\ toClient' = <<>>
  BY DEF Unread, Shuts, Ended
<1>2. Line' = <<>>
  BY <1>1 DEF Line
<1>3. Hushed
  BY <1>2 DEF Hushed
<1>4. Turns' /\ Knowledge'
  BY <1>3, CloseKept
<1>5. SocketTypes' /\ LinkTypes'
  <2>1. batch' \in Seq(Stanzas) /\ toClient' \in Seq(Stanzas)
    BY <1>1
  <2>2. QED
    BY <2>1, SteadyTypes
<1>6. AuthTypes' /\ FlagTypes'
  BY DEF Types, AuthTypes, FlagTypes, Unread, NotStarted
<1>7. QED
  BY <1>4, <1>5, <1>6 DEF Types

LEMMA ClosesKept ==
  ASSUME StreamInv, CloseRequested \/ PingTimeout \/ SocketCloses PROVE StreamInv'
<1>1. timeoutTimer \in BOOLEAN /\ Types
  BY DEF StreamInv, Types, FlagTypes
<1>2. batch = <<>> /\ Unread /\ NotStarted /\ mode' = mode
  BY DEF CloseRequested, PingTimeout, SocketCloses
<1>3. CASE \E t \in BOOLEAN : DisconnectFromHost(t)
  BY <1>1, <1>2, <1>3, DisconnectCases, DisconnectTypes, OutsideClose DEF Unread
<1>4. CASE SocketCloses
  <2>1. Ended
    BY <1>2, <1>4, RedirectFacts DEF SocketCloses, SocketDisconnected, Ended, NotStarted, Unread
  <2>2. authenticated' \in BOOLEAN /\ {redirectHost', pingTimer', timeoutTimer'} \subseteq BOOLEAN
    BY <1>1, <1>4 DEF SocketCloses, SocketDisconnected, Types, FlagTypes
  <2>3. QED
    BY <1>2, <2>1, <2>2, OutsideClose
<1>5. QED
  BY <1>1, <1>3, <1>4 DEF CloseRequested, PingTimeout

LEMMA SocketConnectedKept ==
  ASSUME StreamInv, SocketConnected PROVE StreamInv'
<1> USE DEF StreamInv, SocketConnected, Unread
<1>1. CASE tcp = "aborting" /\ tcp' = "closing" /\ NotStarted /\ UNCHANGED toServer
  <2> USE <1>1 DEF NotStarted
  <2>1. Types'
    <3>1. SocketTypes' /\ AuthTypes' /\ FlagTypes'
      BY DEF Types, SocketTypes, AuthTypes, FlagTypes
    <3>2. LinkTypes'
      BY DEF Types, LinkTypes, Idle
    <3>3. QED
      BY <3>1, <3>2 DEF Types
  <2>2. Line' = Line
    BY DEF Line
  <2>3. Turns' /\ Knowledge'
    BY <2>2, StillKept
  <2>4. QED
    BY <2>1, <2>3
<1>2. CASE tcp = "connecting" /\ tcp' = "connected" /\ HandleStart
  <2>1. /\ toClient' = <<>> /\ toServer = <<>> /\ batch' = <<>>
        /\ server' = NoServer /\ ~redirectHost' /\ server'.tls = encrypted'
    BY <1>2 DEF Types, LinkTypes, Idle, Knowledge, RedirectWaits, Known
  <2>2. Line' = <<>>
    BY <2>1 DEF Line
  <2>3. Hushed
    BY <2>2 DEF Hushed
  <2>4. NothingAsked
    BY <2>1 DEF NothingAsked
  <2>5. /\ OneRequest' /\ ~NothingAsked'
        /\ \A S : "ping" \notin S => (Asked(S)' <=> "header" \in S)
    BY <1>2, <2>4, AskedOne DEF HandleStart, ClientSays
  <2>6. ~securing
    BY <1>2 DEF Types, SocketTypes
  <2>7. Turns'
    BY <1>2, <2>2, <2>5, <2>6, <2>3, QuietTurns
       DEF Turns, HandleStart, QuietWhileSecuring, QuietInSession, LastIsLast
  <2>8. Awaited'
    BY <2>3, <2>5, QuietTurns DEF Awaited
  <2>9. Known'
    <3>1. ~Asked({"bind", "session"})' /\ server'.auth = FALSE
      BY <2>1, <2>5 DEF NoServer
    <3>2. QED
      BY <2>1, <2>3, <3>1, QuietTurns DEF Known
  <2>10. RedirectWaits' /\ Moving'
    BY <2>1, <2>5 DEF RedirectWaits, Moving
  <2>11. toServer' \in Seq(ClientSays)
    BY <1>2, <2>1 DEF HandleStart, ClientSays
  <2>12. SocketTypes' /\ AuthTypes' /\ FlagTypes'
    BY <1>2 DEF Types, SocketTypes, AuthTypes, FlagTypes, HandleStart
  <2>13. LinkTypes'
    BY <1>2, <2>11 DEF Types, LinkTypes, Idle
  <2>14. QED
    BY <2>3, <2>7, <2>8, <2>9, <2>10, <2>12, <2>13, QuietTurns DEF Knowledge, Types
<1>3. QED
  BY <1>1, <1>2

LEMMA EncryptedKept ==
  ASSUME StreamInv, SocketEncrypted PROVE StreamInv'
<1> USE DEF StreamInv, SocketEncrypted, Unread, HandleStart
<1>1. /\ server' \in [tls : BOOLEAN, auth : BOOLEAN, state : {"listening", "done", "mute"}]
      /\ server'.tls = encrypted' /\ server'.auth = server.auth /\ server'.state = server.state
  BY DEF Types, LinkTypes
<1>2. Line' = Line
  BY DEF Line
<1>3. NothingAsked /\ \A i \in DOMAIN Line : ~Turning(Line[i])
  BY DEF Turns, QuietWhileSecuring
<1>4. Hushed
  BY <1>2, <1>3 DEF Hushed, Turns, LastIsLast
<1>5. /\ OneRequest' /\ ~NothingAsked'
      /\ \A S : "ping" \notin S => (Asked(S)' <=> "header" \in S)
  BY <1>3, AskedOne DEF ClientSays
<1>6. ~Heard({"success", "legacyResult"})
  BY <1>3 DEF Heard, Turning, Reply, Replies
<1>7. LastIsLast'
  BY <1>1, <1>2 DEF Turns, LastIsLast
<1>8. Turns'
  BY <1>4, <1>5, <1>7, QuietTurns DEF Turns, QuietWhileSecuring, QuietInSession
<1>9. Awaited'
  BY <1>4, <1>5, QuietTurns DEF Awaited
<1>10. Known'
  BY <1>1, <1>4, <1>5, <1>6, QuietTurns DEF Known, Knowledge
<1>11. RedirectWaits' /\ Moving'
  BY <1>5 DEF RedirectWaits, Moving, Knowledge
<1>12. toServer' \in Seq(ClientSays)
  BY DEF Types, LinkTypes, ClientSays
<1>13. SocketTypes' /\ AuthTypes' /\ FlagTypes'
  BY DEF Types, SocketTypes, AuthTypes, FlagTypes
<1>14. LinkTypes'
  BY <1>1, <1>12 DEF Types, LinkTypes, Idle
<1>15. QED
  BY <1>4, <1>8, <1>9, <1>10, <1>11, <1>13, <1>14, QuietTurns DEF Knowledge, Types

LEMMA PingKept ==
  ASSUME StreamInv, PingSend PROVE StreamInv'
<1> USE DEF StreamInv, PingSend, Unread, NotStarted
<1>1. Line' = Line
  BY DEF Line
<1>2. SocketTypes' /\ AuthTypes' /\ FlagTypes'
  BY DEF Types, SocketTypes, AuthTypes, FlagTypes
<1>3. CASE toServer' = toServer
  <2>1. LinkTypes'
    BY <1>3 DEF Types, LinkTypes, Idle
  <2>2. Turns' /\ Knowledge'
    BY <1>1, <1>3, StillKept
  <2>3. QED
    BY <1>2, <2>1, <2>2 DEF Types
<1>4. CASE tcp = "connected" /\ toServer' = Append(toServer, "ping")
  <2>1. toServer \in Seq(ClientSays)
    BY DEF Types, LinkTypes
  <2>2. toServer' \in Seq(ClientSays)
    BY <1>4, <2>1 DEF ClientSays
  <2>3. /\ DOMAIN toServer \subseteq DOMAIN toServer'
        /\ \A i \in DOMAIN toServer : toServer'[i] = toServer[i]
        /\ \A i \in DOMAIN toServer' : toServer'[i] # "ping" => i \in DOMAIN toServer
    BY <1>4, <2>1
  <2>4. NothingAsked' <=> NothingAsked
    BY <2>3 DEF NothingAsked, Requests
  <2>5. OneRequest'
    BY <2>3 DEF Turns, OneRequest, Requests
  <2>6. \A S : "ping" \notin S => (Asked(S)' <=> Asked(S)) /\ (Heard(S)' <=> Heard(S))
    BY <1>1, <2>3 DEF Asked, Heard
  <2>8. Turns'
    BY <1>1, <2>4, <2>5 DEF Turns, OneAnswer, NotBoth, QuietWhileSecuring, QuietInSession, TurnIsUp, LastIsLast
  <2>9. Awaited' /\ Known'
    BY <2>6 DEF Knowledge, Awaited, Known, Refusals
  <2>10. FeaturesTrue' /\ RedirectWaits' /\ Moving'
    BY <1>1, <2>4 DEF Knowledge, FeaturesTrue, RedirectWaits, Moving
  <2>11. LinkTypes'
    BY <1>4, <2>2 DEF Types, LinkTypes, Idle
  <2>12. QED
    BY <1>2, <2>8, <2>9, <2>10, <2>11 DEF Types, Knowledge
<1>5. QED
  BY <1>3, <1>4 DEF Send

\* The answer x is one to the request m.
AnswerTo(x, m) ==
    /\ Turning(x) <=> m # "ping"
    /\ m # "ping" /\ x.type # "seeOther" => Reply(x)
    /\ x.type \in {"success", "challenge", "failure"} => m \in {"auth", "response"}
    /\ x.type = "bindResult" => m = "bind"
    /\ x.type = "sessionReply" => m = "session"
    /\ x.type = "legacyResult" => m = "legacyAuth"

\* What the server answers with, and what it says it of.
LEMMA AnswerShape ==
  ASSUME NEW m \in ClientSays, 
         NEW srv \in [tls : BOOLEAN, auth : BOOLEAN, state : {"listening", "done", "mute"}],
         NEW a \in Answers(m, srv)
  PROVE  /\ a \in Seq(Stanzas) /\ Len(a) \in Nat \ {0}
         /\ \A i \in DOMAIN a : i # Len(a) => ~Turning(a[i]) /\ a[i].type \notin LastWords
         /\ AnswerTo(a[Len(a)], m)
         /\ a[Len(a)].type = "features" => m = "header" /\ a[Len(a)] \in Offers(srv)
<1> USE DEF AnswerTo, Turning, Reply, Replies, LastWords
<1>1. \A t \in Plain : Stanza(t) \in Stanzas
  BY DEF Stanza, Stanzas
<1>2. \A x \in Stanzas : <<x>> \in Seq(Stanzas) /\ Len(<<x>>) = 1 /\ <<x>>[1] = x
  OBVIOUS
<1>3. CASE m = "header"
  <2>1. [type |-> "header", version |-> TRUE] \in Stanzas /\ [type |-> "header", version |-> FALSE] \in Stanzas
    BY DEF Stanzas
  <2>2. Offers(srv) \subseteq Features
    BY DEF Offers, Features, Levels
  <2>3. CASE \E f \in Offers(srv) : a = <<[type |-> "header", version |-> TRUE], f>>
    <3>1. PICK f \in Offers(srv) : a = <<[type |-> "header", version |-> TRUE], f>>
      BY <2>3
    <3>2. f \in Stanzas /\ f.type = "features"
      BY <2>2 DEF Stanzas, Features
    <3>3. a \in Seq(Stanzas) /\ Len(a) = 2 /\ a[2] = f /\ a[1] = [type |-> "header", version |-> TRUE]
      BY <2>1, <3>1, <3>2
    <3>4. QED
      BY <1>3, <3>2, <3>3
  <2>4. CASE a = <<[type |-> "header", version |-> TRUE], Stanza("seeOther")>>
    <3>1. /\ a \in Seq(Stanzas) /\ Len(a) = 2 /\ a[1] = [type |-> "header", version |-> TRUE]
          /\ a[2].type = "seeOther"
      BY <1>1, <2>1, <2>4 DEF Plain, Stanza
    <3>2. QED
      BY <1>3, <3>1
  <2>5. CASE a = <<[type |-> "header", version |-> FALSE]>>
    BY <1>3, <2>1, <2>5
  <2>6. QED
    BY <1>3, <2>3, <2>4, <2>5 DEF Answers, Headers
<1>4. CASE m # "header"
  <2>1. \E x \in Stanzas : a = <<x>> /\ x.type # "features" /\ AnswerTo(x, m)
    <3>1. \A t \in Plain : Stanza(t).type = t
      BY DEF Stanza
    <3>2. CASE m \in {"auth", "response"}
      <4>1. a \in Verdicts
        BY <3>2 DEF Answers
      <4>2. CASE \E b \in BOOLEAN : a = <<[type |-> "challenge", bad |-> b]>>
        <5>1. PICK b \in BOOLEAN : a = <<[type |-> "challenge", bad |-> b]>>
          BY <4>2
        <5>2. [type |-> "challenge", bad |-> b] \in Stanzas
          BY DEF Stanzas
        <5>3. QED
          BY <3>2, <5>1, <5>2
      <4>3. CASE a \in {<<Stanza("success")>>, <<Stanza("failure")>>}
        BY <1>1, <3>1, <3>2, <4>3 DEF Plain
      <4>4. QED
        BY <4>1, <4>2, <4>3 DEF Verdicts
    <3>3. CASE m = "query"
      <4>1. CASE \E b \in BOOLEAN : a = <<[type |-> "queryReply", fields |-> b]>>
        <5>1. PICK b \in BOOLEAN : a = <<[type |-> "queryReply", fields |-> b]>>
          BY <4>1
        <5>2. [type |-> "queryReply", fields |-> b] \in Stanzas
          BY DEF Stanzas
        <5>3. QED
          BY <3>3, <5>1, <5>2
      <4>2. CASE a = <<Stanza("legacyError")>>
        BY <1>1, <3>1, <3>3, <4>2 DEF Plain
      <4>3. QED
        BY <3>3, <4>1, <4>2 DEF Answers
    <3>4. CASE m = "starttls"
      BY <1>1, <3>1, <3>4 DEF Plain, Answers
    <3>5. CASE m = "bind"
      BY <1>1, <3>1, <3>5 DEF Plain, Answers
    <3>6. CASE m = "session"
      BY <1>1, <3>1, <3>6 DEF Plain, Answers
    <3>7. CASE m = "legacyAuth"
      BY <1>1, <3>1, <3>7 DEF Plain, Answers
    <3>8. CASE m = "ping"
      BY <1>1, <3>1, <3>8 DEF Plain, Answers
    <3>9. QED
      BY <1>4, <3>2, <3>3, <3>4, <3>5, <3>6, <3>7, <3>8 DEF ClientSays
  <2>2. PICK x \in Stanzas : a = <<x>> /\ x.type # "features" /\ AnswerTo(x, m)
    BY <2>1
  <2>3. a \in Seq(Stanzas) /\ Len(a) = 1 /\ a[1] = x /\ DOMAIN a = {1}
    BY <2>2
  <2> HIDE DEF AnswerTo, Turning, Reply, Replies, LastWords
  <2>4. QED
    BY <2>2, <2>3
<1>5. QED
  BY <1>3, <1>4

\* What is offered tells the truth of the stream it is offered on.
LEMMA OffersTrue ==
  ASSUME NEW srv \in [tls : BOOLEAN, auth : BOOLEAN, state : {"listening", "done", "mute"}],
         NEW x \in Offers(srv)
  PROVE  /\ x.tls = "Required" => ~srv.tls /\ ~x.bind /\ ~x.session
         /\ x.tls # "Required" /\ x.mech = "none" /\ ~x.legacy => srv.auth
  BY DEF Offers

\* A stanza of the server is the only thing that is added to the line.
LEMMA AddedLine ==
  ASSUME StreamInv, NEW a \in Seq(Stanzas), Len(a) \in Nat \ {0}, batch' = batch, toClient' = toClient \o a,
         \A i \in DOMAIN a : i # Len(a) => ~Turning(a[i]) /\ a[i].type \notin LastWords
  PROVE  /\ Line' \in Seq(Stanzas) /\ toClient' \in Seq(Stanzas)
         /\ \A i \in DOMAIN Line : i \in DOMAIN Line' /\ Line'[i] = Line[i]
         /\ Len(Line') \in DOMAIN Line' \ DOMAIN Line
         /\ Line'[Len(Line')] = a[Len(a)]
         /\ \A i \in DOMAIN Line' \ DOMAIN Line : i # Len(Line') =>
               ~Turning(Line'[i]) /\ Line'[i].type \notin LastWords
<1> USE DEF StreamInv
<1>1. /\ Line' \in Seq(Stanzas) /\ toClient' \in Seq(Stanzas)
      /\ Len(Line') = Len(Line) + Len(a)
      /\ \A i \in DOMAIN Line : i \in DOMAIN Line' /\ Line'[i] = Line[i]
      /\ \A i \in DOMAIN Line' \ DOMAIN Line :
               i - Len(Line) \in DOMAIN a /\ Line'[i] = a[i - Len(Line)]
  BY LineGrows
<1> DEFINE l == Len(Line)  l1 == Len(Line')  k == Len(a)
<1>2. l \in Nat /\ DOMAIN Line = 1..l /\ l1 \in Nat /\ DOMAIN Line' = 1..l1 /\ l1 = l + k
  BY <1>1, LineIsSeq
<1> HIDE DEF l, l1, k
<1>3. l1 \in DOMAIN Line' \ DOMAIN Line /\ l1 - l = k
  BY <1>2 DEF k
<1>4. Line'[l1] = a[k]
  BY <1>1, <1>3 DEF l
<1>5. ASSUME NEW i \in DOMAIN Line' \ DOMAIN Line, i # l1
      PROVE  ~Turning(Line'[i]) /\ Line'[i].type \notin LastWords
  <2>1. i - l \in DOMAIN a /\ Line'[i] = a[i - l]
    BY <1>1 DEF l
  <2>2. i - l # k
    BY <1>2, <1>5 DEF k
  <2>3. QED
    BY <2>1, <2>2 DEF k
<1>6. QED
  BY <1>1, <1>3, <1>4, <1>5 DEF l1, k

LEMMA ServerTypes ==
  ASSUME Types, tcp = "connected", NEW w, 
         server' = [server EXCEPT !.auth = @ \/ w \in {"success", "legacyResult"},
                                  !.state = IF w \in LastWords THEN "done" ELSE @]
  PROVE  /\ server' \in [tls : BOOLEAN, auth : BOOLEAN, state : {"listening", "done", "mute"}]
         /\ server'.tls = server.tls
         /\ server'.auth => server.auth \/ w \in {"success", "legacyResult"}
         /\ w \in LastWords => server'.state = "done"
         /\ w \notin LastWords => server'.state = server.state
  BY DEF Types, LinkTypes

LEMMA AnswersKept ==
  ASSUME StreamInv, ServerAnswers PROVE StreamInv'
<1> USE DEF StreamInv
<1> DEFINE m == Head(toServer)
<1>1. PICK a \in Answers(m, server) :
         /\ toClient' = toClient \o a
         /\ server' = [server EXCEPT
                          !.auth = @ \/ a[Len(a)].type \in {"success", "legacyResult"},
                          !.state = IF a[Len(a)].type \in LastWords THEN "done" ELSE @]
         /\ refused' = (refused \/ a[Len(a)].type \in Refusals)
  BY DEF ServerAnswers
<1> DEFINE x == a[Len(a)]
<1>2. /\ tcp = "connected" /\ server.state = "listening"
      /\ toServer # <<>> /\ toServer' = Tail(toServer)
      /\ UNCHANGED <<socketVars, mode, authenticated, redirectHost, timerVars, batch,
                     nonSASLAuthId, mech, step, bindId, sessionId, sessionAvailable,
                     sessionStarted>>
  BY DEF ServerAnswers, Speaks, Unread, NotStarted
<1>3. /\ toServer \in Seq(ClientSays) /\ m \in ClientSays
      /\ server \in [tls : BOOLEAN, auth : BOOLEAN, state : {"listening", "done", "mute"}]
  BY <1>2 DEF Types, LinkTypes
<1>4. /\ toServer' \in Seq(ClientSays)
      /\ 1 \in DOMAIN toServer /\ toServer[1] = m
      /\ \A i \in DOMAIN toServer' : i \in Nat /\ i # 0 /\ i + 1 \in DOMAIN toServer /\ toServer'[i] = toServer[i + 1]
      /\ \A i \in DOMAIN toServer : i # 1 => i - 1 \in DOMAIN toServer' /\ toServer'[i - 1] = toServer[i]
  BY <1>2, <1>3
<1> HIDE DEF m, x
<1>5. /\ a \in Seq(Stanzas) /\ Len(a) \in Nat \ {0}
      /\ \A i \in DOMAIN a : i # Len(a) => ~Turning(a[i]) /\ a[i].type \notin LastWords
      /\ AnswerTo(x, m)
      /\ x.type = "features" => m = "header" /\ x \in Offers(server)
  BY <1>1, <1>3, AnswerShape DEF x
<1>6. /\ Line' \in Seq(Stanzas) /\ toClient' \in Seq(Stanzas)
      /\ \A i \in DOMAIN Line : i \in DOMAIN Line' /\ Line'[i] = Line[i]
      /\ Len(Line') \in DOMAIN Line' \ DOMAIN Line
      /\ Line'[Len(Line')] = x
      /\ \A i \in DOMAIN Line' \ DOMAIN Line : i # Len(Line') =>
               ~Turning(Line'[i]) /\ Line'[i].type \notin LastWords
  BY <1>1, <1>2, <1>5, AddedLine DEF x
<1>7. /\ server' \in [tls : BOOLEAN, auth : BOOLEAN, state : {"listening", "done", "mute"}]
      /\ server'.tls = server.tls
      /\ server'.auth => server.auth \/ x.type \in {"success", "legacyResult"}
      /\ x.type \in LastWords => server'.state = "done"
      /\ x.type \notin LastWords => server'.state = "listening"
  BY <1>1, <1>2, ServerTypes DEF x
<1>8. Types'
  <2>1. SocketTypes' /\ AuthTypes' /\ FlagTypes'
    BY <1>2 DEF Types, SocketTypes, AuthTypes, FlagTypes
  <2>2. refused' \in BOOLEAN
    BY <1>1 DEF Types, LinkTypes
  <2>3. LinkTypes'
    BY <1>2, <1>4, <1>6, <1>7, <2>2 DEF Types, LinkTypes, Idle
  <2>4. QED
    BY <2>1, <2>3 DEF Types
\* The requests.
<1>9. m # "ping" => /\ NothingAsked' /\ ~NothingAsked /\ ~securing /\ ~sessionStarted
                    /\ \A i \in DOMAIN Line : ~Turning(Line[i])
  <2> SUFFICES ASSUME m # "ping"
               PROVE  /\ NothingAsked' /\ ~NothingAsked /\ ~securing /\ ~sessionStarted
                      /\ \A i \in DOMAIN Line : ~Turning(Line[i])
    OBVIOUS
  <2>1. ~NothingAsked
    BY <1>4 DEF NothingAsked, Requests
  <2>2. NothingAsked'
    BY <1>4 DEF NothingAsked, Requests, Turns, OneRequest
  <2>3. QED
    BY <1>2, <2>1, <2>2 DEF Turns, NotBoth, QuietWhileSecuring, QuietInSession
<1>10. m = "ping" => (NothingAsked' <=> NothingAsked)
  BY <1>4 DEF NothingAsked, Requests
<1>11. NothingAsked => NothingAsked'
  BY <1>4 DEF NothingAsked, Requests
<1>12. OneRequest'
  BY <1>4 DEF Turns, OneRequest
<1>13. \A S : Asked(S)' => Asked(S)
  BY <1>4 DEF Asked
<1>14. \A S : m \in S => Asked(S)
  BY <1>4 DEF Asked
\* The line.
<1>15. Turning(x) <=> m # "ping"
  BY <1>5 DEF AnswerTo
<1>16. \A i \in DOMAIN Line' : Turning(Line'[i]) =>
          i \in DOMAIN Line \/ (i = Len(Line') /\ Line'[i] = x /\ m # "ping")
  BY <1>6, <1>15
<1>17. OneAnswer'
  BY <1>6, <1>9, <1>16 DEF Turns, OneAnswer
<1>18. NotBoth' /\ TurnIsUp' /\ QuietWhileSecuring'
  BY <1>2, <1>6, <1>9, <1>11, <1>16 DEF Turns, NotBoth, TurnIsUp, QuietWhileSecuring
<1>19. QuietInSession'
  BY <1>2, <1>6, <1>9, <1>11, <1>16 DEF Turns, QuietInSession, Turning
<1>20. \A i \in DOMAIN Line : Line[i].type \notin LastWords
  BY <1>2 DEF Turns, LastIsLast
<1>21. LastIsLast'
  BY <1>6, <1>7, <1>20 DEF LastIsLast
<1>22. Turns'
  BY <1>12, <1>17, <1>18, <1>19, <1>21 DEF Turns
<1>23. \A S : Heard(S) => Heard(S)'
  BY <1>6 DEF Heard
<1>24. ASSUME NEW S, S \subseteq Replies, Heard(S)' PROVE Heard(S) \/ x.type \in S
  <2>1. PICK i \in DOMAIN Line' : Line'[i].type \in S
    BY <1>24 DEF Heard
  <2>2. Turning(Line'[i])
    BY <1>24, <2>1 DEF Turning, Reply
  <2>3. QED
    BY <1>6, <1>16, <2>1, <2>2 DEF Heard
<1>25. \A S : x.type \in S => Heard(S)'
  BY <1>6 DEF Heard
<1>26. Awaited'
  <2>1. Heard({"success", "challenge", "failure"})' => mech # "none"
    BY <1>5, <1>14, <1>24 DEF AnswerTo, Knowledge, Awaited, Replies
  <2>2. Heard({"bindResult"})' => bindId
    BY <1>5, <1>14, <1>24 DEF AnswerTo, Knowledge, Awaited, Replies
  <2>3. Heard({"sessionReply"})' => sessionId
    BY <1>5, <1>14, <1>24 DEF AnswerTo, Knowledge, Awaited, Replies
  <2>4. Heard({"legacyResult"})' => nonSASLAuthId
    BY <1>5, <1>14, <1>24 DEF AnswerTo, Knowledge, Awaited, Replies
  <2>5. QED
    BY <1>2, <1>13, <2>1, <2>2, <2>3, <2>4 DEF Knowledge, Awaited
<1>27. Known'
  <2>1. server'.auth => authenticated \/ Heard({"success", "legacyResult"})'
    BY <1>2, <1>7, <1>23, <1>25 DEF Knowledge, Known
  <2>2. Heard({"bindResult", "sessionReply"})' => authenticated
    <3>1. x.type \in {"bindResult", "sessionReply"} => m \in {"bind", "session"}
      BY <1>5 DEF AnswerTo
    <3>2. QED
      BY <3>1, <1>14, <1>24 DEF Knowledge, Known, Replies
  <2>3. Heard(Refusals)' => refused'
    BY <1>1, <1>24 DEF Knowledge, Known, Replies, Refusals, x
  <2>4. QED
    BY <1>2, <1>7, <1>13, <2>1, <2>2, <2>3 DEF Knowledge, Known
<1>28. FeaturesTrue'
  <2> SUFFICES ASSUME NEW i \in DOMAIN Line', Line'[i].type = "features"
               PROVE  /\ Line'[i].tls = "Required" => ~encrypted /\ ~Line'[i].bind /\ ~Line'[i].session
                      /\ Line'[i].tls # "Required" /\ Line'[i].mech = "none" /\ ~Line'[i].legacy
                             => authenticated
    BY <1>2 DEF FeaturesTrue
  <2>1. Turning(Line'[i])
    BY DEF Turning, Reply, Replies
  <2>2. CASE i \in DOMAIN Line
    BY <1>6, <2>2 DEF Knowledge, FeaturesTrue
  <2>3. CASE Line'[i] = x /\ m # "ping"
    <3>1. ~Heard({"success", "legacyResult"})
      BY <1>9, <2>3 DEF Heard, Turning, Reply, Replies
    <3>2. server.tls = encrypted /\ (server.auth => authenticated)
      BY <1>2, <3>1 DEF Knowledge, Known
    <3>3. QED
      BY <1>3, <1>5, <2>3, <3>2, OffersTrue
  <2>4. QED
    BY <1>16, <2>1, <2>2, <2>3
<1>29. RedirectWaits'
  BY <1>2 DEF Knowledge, RedirectWaits
<1>30. Moving'
  <2>1. CASE m = "ping"
    BY <1>1, <1>2, <1>6, <1>10, <2>1 DEF Knowledge, Moving
  <2>2. CASE m # "ping" /\ x.type = "seeOther"
    BY <1>7, <2>2 DEF Moving, LastWords
  <2>3. CASE m # "ping" /\ x.type # "seeOther"
    BY <1>5, <1>6, <2>3 DEF Moving, AnswerTo
  <2>4. QED
    BY <2>1, <2>2, <2>3
<1>31. QED
  BY <1>8, <1>22, <1>26, <1>27, <1>28, <1>29, <1>30 DEF Knowledge

LEMMA SpeaksKept ==
  ASSUME StreamInv, ServerSpeaks PROVE StreamInv'
<1> USE DEF StreamInv
<1>1. PICK w \in {"error", "iq", "seeOther"} :
         /\ toClient' = Append(toClient, Stanza(w))
         /\ server' = [server EXCEPT !.state = IF w \in LastWords THEN "done" ELSE @]
         /\ w = "seeOther" => Sock = "session"
  BY DEF ServerSpeaks
<1> DEFINE x == Stanza(w)
<1>2. /\ tcp = "connected" /\ server.state = "listening"
      /\ UNCHANGED <<socketVars, mode, authenticated, redirectHost, timerVars, batch,
                     nonSASLAuthId, mech, step, bindId, sessionId, sessionAvailable,
                     sessionStarted, toServer, refused>>
  BY DEF ServerSpeaks, Speaks, Unread, NotStarted
<1>3. /\ x \in Stanzas /\ x.type = w /\ ~Reply(x)
      /\ Turning(x) => NothingAsked /\ ~securing /\ \A i \in DOMAIN Line : ~Reply(Line[i])
  <2>1. x \in Stanzas /\ x.type = w
    BY DEF Stanza, Stanzas, Plain
  <2>2. ~Reply(x)
    BY <2>1 DEF Reply, Replies
  <2>3. Turning(x) => sessionStarted
    BY <1>1, <1>2, <2>1, <2>2 DEF Turning, Sock
  <2>4. QED
    BY <1>2, <2>1, <2>2, <2>3 DEF Turns, QuietInSession
<1> HIDE DEF x
<1>4. toClient \in Seq(Stanzas)
  BY DEF Types, LinkTypes
<1>5. /\ <<x>> \in Seq(Stanzas) /\ Len(<<x>>) = 1 /\ <<x>>[1] = x /\ DOMAIN <<x>> = {1}
      /\ toClient' = toClient \o <<x>>
  BY <1>1, <1>3, <1>4 DEF x
<1>6. /\ Line' \in Seq(Stanzas) /\ toClient' \in Seq(Stanzas)
      /\ \A i \in DOMAIN Line : i \in DOMAIN Line' /\ Line'[i] = Line[i]
      /\ Len(Line') \in DOMAIN Line' \ DOMAIN Line
      /\ Line'[Len(Line')] = x
      /\ \A i \in DOMAIN Line' \ DOMAIN Line : i # Len(Line') =>
               ~Turning(Line'[i]) /\ Line'[i].type \notin LastWords
  <2>1. \A i \in DOMAIN <<x>> : i # Len(<<x>>) =>
           ~Turning(<<x>>[i]) /\ <<x>>[i].type \notin LastWords
    BY <1>5
  <2>2. <<x>>[Len(<<x>>)] = x /\ Len(<<x>>) \in Nat \ {0}
    BY <1>5
  <2>3. QED
    BY <1>2, <1>5, <2>1, <2>2, AddedLine
<1>7. /\ server' \in [tls : BOOLEAN, auth : BOOLEAN, state : {"listening", "done", "mute"}]
      /\ server'.tls = server.tls /\ server'.auth = server.auth
      /\ server'.state = IF w \in LastWords THEN "done" ELSE "listening"
  BY <1>1, <1>2 DEF Types, LinkTypes
<1>8. Types'
  <2>1. SocketTypes' /\ AuthTypes' /\ FlagTypes'
    BY <1>2 DEF Types, SocketTypes, AuthTypes, FlagTypes
  <2>2. LinkTypes'
    BY <1>2, <1>6, <1>7 DEF Types, LinkTypes, Idle
  <2>3. QED
    BY <2>1, <2>2 DEF Types
<1>9. /\ NothingAsked' <=> NothingAsked
      /\ \A S : Asked(S)' <=> Asked(S)
  BY <1>2 DEF NothingAsked, Asked
<1>10. \A i \in DOMAIN Line : Line[i].type \notin LastWords
  BY <1>2 DEF Turns, LastIsLast
<1>11. \A i \in DOMAIN Line' : Turning(Line'[i]) =>
          i \in DOMAIN Line \/ (i = Len(Line') /\ Turning(x))
  BY <1>6
<1>12. Turning(x) => \A i \in DOMAIN Line : ~Turning(Line[i])
  BY <1>3, <1>10 DEF Turning, LastWords
<1>13. OneAnswer'
  BY <1>6, <1>11, <1>12 DEF Turns, OneAnswer
<1>14. OneRequest'
  BY <1>2 DEF Turns, OneRequest
<1>15. NotBoth' /\ QuietWhileSecuring' /\ TurnIsUp'
  BY <1>2, <1>3, <1>6, <1>9, <1>11 DEF Turns, NotBoth, QuietWhileSecuring, TurnIsUp
<1>16. \A i \in DOMAIN Line' : Reply(Line'[i]) => i \in DOMAIN Line
  BY <1>3, <1>6 DEF Turning
<1>17. QuietInSession'
  BY <1>2, <1>6, <1>9, <1>16 DEF Turns, QuietInSession
<1>18. LastIsLast'
  BY <1>3, <1>6, <1>7, <1>10 DEF LastIsLast
<1>19. Turns'
  BY <1>13, <1>14, <1>15, <1>17, <1>18 DEF Turns
<1>20. ASSUME NEW S PROVE /\ Heard(S) => Heard(S)'
                          /\ S \subseteq Replies /\ Heard(S)' => Heard(S)
  <2>1. Heard(S) => Heard(S)'
    BY <1>6 DEF Heard
  <2>2. ASSUME S \subseteq Replies, NEW i \in DOMAIN Line', Line'[i].type \in S
        PROVE  Heard(S)
    BY <1>6, <1>16, <2>2 DEF Heard, Reply
  <2>3. QED
    BY <2>1, <2>2 DEF Heard
<1>21. Awaited'
  BY <1>2, <1>9, <1>20 DEF Knowledge, Awaited, Replies
<1>22. Known'
  BY <1>2, <1>7, <1>9, <1>20 DEF Knowledge, Known, Replies, Refusals
<1>23. FeaturesTrue'
  <2>1. \A i \in DOMAIN Line' : Line'[i].type = "features" => i \in DOMAIN Line
    BY <1>16 DEF Reply, Replies
  <2>2. QED
    BY <1>2, <1>6, <2>1 DEF Knowledge, FeaturesTrue
<1>24. RedirectWaits' /\ Moving'
  BY <1>2, <1>6, <1>7, <1>9 DEF Knowledge, RedirectWaits, Moving
<1>25. QED
  BY <1>8, <1>19, <1>21, <1>22, <1>23, <1>24 DEF Knowledge

-----------------------------------------------------------------------------
(* The theorems.                                                           *)

LEMMA StreamKept == StreamInv /\ [StreamNext]_negotiationVars => StreamInv'
<1> SUFFICES ASSUME StreamInv, [StreamNext]_negotiationVars PROVE StreamInv'
  OBVIOUS
<1>1. ASSUME NEW m \in Modes, ConnectToHost(m) PROVE StreamInv'
  BY <1>1, ConnectKept
<1>2. CASE CloseRequested \/ PingTimeout \/ SocketCloses
  BY <1>2, ClosesKept
<1>3. CASE SocketConnected
  BY <1>3, SocketConnectedKept
<1>4. CASE SocketError
  BY <1>4, ErrorKept
<1>5. CASE SocketEncrypted
  BY <1>5, EncryptedKept
<1>6. CASE SocketReadyRead
  BY <1>6, ReadKept
<1>7. CASE HandleStanza
  BY <1>7, HandleTypes, HandleKept DEF StreamInv
<1>8. CASE PingSend
  BY <1>8, PingKept
<1>9. CASE ServerAnswers
  BY <1>9, AnswersKept
<1>10. CASE ServerSpeaks
  BY <1>10, SpeaksKept
<1>11. CASE ServerDies
  BY <1>11, DiesKept
<1>12. CASE UNCHANGED negotiationVars
  <2>1. Types'
    BY <1>12 DEF StreamInv, Types, SocketTypes, AuthTypes, FlagTypes, LinkTypes, Idle
  <2>2. Line' = Line
    BY <1>12 DEF Line
  <2>3. Turns' /\ Knowledge'
    BY <1>12, <2>2, StillKept
  <2>4. QED
    BY <2>1, <2>3 DEF StreamInv
<1>13. QED
  BY <1>1, <1>2, <1>3, <1>4, <1>5, <1>6, <1>7, <1>8, <1>9, <1>10, <1>11, <1>12 DEF StreamNext

\* The client and the server take turns, and know of each other what they go by.
THEOREM StreamInvariant == StreamSpec => []StreamInv
  BY InitKept, StreamKept, PTL DEF StreamSpec

LEMMA TypesHold == StreamInv => StreamTypeOK
  BY DEF StreamInv, Types, SocketTypes, AuthTypes, FlagTypes, LinkTypes, StreamTypeOK, Idle

\* Every variable has its type; in particular nothing is on its way where there
\* is no connection, and a mechanism has answered no more often than it can.
THEOREM StreamTypeCorrect == StreamSpec => []StreamTypeOK
  BY TypesHold, StreamInvariant, PTL

\* However the stanzas are split into reads and whatever the server offers, the
\* negotiation does not come to a halt with each side waiting for the other,
\* unless the server has refused something.
THEOREM NegotiationNeverHalts == StreamSpec => []NegotiationConcludes
<1>1. ASSUME StreamInv PROVE NegotiationConcludes
  <2>1. ASSUME batch = <<>>, toClient = <<>>, toServer = <<>>
        PROVE  NothingAsked /\ ~\E i \in DOMAIN Line : Reply(Line[i])
    <3>1. Line = <<>>
      BY <2>1, LineEmpty
    <3>2. QED
      BY <2>1, <3>1 DEF NothingAsked
  <2>2. QED
    BY <1>1, <2>1 DEF StreamInv, Knowledge, Moving, NegotiationConcludes
<1>2. QED
  BY <1>1, StreamInvariant, PTL

\* Outside of a handler no session begins: a stream that was up goes on, and one
\* that comes up has to be negotiated.
LEMMA BeginsInHandler ==
  ASSUME StreamInv, [StreamNext]_negotiationVars, Sock # "session", Sock' = "session"
  PROVE  HandleStanza /\ Turning(Head(batch)) /\ HasSession
<1>1. tcp' = "connected" /\ sessionStarted'
  BY StreamKept DEF Sock, StreamInv, Types, SocketTypes
<1>2. tcp = "connected" => ~sessionStarted
  BY DEF Sock
<1>3. ~(\E t \in BOOLEAN : DisconnectFromHost(t) /\ NotStarted)
  BY <1>1, <1>2, DisconnectCases DEF DisconnectFromHost, SocketDisconnected, NotStarted
<1>4. ~CloseRequested /\ ~PingTimeout
  BY <1>3 DEF CloseRequested, PingTimeout, StreamInv, Types, FlagTypes
<1>5. ~SocketCloses /\ ~SocketConnected /\ ~SocketError /\ ~SocketEncrypted
  BY <1>1, <1>2 DEF SocketCloses, SocketDisconnected, SocketConnected, SocketError,
     SocketEncrypted, HandleStart
<1>6. ~SocketReadyRead /\ ~PingSend /\ ~ServerAnswers /\ ~ServerSpeaks /\ ~ServerDies
      /\ ~UNCHANGED negotiationVars /\ \A m \in Modes : ~ConnectToHost(m)
  BY <1>1, <1>2 DEF SocketReadyRead, PingSend, ServerAnswers, ServerSpeaks, ServerDies,
     ConnectToHost, NotStarted
<1>7. HandleStanza
  BY <1>4, <1>5, <1>6 DEF StreamNext
<1>8. Turning(Head(batch)) /\ HasSession
  BY <1>1, <1>2, <1>7, HandlerKinds DEF Takes, Asks, Secures, Ignores, StaysUp, Shuts, Ended
<1>9. QED
  BY <1>7, <1>8

\* Where the server insists on TLS the negotiation only goes on without it if
\* the client is told not to use it.
LEMMA TlsFirst ==
  ASSUME NEW x, Tls(x) = "go on", x.tls = "Required", ~encrypted
  PROVE  mode = "Disabled"
<1>1. CASE mode # "Disabled"
  <2>1. Tls(x) = "encrypt"
    BY <1>1 DEF Tls
  <2>2. QED
    BY <2>1
<1>2. QED
  BY <1>1

\* Of the handlers, those of the answers that end a negotiation report a
\* session, and that of features with nothing left to do.
LEMMA SessionBegins ==
  ASSUME NEW x, Informed(x), ~sessionStarted, sessionStarted',
         \/ HandleStream(x) \/ HandleFeatures(x) \/ HandleProceed(x)
         \/ HandleSuccess(x) \/ HandleChallenge(x) \/ HandleFailure(x)
         \/ HandleSessionReply(x) \/ HandleBindResult(x)
         \/ HandleLegacyResult(x) \/ HandleQueryReply(x)
         \/ HandleSeeOtherHost(x) \/ HandleOther(x)
  PROVE  authenticated' \/ (mode = "Disabled" /\ OnlyTls(x))
<1>1. ~NotStarted /\ ~HandleStart /\ ~UNCHANGED idVars
  BY DEF NotStarted, HandleStart, idVars
<1>2. ~HandleStream(x) /\ ~HandleProceed(x) /\ ~HandleSuccess(x) /\ ~HandleChallenge(x)
      /\ ~HandleFailure(x) /\ ~HandleQueryReply(x) /\ ~HandleSeeOtherHost(x) /\ ~HandleOther(x)
  BY <1>1 DEF HandleStream, HandleProceed, HandleSuccess, HandleChallenge, HandleFailure,
     HandleQueryReply, HandleSeeOtherHost, HandleOther
<1>3. CASE HandleSessionReply(x)
  BY <1>3 DEF HandleSessionReply, Informed, authVars
<1>4. CASE HandleBindResult(x)
  <2>1. authenticated
    BY <1>4 DEF HandleBindResult, Informed
  <2>2. authenticated' = authenticated
    BY <1>4 DEF HandleBindResult, OnlySends
  <2>3. QED
    BY <2>1, <2>2
<1>5. CASE HandleLegacyResult(x)
  BY <1>5 DEF HandleLegacyResult
<1>6. CASE HandleFeatures(x)
  <2>1. /\ x.type = "features" /\ Tls(x) = "go on" /\ x.mech = "none" /\ ~x.legacy
        /\ authenticated' = authenticated
    BY <1>1, <1>6 DEF HandleFeatures, AfterFeatures, OnlySends
  <2>2. CASE x.tls = "Required"
    BY <2>1, <2>2, TlsFirst DEF Informed, OnlyTls
  <2>3. CASE x.tls # "Required"
    BY <2>1, <2>3 DEF Informed
  <2>4. QED
    BY <2>2, <2>3
<1>7. QED
  BY <1>2, <1>3, <1>4, <1>5, <1>6

\* A session is only ever reported on a stream that has been authenticated, in
\* every security mode but for what a client told to do without TLS makes of
\* features that offer nothing but TLS.
THEOREM SessionNeedsAuthentication == StreamSpec => SessionIsAuthenticated
<1> DEFINE Allowed == \/ authenticated'
                      \/ mode = "Disabled" /\ batch # <<>> /\ OnlyTls(Head(batch))
<1>1. ASSUME StreamInv, [StreamNext]_negotiationVars
      PROVE  [Sock # "session" /\ Sock' = "session" => Allowed]_negotiationVars
  <2>1. SUFFICES ASSUME StreamNext, Sock # "session", Sock' = "session" PROVE Allowed
    BY <1>1
  <2>2. HandleStanza /\ HasSession
    BY <1>1, <2>1, BeginsInHandler
  <2>3. Informed(Head(batch)) /\ batch # <<>> /\ ~sessionStarted /\ sessionStarted'
    BY <1>1, <2>2, AnswerFacts DEF HandleStanza, HasSession
  <2>4. QED
    BY <2>2, <2>3, SessionBegins DEF HandleStanza
<1>2. QED
  BY <1>1, StreamInvariant, PTL DEF StreamSpec, SessionIsAuthenticated

-----------------------------------------------------------------------------
(* The refinement of StreamContract.                                       *)

\* A step of the contract's stream, or none.
Moves == Coarse!Lives \/ UNCHANGED <<Sock, redirectHost, pingTimer>>

SockStates == {"unconnected", "connecting", "aborting", "negotiating", "session", "closing"}

LEMMA SockFacts ==
  ASSUME StreamInv
  PROVE  /\ Sock \in SockStates
         /\ Sock \in {"negotiating", "session"} <=> tcp = "connected"
         /\ tcp # "connected" => Sock = tcp
         /\ redirectHost \in BOOLEAN /\ (redirectHost => Sock = "closing")
  BY RedirectFacts DEF Sock, SockStates, StreamInv, Types, SocketTypes

LEMMA CloseMoves ==
  ASSUME StreamInv, StreamInv', Shuts \/ Ended PROVE Moves
<1> USE DEF Moves, Coarse!Lives
<1>1. /\ Sock \in SockStates
      /\ Sock \in {"negotiating", "session"} <=> tcp = "connected"
      /\ tcp # "connected" => Sock = tcp
      /\ redirectHost \in BOOLEAN /\ (redirectHost => Sock = "closing")
      /\ tcp' # "connected" => Sock' = tcp'
      /\ redirectHost' \in BOOLEAN
  BY SockFacts DEF Sock, StreamInv, Types, FlagTypes
<1>2. CASE Shuts
  <2>1. CASE tcp = "connected"
    <3>1. /\ Sock \in {"negotiating", "session"} /\ Sock' = "closing"
          /\ pingTimer' = pingTimer /\ redirectHost' \in {redirectHost, TRUE}
      BY <1>1, <1>2, <2>1 DEF Shuts
    <3>2. QED
      BY <3>1 DEF Coarse!BeginsClose
  <2>2. CASE tcp = "connecting"
    <3>1. /\ Sock = "connecting" /\ Sock' = "aborting"
          /\ pingTimer' = pingTimer /\ redirectHost' = redirectHost
      BY <1>1, <1>2, <2>2 DEF Shuts
    <3>2. QED
      BY <3>1 DEF Coarse!BeginsClose
  <2>3. CASE tcp \notin {"connected", "connecting"}
    <3>1. UNCHANGED <<Sock, redirectHost, pingTimer>>
      BY <1>1, <1>2, <2>3 DEF Shuts
    <3>2. QED
      BY <3>1
  <2>4. QED
    BY <2>1, <2>2, <2>3
<1>3. CASE Ended
  <2>1. Sock \in {"negotiating", "session", "closing"} /\ redirectHost' = FALSE /\ Sock' = tcp'
    BY <1>1, <1>3 DEF Ended
  <2>2. CASE tcp' = "unconnected" /\ ~redirectHost /\ pingTimer' = FALSE
    BY <2>1, <2>2 DEF Coarse!Ends
  <2>3. CASE tcp' = "connecting" /\ pingTimer' = pingTimer /\ (tcp = "closing" <=> redirectHost)
    <3>1. \/ Sock \in {"negotiating", "session"} /\ ~redirectHost
          \/ Sock = "closing" /\ redirectHost
      BY <1>1, <1>3, <2>3 DEF Ended
    <3>2. QED
      BY <2>1, <2>3, <3>1 DEF Coarse!MovesOn
  <2>4. QED
    BY <1>3, <2>2, <2>3 DEF Ended
<1>4. QED
  BY <1>2, <1>3

\* A handler begins a session, or a close, or nothing the client hears of.
LEMMA HandleMoves ==
  ASSUME StreamInv, StreamInv', HandleStanza PROVE Moves
<1>1. CASE Ignores
  <2>1. UNCHANGED <<Sock, redirectHost, pingTimer>>
    BY <1>1 DEF Ignores, StaysUp, Sock
  <2>2. QED
    BY <2>1 DEF Moves
<1>2. CASE Turning(Head(batch)) /\ Takes
  <2>1. tcp = "connected"
    BY <1>2, TurnFacts DEF StreamInv, HandleStanza
  <2>2. CASE Shuts \/ Ended
    BY <2>2, CloseMoves
  <2>3. CASE HasSession
    <3>1. tcp' = tcp /\ redirectHost' = redirectHost /\ pingTimer' = TRUE /\ sessionStarted' = TRUE
      BY <2>3 DEF HasSession, StaysUp
    <3>2. Sock' = "session"
      BY <2>1, <3>1 DEF Sock
    <3>3. Sock = "negotiating"
      BY <2>1, <2>3 DEF HasSession, Sock
    <3>4. QED
      BY <3>1, <3>2, <3>3 DEF Moves, Coarse!Lives, Coarse!BeginsSession
  <2>4. CASE \/ Secures \/ Ignores
             \/ \E m \in ClientSays \ {"ping"} : Asks(m)
    <3>1. UNCHANGED <<tcp, redirectHost, pingTimer>> /\ (sessionStarted' <=> sessionStarted)
      BY <2>4 DEF Secures, Ignores, Asks, StaysUp
    <3>2. UNCHANGED <<Sock, redirectHost, pingTimer>>
      BY <3>1 DEF Sock
    <3>3. QED
      BY <3>2 DEF Moves
  <2>5. QED
    BY <1>2, <2>2, <2>3, <2>4 DEF Takes
<1>3. QED
  BY <1>1, <1>2, HandlerKinds

LEMMA OtherMoves ==
  ASSUME StreamInv, StreamInv', StreamNext, ~HandleStanza PROVE Moves
<1>1. ASSUME NEW m \in Modes, ConnectToHost(m) PROVE Moves
  <2>1. UNCHANGED <<redirectHost, pingTimer, sessionStarted>>
    BY <1>1 DEF ConnectToHost, NotStarted
  <2>2. CASE tcp = "unconnected"
    BY <1>1, <2>1, <2>2 DEF ConnectToHost, Sock, Moves, Coarse!Lives, Coarse!Opens
  <2>3. CASE tcp # "unconnected"
    BY <1>1, <2>1, <2>3 DEF ConnectToHost, Sock, Moves
  <2>4. QED
    BY <2>2, <2>3
<1>2. CASE CloseRequested \/ PingTimeout
  <2>1. PICK t \in BOOLEAN : DisconnectFromHost(t)
    BY <1>2 DEF CloseRequested, PingTimeout, StreamInv, Types, FlagTypes
  <2>2. NotStarted /\ nonSASLAuthId' = nonSASLAuthId
    BY <1>2 DEF CloseRequested, PingTimeout, Unread
  <2>3. QED
    BY <2>1, <2>2, DisconnectCases, CloseMoves
<1>3. CASE SocketCloses
  <2>1. Ended
    BY <1>3, RedirectFacts DEF SocketCloses, SocketDisconnected, Ended, NotStarted, Unread
  <2>2. QED
    BY <2>1, CloseMoves
<1>4. CASE SocketConnected
  <2>1. UNCHANGED <<redirectHost, pingTimer>>
    BY <1>4 DEF SocketConnected
  <2>2. CASE tcp = "connecting" /\ tcp' = "connected" /\ ~sessionStarted'
    BY <2>1, <2>2 DEF Sock, Moves, Coarse!Lives, Coarse!Connects
  <2>3. CASE tcp = "aborting" /\ tcp' = "closing"
    BY <2>1, <2>3 DEF Sock, Moves, Coarse!Lives, Coarse!BeginsClose
  <2>4. QED
    BY <1>4, <2>2, <2>3 DEF SocketConnected, HandleStart
<1>5. CASE SocketError
  BY <1>5 DEF SocketError, Sock, Moves, Coarse!Lives, Coarse!Fails
<1>6. CASE SocketEncrypted
  <2>1. ~sessionStarted
    BY <1>6 DEF SocketEncrypted, StreamInv, Turns, QuietInSession
  <2>2. QED
    BY <1>6, <2>1 DEF SocketEncrypted, HandleStart, Sock, Moves
<1>7. CASE SocketReadyRead \/ PingSend \/ ServerAnswers \/ ServerSpeaks \/ ServerDies
  <2>1. UNCHANGED <<tcp, sessionStarted, redirectHost, pingTimer>>
    BY <1>7 DEF SocketReadyRead, PingSend, ServerAnswers, ServerSpeaks, ServerDies, NotStarted
  <2>2. QED
    BY <2>1 DEF Sock, Moves
<1>8. QED
  BY <1>1, <1>2, <1>3, <1>4, <1>5, <1>6, <1>7 DEF StreamNext

\* Whatever is read in one slot, offered, refused or lost, the client above it
\* sees a stream that opens, begins a session, moves to another host and ends
\* as the contract has it; in particular no handler touches the keep-alive of a
\* stream that is being closed, and no session is begun twice.
THEOREM ContractKept == StreamSpec => StreamKeepsContract
<1>1. StreamInit => Coarse!Rest
  BY DEF StreamInit, Coarse!Rest, Sock
<1>2. ASSUME StreamInv, StreamInv', [StreamNext]_negotiationVars
      PROVE  [Coarse!ContractNext]_Coarse!contractVars
  <2>1. CASE UNCHANGED negotiationVars
    BY <2>1 DEF Coarse!contractVars, Sock
  <2>2. CASE StreamNext
    <3>1. Moves
      BY <1>2, <2>2, HandleMoves, OtherMoves
    <3>2. QED
      BY <3>1 DEF Moves, Coarse!ContractNext, Coarse!contractVars
  <2>3. QED
    BY <1>2, <2>1, <2>2
<1>3. QED
  BY <1>1, <1>2, StreamInvariant, PTL DEF StreamSpec, StreamKeepsContract, Coarse!ContractSpec
=============================================================================
