--------------------------------- MODULE Ice ---------------------------------
(***************************************************************************)
(* Connectivity checks between the QXmppIceConnections of two agents.      *)
(*                                                                         *)
(* A path is a pair of addresses, one of each agent, for each component; a *)
(* higher number is a higher priority.  The paths are UDP: what has been   *)
(* sent once may be delivered late, more than once or never, so that none  *)
(* of it is ever taken back, and a path may be open in one direction only. *)
(* Gathering the local candidates is the business of module Turn.          *)
(***************************************************************************)
EXTENDS Naturals

CONSTANTS
    Components,    \* RTP and RTCP
    Paths          \* how many candidate pairs a component has

ASSUME PathsAssumption == Paths \in Nat

VARIABLES
    reaches,       \* per path, the agents whose datagrams arrive
    remoteUser,    \* the agent has the user, password and candidates of the other
    checking,      \* m_timer of the component runs
    checked,       \* per pair, what has been found to work
    activePair,    \* of the component, found to work; 0: none
    fallbackPair,  \* the one used while there is no active pair; 0: none
    connectTimer,  \* of the connection: idle or running
    socketsOpen,
    datagrams      \* sent so far: <<sender, component, path, kind>>

iceVars == <<reaches, remoteUser, checking, checked, activePair, fallbackPair,
             connectTimer, socketsOpen, datagrams>>

Agent == {"controlling", "controlled"}
OtherAgent(a) == IF a = "controlling" THEN "controlled" ELSE "controlling"
Path == 1..Paths
BothWays == {"read", "write"}
Kinds == {"request", "response", "data"}

IceTypeOK ==
    /\ reaches \in [Path -> SUBSET Agent]
    /\ remoteUser \in [Agent -> BOOLEAN]
    /\ checking \in [Agent -> [Components -> BOOLEAN]]
    /\ checked \in [Agent -> [Components -> [Path -> SUBSET BothWays]]]
    /\ activePair \in [Agent -> [Components -> 0..Paths]]
    /\ fallbackPair \in [Agent -> [Components -> 0..Paths]]
    /\ connectTimer \in [Agent -> BOOLEAN] /\ socketsOpen \in [Agent -> BOOLEAN]
    /\ datagrams \subseteq Agent \X Components \X Path \X Kinds
    /\ \A a \in Agent, c \in Components : activePair[a][c] # 0 =>
          checked[a][c][activePair[a][c]] = BothWays

IceInit ==
    /\ reaches \in [Path -> SUBSET Agent]
    /\ remoteUser = [a \in Agent |-> FALSE]
    /\ checking = [a \in Agent |-> [c \in Components |-> FALSE]]
    /\ checked = [a \in Agent |-> [c \in Components |-> [p \in Path |-> {}]]]
    /\ activePair = [a \in Agent |-> [c \in Components |-> 0]]
    /\ fallbackPair = [a \in Agent |-> [c \in Components |-> 0]]
    /\ connectTimer = [a \in Agent |-> FALSE]
    /\ socketsOpen = [a \in Agent |-> TRUE]
    /\ datagrams = {}

-----------------------------------------------------------------------------
\* isConnected of the connection.
NegotiationDone(a) == \A c \in Components : activePair[a][c] # 0

\* checkCandidates of these components: a request on every pair.
Requests(a, components) ==
    IF socketsOpen[a] THEN {<<a, c, p, "request">> : c \in components, p \in Path} ELSE {}

\* setRemoteUser, addRemoteCandidate and connectToHost, when the description
\* of the other agent comes (QXmppCallManager.cpp, handleTransport); more
\* candidates come the same way.  The first pair that has a socket of its own
\* is the one to fall back on.
BeginChecks(a) ==
    /\ ~connectTimer[a] /\ ~NegotiationDone(a)
    /\ remoteUser' = [remoteUser EXCEPT ![a] = TRUE]
    /\ connectTimer' = [connectTimer EXCEPT ![a] = TRUE]
    /\ LET begun == {c \in Components : activePair[a][c] = 0} IN
         /\ checking' = [checking EXCEPT ![a] =
                            [c \in Components |-> c \in begun \/ checking[a][c]]]
         /\ datagrams' = datagrams \cup Requests(a, begun)
    /\ \E first \in [Components -> 0..Paths] :
          fallbackPair' = [fallbackPair EXCEPT ![a] =
              [c \in Components |->
                  IF fallbackPair[a][c] = 0 THEN first[c] ELSE fallbackPair[a][c]]]
    /\ UNCHANGED <<reaches, checked, activePair, socketsOpen>>

\* The timer of the component: checkCandidates again.
CheckCandidates(a, c) ==
    /\ checking[a][c] /\ remoteUser[a]
    /\ datagrams' = datagrams \cup Requests(a, {c})
    /\ UNCHANGED <<reaches, remoteUser, checking, checked, activePair, fallbackPair,
                   connectTimer, socketsOpen>>

\* The end of handleDatagram: something more is known of a pair.  The checks
\* of the component end with the first pair that works; slotConnected stops
\* the clock when every component has one.
Found(a, c, p, ways) ==
    LET known == checked[a][c][p] \cup ways
        complete == known = BothWays
        better == complete /\ p > activePair[a][c]
    IN
    /\ checked' = [checked EXCEPT ![a][c][p] = known]
    /\ checking' = [checking EXCEPT ![a][c] = @ /\ ~complete]
    /\ activePair' = [activePair EXCEPT ![a][c] = IF better THEN p ELSE @]
    /\ connectTimer' = [connectTimer EXCEPT ![a] =
                           @ /\ ~(better /\ \A d \in Components \ {c} : activePair[a][d] # 0)]

Arrives(a, c, p, kind) ==
    /\ socketsOpen[a] /\ OtherAgent(a) \in reaches[p]
    /\ <<OtherAgent(a), c, p, kind>> \in datagrams
    /\ UNCHANGED <<reaches, remoteUser, socketsOpen>>

\* Mutant: whoever is asked takes the path for one that works both ways.
HandleRequestTrusting(a, c, p) ==
    /\ Arrives(a, c, p, "request")
    /\ Found(a, c, p, BothWays)
    /\ datagrams' = datagrams \cup {<<a, c, p, "response">>}
    /\ UNCHANGED fallbackPair

\* handleDatagram, of a binding request: it is answered on the pair it came
\* from; the controlled agent checks that pair in its turn.
HandleRequest(a, c, p) ==
    /\ Arrives(a, c, p, "request")
    /\ Found(a, c, p, {"read"})
    /\ datagrams' = datagrams \cup {<<a, c, p, "response">>} \cup
          IF a = "controlled" /\ activePair[a][c] = 0 /\ remoteUser[a]
          THEN {<<a, c, p, "request">>} ELSE {}
    /\ UNCHANGED fallbackPair

\* handleDatagram, of a binding response.
HandleResponse(a, c, p) ==
    /\ remoteUser[a]
    /\ Arrives(a, c, p, "response")
    /\ Found(a, c, p, {"write"})
    /\ UNCHANGED <<fallbackPair, datagrams>>

\* handleDatagram, of media: the first pair with the address it came from is
\* the one to fall back on, whichever socket that pair has, if one has been
\* added to the component.
HandleData(a, c, p) ==
    /\ Arrives(a, c, p, "data")
    /\ \/ \E q \in Path :
             /\ remoteUser[a] \/ "read" \in checked[a][c][q]
             /\ fallbackPair' = [fallbackPair EXCEPT ![a][c] = q]
       \/ ~remoteUser[a] /\ "read" \notin checked[a][c][p] /\ UNCHANGED fallbackPair
    /\ UNCHANGED <<checking, checked, activePair, connectTimer, datagrams>>

\* Mutant: what was last heard from is preferred to what was checked.
MediaPairLastHeard(a, c) ==
    IF fallbackPair[a][c] # 0 THEN fallbackPair[a][c] ELSE activePair[a][c]

\* The pair sendDatagram takes.
MediaPair(a, c) == IF activePair[a][c] # 0 THEN activePair[a][c] ELSE fallbackPair[a][c]

\* sendDatagram: media of the call, which may begin before the checks end.
SendDatagram(a, c) ==
    /\ socketsOpen[a] /\ MediaPair(a, c) # 0
    /\ datagrams' = datagrams \cup {<<a, c, MediaPair(a, c), "data">>}
    /\ UNCHANGED <<reaches, remoteUser, checking, checked, activePair, fallbackPair,
                   connectTimer, socketsOpen>>

\* close: by the call, or by slotTimeout after 30 s.
CloseComponents(a) ==
    /\ socketsOpen' = [socketsOpen EXCEPT ![a] = FALSE]
    /\ checking' = [checking EXCEPT ![a] = [c \in Components |-> FALSE]]
    /\ activePair' = [activePair EXCEPT ![a] = [c \in Components |-> 0]]
    /\ connectTimer' = [connectTimer EXCEPT ![a] = FALSE]
    /\ UNCHANGED <<reaches, remoteUser, checked, fallbackPair, datagrams>>

IceTimeout(a) == connectTimer[a] /\ CloseComponents(a)
IceClose(a) == socketsOpen[a] /\ CloseComponents(a)

IceNext ==
    \E a \in Agent :
       \/ BeginChecks(a) \/ IceTimeout(a) \/ IceClose(a)
       \/ \E c \in Components :
             \/ CheckCandidates(a, c) \/ SendDatagram(a, c)
             \/ \E p \in Path :
                   HandleRequest(a, c, p) \/ HandleResponse(a, c, p) \/ HandleData(a, c, p)

IceSpec == IceInit /\ [][IceNext]_iceVars

-----------------------------------------------------------------------------
(* Properties.                                                             *)

\* Once the checks have selected a pair, media goes over one that works in both
\* directions, whatever has been heard meanwhile and from where; and an agent
\* stops its checks only when the other one has seen them: what that one still
\* lacks is an answer, which the agent goes on giving.  Nothing is promised of
\* media sent earlier: the pair to fall back on may lead nowhere.
PathWorks ==
    \A a \in Agent, c \in Components : activePair[a][c] # 0 =>
       /\ reaches[MediaPair(a, c)] = Agent
       /\ "read" \in checked[OtherAgent(a)][c][MediaPair(a, c)]
=============================================================================
