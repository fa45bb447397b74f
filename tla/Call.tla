-------------------------------- MODULE Call --------------------------------
(***************************************************************************)
(* A call between two clients with QXmppCallManager: the invitation, its   *)
(* acceptance, a video stream added later, and the end of the call at both *)
(* parties.                                                                *)
(*                                                                         *)
(* The server keeps the order of the stanzas of a party, drops those for a *)
(* party that is off line, and tells the other one when a party goes.  Of  *)
(* the acknowledgements only that of session-terminate does anything when  *)
(* it arrives; the others are left out.  The streams of media are seen     *)
(* only as far as their descriptions: whether ICE connects them decides    *)
(* nothing here but when hangup is called.                                 *)
(***************************************************************************)
EXTENDS Naturals, Sequences

CONSTANT MaxDrops    \* bound on the losses of a connection to the server

ASSUME DropsAssumption == MaxDrops \in Nat

VARIABLES
    callState,    \* of the call of each party; "unknown": it has none
    unacked,      \* requests: its session-terminates not acknowledged yet
    forced,       \* the single shots to terminated() that are pending
    voice,        \* the audio stream has the description of the other party
    webcam,       \* the video stream: none, with or without that description
    inbox,        \* stanzas on their way to each party
    online, drops

callVars == <<callState, unacked, forced, voice, webcam, inbox, online, drops>>

Party == {"caller", "callee"}
Peer(p) == IF p = "caller" THEN "callee" ELSE "caller"

CallTypeOK ==
    /\ callState \in [Party ->
          {"unknown", "connecting", "active", "disconnecting", "finished"}]
    /\ unacked \in [Party -> 0..2] /\ forced \in [Party -> 0..2]
    /\ voice \in [Party -> BOOLEAN]
    /\ webcam \in [Party -> {"none", "offered", "described"}]
    /\ online \in [Party -> BOOLEAN] /\ drops \in 0..MaxDrops
    /\ \A p \in Party : callState[p] = "disconnecting" => forced[p] > 0

CallInit ==
    /\ callState = [p \in Party |-> "unknown"]
    /\ unacked = [p \in Party |-> 0] /\ forced = [p \in Party |-> 0]
    /\ voice = [p \in Party |-> FALSE] /\ webcam = [p \in Party |-> "none"]
    /\ inbox = [p \in Party |-> <<>>]
    /\ online = [p \in Party |-> TRUE] /\ drops = 0

-----------------------------------------------------------------------------
\* sendPacket of p, of these stanzas in this order, after taking the stanza it
\* handles from its inbox.
Post(p, stanzas) ==
    inbox' = IF online[p] /\ online[Peer(p)]
             THEN [inbox EXCEPT ![Peer(p)] = @ \o stanzas] ELSE inbox

Answer(p, stanzas) ==
    inbox' = [inbox EXCEPT ![p] = Tail(@),
                           ![Peer(p)] = IF online[Peer(p)] THEN @ \o stanzas ELSE @]

Steady == UNCHANGED <<callState, unacked, forced>>
Streams == UNCHANGED <<voice, webcam>>
Lines == UNCHANGED <<online, drops>>

Live(p) == callState[p] \in {"connecting", "active"}

\* terminate, except for the stanza.
Disconnecting(p) ==
    /\ callState' = [callState EXCEPT ![p] = "disconnecting"]
    /\ unacked' = [unacked EXCEPT ![p] = @ + 1]
    /\ forced' = [forced EXCEPT ![p] = @ + 1]

\* call
Invite ==
    /\ callState["caller"] = "unknown"
    /\ callState' = [callState EXCEPT !["caller"] = "connecting"]
    /\ Post("caller", <<"initiate">>)
    /\ UNCHANGED <<unacked, forced>> /\ Streams /\ Lines

\* accept
AcceptCall ==
    /\ callState["callee"] = "connecting"
    /\ callState' = [callState EXCEPT !["callee"] = "active"]
    /\ Post("callee", <<"accept">>)
    /\ UNCHANGED <<unacked, forced>> /\ Streams /\ Lines

\* hangup, by the user or because a stream's connection failed.
Hangup(p) ==
    /\ Live(p)
    /\ Disconnecting(p) /\ Post(p, <<"terminate">>)
    /\ Streams /\ Lines

\* The 5 s are over: terminated.
ForcedEnd(p) ==
    /\ forced[p] > 0
    /\ forced' = [forced EXCEPT ![p] = @ - 1]
    /\ callState' = [callState EXCEPT ![p] = "finished"]
    /\ UNCHANGED <<unacked, inbox>> /\ Streams /\ Lines

\* startVideo; the video stream is offered once.
StartVideo(p) ==
    /\ callState[p] = "active" /\ webcam[p] = "none"
    /\ webcam' = [webcam EXCEPT ![p] = "offered"]
    /\ Post(p, <<"content-add">>)
    /\ Steady /\ Lines /\ UNCHANGED voice

-----------------------------------------------------------------------------
(* _q_jingleIqReceived and handleRequest, _q_iqReceived and handleAck,     *)
(* _q_presenceReceived.                                                    *)

\* session-initiate; the call is deleted again if its media do not fit.
HandleInitiate(p) ==
    /\ Head(inbox[p]) = "initiate"
    /\ \/ /\ callState' = [callState EXCEPT ![p] = "connecting"]
          /\ voice' = [voice EXCEPT ![p] = TRUE]
          /\ Answer(p, <<>>)
       \/ Answer(p, <<"terminate">>) /\ UNCHANGED <<callState, voice>>
    /\ UNCHANGED <<unacked, forced, webcam>>

\* A call that is not known, or no longer, answers nothing.
HandleUnknown(p) ==
    /\ Head(inbox[p]) # "initiate" /\ callState[p] = "unknown"
    /\ Answer(p, <<>>) /\ Steady /\ Streams

\* session-accept, whatever the state of the call.
HandleAccept(p) ==
    /\ Head(inbox[p]) = "accept"
    /\ \/ /\ callState' = [callState EXCEPT ![p] = "active"]
          /\ voice' = [voice EXCEPT ![p] = TRUE]
          /\ Answer(p, <<>>) /\ UNCHANGED <<unacked, forced>>
       \/ /\ Live(p) /\ Disconnecting(p)
          /\ Answer(p, <<"terminate">>) /\ UNCHANGED voice
       \/ /\ ~Live(p) /\ Steady
          /\ Answer(p, <<>>) /\ UNCHANGED voice
    /\ UNCHANGED webcam

\* Mutant: a hangup that comes while the call is connecting is only acknowledged.
HandleTerminateOnce(p) ==
    /\ Head(inbox[p]) = "terminate" /\ callState[p] # "unknown"
    /\ callState' = IF callState[p] = "connecting" THEN callState
                    ELSE [callState EXCEPT ![p] = "finished"]
    /\ Answer(p, <<"ack">>) /\ UNCHANGED <<unacked, forced>> /\ Streams

\* session-terminate
HandleTerminate(p) ==
    /\ Head(inbox[p]) = "terminate" /\ callState[p] # "unknown"
    /\ callState' = [callState EXCEPT ![p] = "finished"]
    /\ Answer(p, <<"ack">>) /\ UNCHANGED <<unacked, forced>> /\ Streams

\* The acknowledgement of a session-terminate.
HandleAck(p) ==
    /\ Head(inbox[p]) = "ack" /\ callState[p] # "unknown"
    /\ unacked' = [unacked EXCEPT ![p] = @ - 1]
    /\ callState' = [callState EXCEPT ![p] = "finished"]
    /\ Answer(p, <<>>) /\ UNCHANGED forced /\ Streams

\* content-add; it is ignored if there is a video stream already, and refused
\* if its media do not fit.
HandleContentAdd(p) ==
    /\ Head(inbox[p]) = "content-add" /\ callState[p] # "unknown"
    /\ \/ webcam[p] # "none" /\ Answer(p, <<>>) /\ UNCHANGED webcam
       \/ /\ webcam[p] = "none"
          /\ webcam' = [webcam EXCEPT ![p] = "described"]
          /\ Answer(p, <<"content-accept">>)
       \/ webcam[p] = "none" /\ Answer(p, <<"content-reject">>) /\ UNCHANGED webcam
    /\ Steady /\ UNCHANGED voice

\* content-accept
HandleContentAccept(p) ==
    /\ Head(inbox[p]) = "content-accept" /\ callState[p] # "unknown"
    /\ webcam' = [webcam EXCEPT ![p] = "described"]
    /\ Answer(p, <<>>) /\ Steady /\ UNCHANGED voice

\* content-reject is not handled.
HandleContentReject(p) ==
    /\ Head(inbox[p]) = "content-reject" /\ callState[p] # "unknown"
    /\ Answer(p, <<>>) /\ Steady /\ Streams

\* The other party has gone: terminate.
HandleUnavailable(p) ==
    /\ Head(inbox[p]) = "unavailable" /\ callState[p] # "unknown"
    /\ \/ Live(p) /\ Disconnecting(p) /\ Answer(p, <<"terminate">>)
       \/ ~Live(p) /\ Steady /\ Answer(p, <<>>)
    /\ Streams

ReceiveStanza(p) ==
    /\ online[p] /\ inbox[p] # <<>>
    /\ \/ HandleInitiate(p) \/ HandleUnknown(p) \/ HandleAccept(p)
       \/ HandleTerminate(p) \/ HandleAck(p)
       \/ HandleContentAdd(p) \/ HandleContentAccept(p) \/ HandleContentReject(p)
       \/ HandleUnavailable(p)
    /\ Lines

-----------------------------------------------------------------------------
\* The connection to the server is lost: _q_disconnected.  The stanza of
\* terminate is not sent.
DropLine(p) ==
    /\ online[p] /\ drops < MaxDrops
    /\ online' = [online EXCEPT ![p] = FALSE] /\ drops' = drops + 1
    /\ inbox' = [inbox EXCEPT ![p] = <<>>,
                    ![Peer(p)] = IF online[Peer(p)] THEN Append(@, "unavailable") ELSE @]
    /\ (Live(p) /\ Disconnecting(p)) \/ (~Live(p) /\ Steady)
    /\ Streams

Reconnect(p) ==
    /\ ~online[p]
    /\ online' = [online EXCEPT ![p] = TRUE]
    /\ UNCHANGED <<inbox, drops>> /\ Steady /\ Streams

CallNext ==
    \/ Invite \/ AcceptCall
    \/ \E p \in Party :
          \/ Hangup(p) \/ ForcedEnd(p) \/ StartVideo(p)
          \/ ReceiveStanza(p) \/ DropLine(p) \/ Reconnect(p)

CallSpec == CallInit /\ [][CallNext]_callVars

-----------------------------------------------------------------------------
(* Properties.                                                             *)

CallSettled ==
    /\ \A p \in Party : inbox[p] = <<>> /\ forced[p] = 0
    /\ online = [p \in Party |-> TRUE]

\* When nothing is under way any more neither party is left talking alone: not
\* after a hangup that crosses the acceptance, nor a lost connection.  Two
\* parties that talk have described their media to each other.
PartiesAgree ==
    CallSettled =>
        /\ callState["caller"] = "active" <=> callState["callee"] = "active"
        /\ callState["caller"] = "active" =>
              /\ \A p \in Party : voice[p]
              /\ webcam["caller"] = "described" <=> webcam["callee"] = "described"
=============================================================================
