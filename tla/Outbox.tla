------------------------------- MODULE Outbox -------------------------------
(***************************************************************************)
(* How a text the user types leaves the service: send_message (OTR.cpp),   *)
(* which asks libotr what to send, sendXMPPMessageTo, which writes it or   *)
(* caches it in m_MessageBuffer, and rosterReceived, which sends the cache *)
(* when a session is up (XMPPService.cpp).  The message state of libotr    *)
(* (message.c, under the policy ALLOW_V2: one context per contact) and the *)
(* glue's own flag g_encrypted decide in which form it leaves.             *)
(*                                                                         *)
(* All of it runs in one event loop.  The flush of the cache is a loop     *)
(* inside one slot; it is unrolled here, and nothing else runs meanwhile.  *)
(***************************************************************************)
EXTENDS Naturals, Sequences

CONSTANTS
    Contacts,
    Texts,      \* what the user types
    None,       \* no message
    MaxSends,   \* bound on the texts typed
    MaxCached   \* bound on the cache, where a flush could fill it for ever

Query == "?OTRv23?"
Empty == ""

ASSUME TextsAssumption == Query \notin Texts /\ Empty \notin Texts
ASSUME BoundsAssumption == MaxSends \in Nat /\ MaxCached \in Nat

VARIABLES
    alive,           \* the process runs
    stream,          \* the XMPP socket: "off", "up", or "session"
    connected,       \* m_Connected
    rosterHeld,      \* mutexLoadLocal is locked and nobody will unlock it
    loop,            \* the event loop: "idle", in the "flush", or "blocked"
    m_MessageBuffer,
    msgstate,        \* libotr, per contact: context->msgstate
    lastmessage,     \* libotr: the text kept to be sent again, or None
    may_retransmit,  \* libotr: the contacts whose kept text may be
    g_encrypted,     \* the contacts the glue takes for encrypted
    ui,              \* a UI client is connected
    uiSecure,        \* the conversations it has been told are secure
    sends,           \* history: the texts typed so far, their last id
    wire             \* history: what was written to the XMPP socket

otrVars == <<msgstate, lastmessage, may_retransmit>>
uiVars == <<ui, uiSecure>>
connVars == <<alive, stream, connected, rosterHeld>>
vars == <<connVars, loop, m_MessageBuffer, otrVars, g_encrypted, uiVars,
          sends, wire>>

\* The id is history: it tells texts that look alike apart (0: no text of
\* the user).  layers counts the encryptions around the body.
Message == [id : Nat, to : Contacts, body : Texts \cup {Query, Empty},
            layers : Nat]
Written == [msg : Message, resent : BOOLEAN]

ASSUME NoneAssumption == None \notin Message

\* Types; and a text kept by libotr belongs to a private conversation that
\* still goes on, so that it never leaves under the keys of a later one.
OutTypeOK ==
    /\ alive \in BOOLEAN /\ connected \in BOOLEAN /\ rosterHeld \in BOOLEAN
    /\ stream \in {"off", "up", "session"}
    /\ loop \in {"idle", "flush", "blocked"}
    /\ m_MessageBuffer \in Seq(Message)
    /\ msgstate \in [Contacts -> {"plaintext", "encrypted", "finished"}]
    /\ lastmessage \in [Contacts -> Message \cup {None}]
    /\ may_retransmit \subseteq Contacts
    /\ g_encrypted \subseteq Contacts
    /\ ui \in BOOLEAN /\ uiSecure \subseteq Contacts
    /\ sends \in Nat /\ wire \subseteq Written
    /\ \A c \in Contacts :
          lastmessage[c] # None \/ c \in may_retransmit
             => msgstate[c] = "encrypted"

-----------------------------------------------------------------------------
(* What the user interface is told; nothing when none is connected.        *)

GoneSecure(c) == uiSecure' = IF ui THEN uiSecure \cup {c} ELSE uiSecure
GoneUnsecure(c) == uiSecure' = uiSecure \ {c}

\* Mutant: the text kept for resending outlives the conversation.
ForceStateKeeps(c, state) ==
    /\ msgstate' = [msgstate EXCEPT ![c] = state]
    /\ UNCHANGED <<lastmessage, may_retransmit>>

\* otrl_context_force_finished / _plaintext: the new state, nothing kept.
ForceState(c, state) ==
    /\ msgstate' = [msgstate EXCEPT ![c] = state]
    /\ lastmessage' = [lastmessage EXCEPT ![c] = None]
    /\ may_retransmit' = may_retransmit \ {c}

-----------------------------------------------------------------------------
(* Sending.  `broken`: otrl_proto_create_data fails (no memory).           *)

\* otrl_message_sending: a query is left alone, a finished conversation
\* turns the text into an empty one, an encrypted one seals it.
IsQuery(m) == m.body = Query /\ m.layers = 0
Ended(m) == ~IsQuery(m) /\ msgstate[m.to] = "finished"
Seals(m, broken) ==
    ~IsQuery(m) /\ msgstate[m.to] = "encrypted" /\ ~broken

\* What send_message passes on: libotr's message or, if it gave none, the text.
Leaving(m, broken) ==
    CASE Ended(m) -> [id |-> m.id, to |-> m.to, body |-> Empty, layers |-> 0]
      [] Seals(m, broken) -> [m EXCEPT !.layers = @ + 1]
      [] OTHER -> m

\* libotr gave no message, and the glue believes the conversation encrypted.
Refused(m, broken) ==
    /\ ~IsQuery(m) /\ ~Ended(m) /\ ~Seals(m, broken)
    /\ m.to \in g_encrypted

\* The cache holds the same string for the same contact (no two ciphertexts
\* are the same string).
InBuffer(m) ==
    /\ m.layers = 0
    /\ \E i \in DOMAIN m_MessageBuffer :
          LET b == m_MessageBuffer[i]
          IN  b.to = m.to /\ b.body = m.body /\ b.layers = 0

\* Mutant: a message written stays in the cache.
SendXMPPMessageToKeeping(m, rest) ==
    \/ /\ stream # "off"
       /\ wire' = wire \cup {[msg |-> m, resent |-> FALSE]}
       /\ UNCHANGED m_MessageBuffer
    \/ /\ stream = "off"
       /\ m_MessageBuffer' =
             IF InBuffer(m) THEN m_MessageBuffer ELSE Append(m_MessageBuffer, m)
       /\ UNCHANGED wire

\* sendXMPPMessageTo; `rest` is the cache if the write succeeds.  A failure
\* also asks for a new connection (SendFails of XMPPConnection).
SendXMPPMessageTo(m, rest) ==
    \/ /\ stream # "off"
       /\ wire' = wire \cup {[msg |-> m, resent |-> FALSE]}
       /\ m_MessageBuffer' = rest
    \/ /\ stream = "off"
       /\ m_MessageBuffer' =
             IF InBuffer(m) THEN m_MessageBuffer ELSE Append(m_MessageBuffer, m)
       /\ UNCHANGED wire

\* Mutant: the loop takes a refused message out of the cache too.
RefusePops(m) ==
    /\ g_encrypted' = g_encrypted \ {m.to}
    /\ GoneUnsecure(m.to)
    /\ m_MessageBuffer' = IF loop = "flush" THEN Tail(m_MessageBuffer)
                                           ELSE m_MessageBuffer
    /\ UNCHANGED <<wire, lastmessage, may_retransmit>>

\* Mutant: the glue goes on believing the conversation encrypted.
RefuseForGood(m) ==
    /\ GoneUnsecure(m.to)
    /\ UNCHANGED <<m_MessageBuffer, wire, lastmessage, may_retransmit,
                   g_encrypted>>

Refuse(m) ==
    /\ g_encrypted' = g_encrypted \ {m.to}
    /\ GoneUnsecure(m.to)    \* sendDenied
    /\ UNCHANGED <<m_MessageBuffer, wire, lastmessage, may_retransmit>>

Forward(m, broken, rest) ==
    /\ SendXMPPMessageTo(Leaving(m, broken), rest)
    /\ g_encrypted' = IF Ended(m) THEN g_encrypted \ {m.to} ELSE g_encrypted
    /\ lastmessage' = IF Seals(m, broken) THEN [lastmessage EXCEPT ![m.to] = m]
                                          ELSE lastmessage
    /\ may_retransmit' = IF Seals(m, broken) THEN may_retransmit \ {m.to}
                                             ELSE may_retransmit
    /\ UNCHANGED uiSecure

SendMessage(m, broken, rest) ==
    /\ \/ Refused(m, broken) /\ Refuse(m)
       \/ ~Refused(m, broken) /\ Forward(m, broken, rest)
    /\ UNCHANGED <<msgstate, ui>>

-----------------------------------------------------------------------------
(* Requests of the user interface (readyRead).                             *)

Handles == alive /\ loop = "idle"
Asked == Handles /\ ui

\* SEND_MESSAGE
UiSends(c, text) ==
    /\ Asked /\ sends < MaxSends
    /\ sends' = sends + 1
    /\ \E broken \in BOOLEAN :
          SendMessage([id |-> sends + 1, to |-> c, body |-> text, layers |-> 0],
                      broken, m_MessageBuffer)
    /\ UNCHANGED <<connVars, loop>>

\* OTR_REQUEST_START -> startOTRSession
UiStarts(c) ==
    /\ Asked
    /\ SendMessage([id |-> 0, to |-> c, body |-> Query, layers |-> 0],
                   FALSE, m_MessageBuffer)
    /\ UNCHANGED <<connVars, loop, sends>>

\* OTR_REQUEST_STOP -> disconnectOTR: the contact is not told (is_logged_in
\* is NULL), g_encrypted is left as it is.  The user asked for it, so that
\* he no longer counts on a secure conversation.
UiStops(c) ==
    /\ Asked
    /\ ForceState(c, "plaintext")
    /\ uiSecure' = uiSecure \ {c}
    /\ UNCHANGED <<connVars, loop, m_MessageBuffer, g_encrypted, ui, sends, wire>>

\* OTR_REQUEST_STATUS -> sendOTRStatus
UiAsksStatus(c) ==
    /\ Asked
    /\ IF c \in g_encrypted THEN GoneSecure(c) ELSE GoneUnsecure(c)
    /\ UNCHANGED <<connVars, loop, m_MessageBuffer, otrVars, g_encrypted, ui,
                   sends, wire>>

UiConnects ==
    /\ Handles /\ ~ui
    /\ ui' = TRUE
    /\ UNCHANGED <<connVars, loop, m_MessageBuffer, otrVars, g_encrypted,
                   uiSecure, sends, wire>>

UiLeaves ==
    /\ Asked
    /\ ui' = FALSE /\ uiSecure' = {}
    /\ UNCHANGED <<connVars, loop, m_MessageBuffer, otrVars, g_encrypted,
                   sends, wire>>

-----------------------------------------------------------------------------
(* Messages of the contact (messageReceived -> message_received).          *)

Hears == Handles /\ stream = "session"

\* The last message of a key exchange: go_encrypted, then maybe_resend of a
\* text sent in the last minute.  Between the same parties a private
\* conversation is renewed without a word to the glue.
GoneEncrypted(c, newPrint, recent) ==
    LET fresh == newPrint \/ msgstate[c] # "encrypted"
        kept == lastmessage[c]
        again == recent /\ c \in may_retransmit /\ kept # None
    IN  /\ Hears
        /\ msgstate' = [msgstate EXCEPT ![c] = "encrypted"]
        /\ g_encrypted' = IF fresh THEN g_encrypted \cup {c} ELSE g_encrypted
        /\ IF fresh THEN GoneSecure(c) ELSE UNCHANGED uiSecure
        /\ may_retransmit' = IF again THEN may_retransmit \ {c}
                                      ELSE may_retransmit
        /\ wire' = IF again
                   THEN wire \cup {[msg |-> [kept EXCEPT !.layers = @ + 1],
                                    resent |-> TRUE]}
                   ELSE wire
        /\ UNCHANGED <<connVars, loop, m_MessageBuffer, lastmessage, ui, sends>>

\* A message of the private conversation after a minute of silence: the
\* heartbeat that answers it takes the place of the text kept.  (Without the
\* heartbeat nothing here changes.)
ReceiveSealed(c) ==
    /\ Hears /\ msgstate[c] = "encrypted"
    /\ lastmessage' = [lastmessage EXCEPT ![c] = None]
    /\ may_retransmit' = may_retransmit \ {c}
    /\ UNCHANGED <<connVars, loop, m_MessageBuffer, msgstate, g_encrypted,
                   uiVars, sends, wire>>

\* The contact could not read what it was sent.
ReceiveError(c) ==
    /\ Hears /\ msgstate[c] = "encrypted"
    /\ may_retransmit' = may_retransmit \cup {c}
    /\ UNCHANGED <<connVars, loop, m_MessageBuffer, msgstate, lastmessage,
                   g_encrypted, uiVars, sends, wire>>

\* Mutant: the glue forgets to tell the user interface.
ReceivePlainUntold(c) ==
    /\ Hears /\ msgstate[c] # "plaintext"
    /\ ForceState(c, "plaintext")
    /\ g_encrypted' = g_encrypted \ {c}
    /\ UNCHANGED <<connVars, loop, m_MessageBuffer, uiVars, sends, wire>>

\* A plain text where none is expected: OTRL_MSGEVENT_RCVDMSG_UNENCRYPTED.
ReceivePlain(c) ==
    /\ Hears /\ msgstate[c] # "plaintext"
    /\ ForceState(c, "plaintext")
    /\ g_encrypted' = g_encrypted \ {c}
    /\ GoneUnsecure(c)
    /\ UNCHANGED <<connVars, loop, m_MessageBuffer, ui, sends, wire>>

\* The contact ends the private conversation (OTRL_TLV_DISCONNECTED); no
\* callback of the glue is called.
PeerEnds(c) ==
    /\ Hears /\ msgstate[c] = "encrypted"
    /\ ForceState(c, "finished")
    /\ UNCHANGED <<connVars, loop, m_MessageBuffer, g_encrypted, uiVars,
                   sends, wire>>

-----------------------------------------------------------------------------
(* The connection (module XMPPConnection), as far as sending sees it.      *)

StreamOpens ==
    /\ Handles /\ stream = "off"
    /\ stream' = "up"
    /\ UNCHANGED <<alive, connected, rosterHeld, loop, m_MessageBuffer, otrVars,
                   g_encrypted, uiVars, sends, wire>>

SessionStarts ==
    /\ Handles /\ stream = "up"
    /\ stream' = "session" /\ connected' = TRUE
    /\ UNCHANGED <<alive, rosterHeld, loop, m_MessageBuffer, otrVars,
                   g_encrypted, uiVars, sends, wire>>

\* m_Connected is cleared where the slot for it is wired, not after a start
\* without a token, nor when a server redirects the session.
StreamDrops(clears) ==
    /\ Handles /\ (stream # "off" \/ (connected /\ clears))
    /\ stream' = "off" /\ connected' = (connected /\ ~clears)
    /\ UNCHANGED <<alive, rosterHeld, loop, m_MessageBuffer, otrVars,
                   g_encrypted, uiVars, sends, wire>>

-----------------------------------------------------------------------------
(* rosterReceived and its loop over the cache.                             *)

\* `readable`: every vCard file can be opened; else the slot returns with
\* mutexLoadLocal locked.  The next one to lock it waits for ever.
RosterReceived(readable) ==
    /\ loop' = CASE rosterHeld -> "blocked"
                 [] ~rosterHeld /\ readable -> "flush"
                 [] OTHER -> "idle"
    /\ rosterHeld' = (rosterHeld \/ ~readable)
    /\ UNCHANGED <<alive, stream, connected, m_MessageBuffer, otrVars,
                   g_encrypted, uiVars, sends, wire>>

RosterArrives(readable) == Hears /\ RosterReceived(readable)

\* REQUEST_CONTACT_LIST
UiAsksContacts(readable) == Asked /\ connected /\ RosterReceived(readable)

FlushDone ==
    /\ m_MessageBuffer = <<>>
    /\ loop' = "idle"
    /\ UNCHANGED <<m_MessageBuffer, otrVars, g_encrypted, uiVars, wire>>

\* The first message goes through send_message like a new one, and leaves
\* the cache if that returns true.  Without a socket to write to the loop
\* never ends; MaxCached only bounds the ciphertexts it piles up.
FlushFirst ==
    /\ m_MessageBuffer # <<>>
    /\ (stream = "off" => Len(m_MessageBuffer) < MaxCached)
    /\ \E broken \in BOOLEAN :
          SendMessage(Head(m_MessageBuffer), broken, Tail(m_MessageBuffer))
    /\ UNCHANGED loop

Flush ==
    /\ alive /\ loop = "flush"
    /\ FlushDone \/ FlushFirst
    /\ UNCHANGED <<connVars, sends>>

-----------------------------------------------------------------------------
\* The process ends, with the cache and every conversation; and starts again.
Dies ==
    /\ alive
    /\ alive' = FALSE
    /\ stream' = "off" /\ connected' = FALSE /\ rosterHeld' = FALSE
    /\ loop' = "idle" /\ m_MessageBuffer' = <<>>
    /\ msgstate' = [c \in Contacts |-> "plaintext"]
    /\ lastmessage' = [c \in Contacts |-> None]
    /\ may_retransmit' = {} /\ g_encrypted' = {}
    /\ ui' = FALSE /\ uiSecure' = {}
    /\ UNCHANGED <<sends, wire>>

Starts ==
    /\ ~alive
    /\ alive' = TRUE
    /\ UNCHANGED <<stream, connected, rosterHeld, loop, m_MessageBuffer, otrVars,
                   g_encrypted, uiVars, sends, wire>>

Init ==
    /\ alive = TRUE
    /\ stream = "off" /\ connected = FALSE /\ rosterHeld = FALSE
    /\ loop = "idle" /\ m_MessageBuffer = <<>>
    /\ msgstate = [c \in Contacts |-> "plaintext"]
    /\ lastmessage = [c \in Contacts |-> None]
    /\ may_retransmit = {} /\ g_encrypted = {}
    /\ ui = FALSE /\ uiSecure = {}
    /\ sends = 0 /\ wire = {}

UiRequests ==
    \/ \E c \in Contacts :
          \/ \E text \in Texts : UiSends(c, text)
          \/ UiStarts(c) \/ UiStops(c) \/ UiAsksStatus(c)
    \/ UiConnects \/ UiLeaves
    \/ \E readable \in BOOLEAN : UiAsksContacts(readable)

Receives ==
    \E c \in Contacts :
       \/ \E newPrint, recent \in BOOLEAN : GoneEncrypted(c, newPrint, recent)
       \/ ReceiveSealed(c) \/ ReceiveError(c) \/ ReceivePlain(c) \/ PeerEnds(c)

Connection ==
    \/ StreamOpens \/ SessionStarts
    \/ \E clears \in BOOLEAN : StreamDrops(clears)
    \/ \E readable \in BOOLEAN : RosterArrives(readable)

Next == UiRequests \/ Receives \/ Connection \/ Flush \/ Dies \/ Starts

Spec == Init /\ [][Next]_vars

\* A loop runs on; the service keeps trying to connect (KeepsTrying of
\* XMPPConnection), and of the sessions it tries for some start and get as
\* far as the roster.
Fairness ==
    /\ WF_vars(Flush) /\ WF_vars(StreamOpens)
    /\ SF_vars(SessionStarts) /\ SF_vars(RosterArrives(TRUE))

FairSpec == Spec /\ Fairness

-----------------------------------------------------------------------------
\* The loop runs without a socket: it never ends.
Spinning == loop = "flush" /\ stream = "off"

\* No text leaves twice by the cache: what is cached is cached once and was
\* not written before.  (libotr itself may resend a text the contact could
\* not read.)
OneWayOut ==
    Spinning \/
    \A i \in DOMAIN m_MessageBuffer :
       LET id == m_MessageBuffer[i].id
       IN  id # 0 =>
           /\ \A j \in DOMAIN m_MessageBuffer :
                 m_MessageBuffer[j].id = id => j = i
           /\ \A w \in wire : w.msg.id = id => w.resent

\* A cached message leaves the cache by being written, whatever happens to
\* the conversation and the connection meanwhile; only the end of the
\* process loses it.
CacheKept ==
    [][\A i \in DOMAIN m_MessageBuffer :
          LET m == m_MessageBuffer[i]
          IN  \/ ~alive'
              \/ \E j \in DOMAIN m_MessageBuffer' : m_MessageBuffer'[j] = m
              \/ \E w \in wire' : w.msg.id = m.id /\ w.msg.to = m.to]_vars

\* While the user interface has a conversation down as secure, no text of it
\* leaves in clear: the glue would refuse it and say so first.
SecureMeansSecret ==
    [][\A w \in wire' \ wire :
          w.msg.layers = 0 /\ w.msg.body \in Texts
             => w.msg.to \notin uiSecure]_vars

\* What is cached is in the end written, unless a vCard file could not be
\* read or the loop over the cache lost its socket.
Drains ==
    (m_MessageBuffer # <<>>)
       ~> (m_MessageBuffer = <<>> \/ Spinning \/ rosterHeld)

-----------------------------------------------------------------------------
(* Statements of the code's comments that the runs refute.                 *)

\* XMPPService.cpp:639: "connection is successful, send cached messages."
FlushOnConnection ==
    loop = "flush" /\ m_MessageBuffer # <<>> => stream # "off"

\* OTR.h:42: a message goes through libotr once, and what that returns is
\* what is sent: the contact removes one layer and reads the text.
SealedOnce == \A w \in wire : w.msg.layers <= 1

\* message.h:209: of a text not sent because the contact ended the private
\* conversation, "We should either close the connection, or refresh it."
\* It is not to be replaced by an empty message that counts as sent.
NothingSwallowed == \A w \in wire : w.msg.id # 0 => w.msg.body # Empty

=============================================================================
