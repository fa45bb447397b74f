------------------------------ MODULE Contacts ------------------------------
(***************************************************************************)
(* The contact list: QXmppRosterManager (roster, pushes, presences), the   *)
(* vCards of QXmppVCardManager, and what the service makes of them for the *)
(* UI (rosterReceived, presenceChanged, vCardReceived, sendContact and the *)
(* requests REQUEST_CONTACT_LIST and ADD_CONTACT of XMPPService.cpp).      *)
(*                                                                         *)
(* A contact is its bare jid; of a presence only "available" counts, of a  *)
(* vCard whether it has a full name.  The user's own vCard and the status  *)
(* kept of each contact are left out, and what rosterReceived does with    *)
(* buffered messages is in Outbox.  The server, and the other clients of   *)
(* the user, are external: requests and stanzas arrive in their order, and *)
(* end with the stream.                                                    *)
(***************************************************************************)
EXTENDS Naturals, Sequences, FiniteSets, Orders

CONSTANTS
    Jids,           \* contacts
    Resources,      \* resources a contact may be online with
    CardOf,         \* the vCard the server has of each: "named", "blank", "none"
    MaxArriving     \* bound on the stanzas on their way when something new is started

ASSUME ContactsAssumption ==
    /\ IsFiniteSet(Jids) /\ IsFiniteSet(Resources)
    /\ CardOf \in [Jids -> {"named", "blank", "none"}]
    /\ MaxArriving \in Nat

VARIABLES
    roster,         \* the server: the roster
    online,         \* the server: the sessions of contacts
    interested,     \* the server: the roster was asked for on this stream
    announced,      \* the server: our presence was sent on this stream
    requests,       \* on their way to the server
    arriving,       \* on their way to us
    streamUp,       \* the stream has a session
    loggedIn,       \* m_Connected
    entries,        \* entries of the roster manager
    presences,      \* presences of the roster manager
    isRosterReceived,
    cards,          \* the files in vCards: none, without a name, or full
    uiHere,         \* m_Socket is connected
    asking,         \* history: this UI has asked for the contact list
    told,           \* history: contacts this UI was told of
    listed          \* history: the entries when rosterReceived last ran

contactsVars == <<roster, online, interested, announced, requests, arriving, streamUp,
                  loggedIn, entries, presences, isRosterReceived, cards, uiHere, asking,
                  told, listed>>
serverVars == <<roster, online, interested, announced>>
uiSideVars == <<uiHere, asking, told>>

Session == Jids \X Resources
Request ==
    [type : {"roster", "presence"}] \cup [type : {"vcard", "add"}, jid : Jids]
Arrival ==
    [type : {"result"}, items : SUBSET Jids]
    \cup [type : {"added", "removed", "vcard"}, jid : Jids]
    \cup [type : {"available", "unavailable"}, of : Session]

ContactsTypeOK ==
    /\ roster \subseteq Jids /\ online \subseteq Session
    /\ interested \in BOOLEAN /\ announced \in BOOLEAN
    /\ requests \in Seq(Request) /\ arriving \in Seq(Arrival)
    /\ streamUp \in BOOLEAN /\ loggedIn \in BOOLEAN
    /\ entries \subseteq Jids /\ presences \subseteq Session
    /\ isRosterReceived \in BOOLEAN
    /\ cards \in [Jids -> {"none", "empty", "full"}]
    /\ uiHere \in BOOLEAN /\ asking \in BOOLEAN
    /\ told \subseteq Jids /\ listed \subseteq Jids
    /\ isRosterReceived => streamUp
    /\ asking => uiHere

ContactsInit ==
    /\ roster = {} /\ online = {} /\ interested = FALSE /\ announced = FALSE
    /\ requests = <<>> /\ arriving = <<>>
    /\ streamUp = FALSE /\ loggedIn = FALSE
    /\ entries = {} /\ presences = {} /\ isRosterReceived = FALSE
    /\ cards = [c \in Jids |-> "none"]
    /\ uiHere = FALSE /\ asking = FALSE /\ told = {} /\ listed = {}

-----------------------------------------------------------------------------
(* The stream.                                                             *)

\* connected(): _q_connected asks for the roster; then the client's presence
\* is sent.
ContactsConnected ==
    /\ ~streamUp
    /\ streamUp' = TRUE /\ loggedIn' = TRUE
    /\ requests' = <<[type |-> "roster"], [type |-> "presence"]>>
    /\ UNCHANGED <<serverVars, arriving, entries, presences, isRosterReceived, cards,
                   uiSideVars, listed>>

WireCut ==
    /\ streamUp' = FALSE
    /\ requests' = <<>> /\ arriving' = <<>>
    /\ interested' = FALSE /\ announced' = FALSE

\* Mutant: the roster is kept for the next stream.
ContactsDisconnectedKeeps ==
    /\ streamUp
    /\ WireCut
    /\ loggedIn' \in {loggedIn, FALSE}
    /\ presences' = {} /\ isRosterReceived' = FALSE
    /\ UNCHANGED <<roster, online, entries, cards, uiSideVars, listed>>

\* disconnected(): _q_disconnected.  oauthDisconnected, which clears
\* m_Connected, is not wired in every service.
ContactsDisconnected ==
    /\ streamUp
    /\ WireCut
    /\ loggedIn' \in {loggedIn, FALSE}
    /\ entries' = {} /\ presences' = {} /\ isRosterReceived' = FALSE
    /\ UNCHANGED <<roster, online, cards, uiSideVars, listed>>

\* The process ends; the files stay.
ContactsRestart ==
    /\ WireCut
    /\ loggedIn' = FALSE /\ entries' = {} /\ presences' = {} /\ isRosterReceived' = FALSE
    /\ uiHere' = FALSE /\ asking' = FALSE /\ told' = {} /\ listed' = {}
    /\ UNCHANGED <<roster, online, cards>>

-----------------------------------------------------------------------------
(* The server, and who else changes what it keeps.                         *)

\* The bound on what is started.
Quiet == requests = <<>> /\ Len(arriving) < MaxArriving

Presences(type, sessions) ==
    [i \in DOMAIN sessions |-> [type |-> type, of |-> sessions[i]]]
Of(jid) == {s \in online : s[1] = jid}

\* A contact is added, by a request or by another client of the user.  The
\* subscription is granted at once.
Include(jid) ==
    LET pushed == IF interested THEN <<[type |-> "added", jid |-> jid]>> ELSE <<>>
        shown == IF announced /\ jid \notin roster THEN Of(jid) ELSE {}
    IN  /\ roster' = roster \cup {jid}
        /\ \E order \in InSomeOrder(shown) :
              arriving' = arriving \o pushed \o Presences("available", order)

Exclude(jid) ==
    LET pushed == IF interested THEN <<[type |-> "removed", jid |-> jid]>> ELSE <<>>
        hidden == IF announced THEN Of(jid) ELSE {}
    IN  /\ roster' = roster \ {jid}
        /\ \E order \in InSomeOrder(hidden) :
              arriving' = arriving \o pushed \o Presences("unavailable", order)

ServerReplies ==
    LET r == Head(requests)
    IN  /\ requests # <<>>
        /\ requests' = Tail(requests)
        /\ \/ /\ r.type = "roster"
              /\ interested' = TRUE
              /\ arriving' = Append(arriving, [type |-> "result", items |-> roster])
              /\ UNCHANGED <<roster, announced>>
           \/ /\ r.type = "presence"
              /\ announced' = TRUE
              /\ \E order \in InSomeOrder({s \in online : s[1] \in roster}) :
                    arriving' = arriving \o Presences("available", order)
              /\ UNCHANGED <<roster, interested>>
           \/ /\ r.type = "add" /\ Include(r.jid)
              /\ UNCHANGED <<interested, announced>>
           \/ /\ r.type = "vcard"   \* without a vCard, an error nobody handles
              /\ arriving' = IF CardOf[r.jid] = "none" THEN arriving
                             ELSE Append(arriving, [type |-> "vcard", jid |-> r.jid])
              /\ UNCHANGED <<roster, interested, announced>>
        /\ UNCHANGED <<online, streamUp, loggedIn, entries, presences, isRosterReceived,
                       cards, uiSideVars, listed>>

RosterChanges(jid) ==
    /\ Len(arriving) < MaxArriving
    /\ (jid \notin roster /\ Include(jid)) \/ (jid \in roster /\ Exclude(jid))
    /\ UNCHANGED <<online, interested, announced, requests, streamUp, loggedIn, entries,
                   presences, isRosterReceived, cards, uiSideVars, listed>>

PresenceChanges(s) ==
    LET type == IF s \in online THEN "unavailable" ELSE "available"
    IN  /\ Len(arriving) < MaxArriving
        /\ online' = IF s \in online THEN online \ {s} ELSE online \cup {s}
        /\ arriving' = IF announced /\ s[1] \in roster
                       THEN Append(arriving, [type |-> type, of |-> s]) ELSE arriving
        /\ UNCHANGED <<roster, interested, announced, requests, streamUp, loggedIn,
                       entries, presences, isRosterReceived, cards, uiSideVars, listed>>

-----------------------------------------------------------------------------
(* The client.                                                             *)

\* sendContact: a status is looked up, and the UI told.
SendContact(jids) == told' = IF uiHere THEN told \cup jids ELSE told

\* rosterReceived: a contact whose card is there with a name is told; of the
\* others the card is asked for.
RosterReceived(jids) ==
    LET missing == {c \in jids : cards[c] # "full"}
    IN  /\ SendContact(jids \ missing)
        /\ IF streamUp
           THEN \E order \in InSomeOrder(missing) : requests' = requests \o
                   [i \in DOMAIN order |-> [type |-> "vcard", jid |-> order[i]]]
           ELSE UNCHANGED requests
        /\ listed' = jids

\* The answer to _q_connected (the only result on a stream).
HandleRosterResult(x) ==
    /\ x.type = "result"
    /\ entries' = entries \cup x.items
    /\ isRosterReceived' = TRUE
    /\ RosterReceived(entries')
    /\ UNCHANGED <<presences, cards>>

\* A push; nobody listens to itemAdded and itemRemoved.
HandleRosterPush(x) ==
    /\ \/ x.type = "added" /\ entries' = entries \cup {x.jid}
       \/ x.type = "removed" /\ entries' = entries \ {x.jid}
    /\ UNCHANGED <<presences, isRosterReceived, cards, told, requests, listed>>

\* _q_presenceReceived, and presenceChanged: a contact without a card gets an
\* empty one.
HandlePresence(x) ==
    /\ \/ x.type = "available" /\ presences' = presences \cup {x.of}
       \/ x.type = "unavailable" /\ presences' = presences \ {x.of}
    /\ IF cards[x.of[1]] = "none"
       THEN cards' = [cards EXCEPT ![x.of[1]] = "empty"] /\ SendContact({x.of[1]})
       ELSE UNCHANGED <<cards, told>>
    /\ UNCHANGED <<entries, isRosterReceived, requests, listed>>

\* vCardReceived
VCardReceived(x) ==
    /\ x.type = "vcard"
    /\ cards' = [cards EXCEPT ![x.jid] = IF CardOf[x.jid] = "named" THEN "full" ELSE "empty"]
    /\ SendContact({x.jid})
    /\ UNCHANGED <<entries, presences, isRosterReceived, requests, listed>>

ContactsReceive ==
    LET x == Head(arriving)
    IN  /\ arriving # <<>>
        /\ arriving' = Tail(arriving)
        /\ HandleRosterResult(x) \/ HandleRosterPush(x) \/ HandlePresence(x) \/ VCardReceived(x)
        /\ UNCHANGED <<serverVars, streamUp, loggedIn, uiHere, asking>>

-----------------------------------------------------------------------------
(* The UI.                                                                 *)

UiComes ==
    /\ ~uiHere /\ uiHere' = TRUE
    /\ UNCHANGED <<serverVars, requests, arriving, streamUp, loggedIn, entries, presences,
                   isRosterReceived, cards, asking, told, listed>>

UiGoes ==
    /\ uiHere /\ uiHere' = FALSE /\ asking' = FALSE /\ told' = {}
    /\ UNCHANGED <<serverVars, requests, arriving, streamUp, loggedIn, entries, presences,
                   isRosterReceived, cards, listed>>

\* REQUEST_CONTACT_LIST.  (m_SendContactWhenAvailable is set, and never read.)
RequestContactList ==
    /\ uiHere /\ Quiet
    /\ asking' = TRUE
    /\ IF loggedIn THEN RosterReceived(entries) ELSE UNCHANGED <<told, requests, listed>>
    /\ UNCHANGED <<serverVars, arriving, streamUp, loggedIn, entries, presences,
                   isRosterReceived, cards, uiHere>>

\* ADD_CONTACT
AddContact(jid) ==
    /\ uiHere /\ Quiet
    /\ requests' = IF streamUp THEN Append(requests, [type |-> "add", jid |-> jid])
                               ELSE requests
    /\ UNCHANGED <<serverVars, arriving, streamUp, loggedIn, entries, presences,
                   isRosterReceived, cards, uiSideVars, listed>>

ContactsNext ==
    \/ ContactsConnected \/ ContactsDisconnected \/ ContactsRestart
    \/ ServerReplies \/ ContactsReceive
    \/ \E c \in Jids : RosterChanges(c) \/ AddContact(c)
    \/ \E s \in Session : PresenceChanges(s)
    \/ UiComes \/ UiGoes \/ RequestContactList

ContactsSpec == ContactsInit /\ [][ContactsNext]_contactsVars

-----------------------------------------------------------------------------
(* Properties.                                                             *)

\* Once nothing is on its way, the roster and the presences are those of the
\* server, whatever changed while there was no stream; and a UI that asked
\* for the contact list, at whatever time, has been told of every contact it
\* had which has a vCard.
ContactsSettled ==
    (streamUp /\ requests = <<>> /\ arriving = <<>>) =>
        /\ entries = roster
        /\ presences = {s \in online : s[1] \in roster}
        /\ asking => \A c \in listed : CardOf[c] # "none" => c \in told
=============================================================================
