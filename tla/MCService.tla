------------------------------ MODULE MCService -----------------------------
(***************************************************************************)
(* Parts of the service side by side for TLC: the channel to the user      *)
(* interface, the Hub, the contact list, a chat room and the negotiation   *)
(* of a stream.  They share no variable; a behaviour follows one of them   *)
(* and leaves the others at one initial state, so that the state spaces    *)
(* add up and are not multiplied.                                          *)
(***************************************************************************)
EXTENDS UiChannel, Hub, Stream, Contacts, Rooms

MCRounds ==
    [m \in Mechanisms |-> CASE m = "DIGEST-MD5" -> 3
                           [] m = "X-FACEBOOK-PLATFORM" -> 2
                           [] OTHER -> 1]

\* One contact has a vCard with a name, the others one without.
MCCardOf == [c \in Jids |-> IF c = "j1" THEN "named" ELSE "blank"]

VARIABLE part

mcServiceVars == <<uiVars, hubVars, negotiationVars, contactsVars, roomsVars,
                   part>>

MCServiceInit ==
    /\ UiInit /\ HubInit /\ StreamInit /\ ContactsInit /\ RoomsInit
    /\ part \in {"ui", "hub", "stream", "contacts", "rooms"}
    /\ part # "hub" => named = {}
    /\ part # "stream" => mode = "Required"

MCServiceNext ==
    \/ part = "ui" /\ UiNext
       /\ UNCHANGED <<hubVars, negotiationVars, contactsVars, roomsVars, part>>
    \/ part = "hub" /\ HubNext
       /\ UNCHANGED <<uiVars, negotiationVars, contactsVars, roomsVars, part>>
    \/ part = "stream" /\ StreamNext
       /\ UNCHANGED <<uiVars, hubVars, contactsVars, roomsVars, part>>
    \/ part = "contacts" /\ ContactsNext
       /\ UNCHANGED <<uiVars, hubVars, negotiationVars, roomsVars, part>>
    \/ part = "rooms" /\ RoomsNext
       /\ UNCHANGED <<uiVars, hubVars, negotiationVars, contactsVars, part>>

\* No action of these is enabled in the initial state of a part that is left
\* alone, so the fairness of each part binds the behaviours of that part only.
MCServiceSpec ==
    /\ MCServiceInit /\ [][MCServiceNext]_mcServiceVars
    /\ UiFairness /\ StreamFairness

\* The parts are type correct, each in the behaviours that follow it.
MCServiceTypeOK ==
    /\ part = "ui" => UiTypeOK
    /\ part = "hub" => HubTypeOK
    /\ part = "stream" => StreamTypeOK
    /\ part = "contacts" => ContactsTypeOK
    /\ part = "rooms" => RoomsTypeOK

\* What the client keeps of the server's tables, the contact list and the
\* occupants of a room, is what the server has once nothing is on its way.
TablesMirrorServer == ContactsSettled /\ RoomMirrored
=============================================================================
