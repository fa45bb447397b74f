------------------------------- MODULE Rooms --------------------------------
(***************************************************************************)
(* A chat room: QXmppMucRoom of QXmppMucManager.cpp, and createRoom of     *)
(* XMPPService.cpp, which makes one and joins it.                          *)
(*                                                                         *)
(* An occupant is its nickname.  What is sent in the room, invitations,    *)
(* room information and the lists of permissions are left out.  The room   *)
(* itself is external: presences sent to it and from it arrive in their    *)
(* order, and end with the stream, which also takes us out of the room.    *)
(* createRoom is not called again for a room: the second call deletes the  *)
(* room it returns.                                                        *)
(***************************************************************************)
EXTENDS Naturals, Sequences, FiniteSets, Orders

CONSTANTS
    Nicks,          \* nicknames
    User,           \* m_User, the nickname we join with
    NoNick,
    MaxStanzas      \* bound on the stanzas on their way when something new is started

ASSUME RoomsAssumption ==
    IsFiniteSet(Nicks) /\ User \in Nicks /\ NoNick \notin Nicks /\ MaxStanzas \in Nat

VARIABLES
    others,         \* the room: nicknames of the other occupants
    myNick,         \* the room: ours, NoNick when we are not in it
    moderator,      \* the room: we are a moderator
    toRoom,         \* presences on their way to the room
    fromRoom,       \* presences on their way to us
    linked,         \* the stream has a session
    created,        \* createRoom was called
    nickName,       \* of the room here
    participants,   \* of the room here
    allowedActions  \* of the room here: empty, or a moderator's

roomsVars == <<others, myNick, moderator, toRoom, fromRoom, linked, created, nickName,
               participants, allowedActions>>
placeVars == <<others, myNick, moderator>>
roomVars == <<nickName, participants, allowedActions>>

Actions == {"kick", "subject"}
RoomRequest == [type : {"join", "available", "leave"}, nick : Nicks]
RoomPresence ==
    [type : {"available"}, nick : Nicks, role : {{}, Actions}]
    \cup [type : {"unavailable"}, nick : Nicks, newNick : Nicks \cup {NoNick}]
    \cup [type : {"error"}]

RoomsTypeOK ==
    /\ others \subseteq Nicks /\ myNick \in (Nicks \ others) \cup {NoNick}
    /\ moderator \in BOOLEAN /\ linked \in BOOLEAN /\ created \in BOOLEAN
    /\ toRoom \in Seq(RoomRequest) /\ fromRoom \in Seq(RoomPresence)
    /\ nickName \in Nicks \cup {NoNick} /\ participants \subseteq Nicks
    /\ allowedActions \in {{}, Actions}
    /\ created <=> nickName # NoNick

RoomsInit ==
    /\ others = {} /\ myNick = NoNick /\ moderator = FALSE
    /\ toRoom = <<>> /\ fromRoom = <<>>
    /\ linked = FALSE /\ created = FALSE
    /\ nickName = NoNick /\ participants = {} /\ allowedActions = {}

RoomQuiet == Len(toRoom) + Len(fromRoom) < MaxStanzas
IsJoined == nickName \in participants

\* sendPacket: lost without a stream.
SendToRoom(type, nick) ==
    toRoom' = IF linked THEN Append(toRoom, [type |-> type, nick |-> nick]) ELSE toRoom

-----------------------------------------------------------------------------
(* The stream.                                                             *)

LinkUp ==
    /\ ~linked /\ linked' = TRUE
    /\ UNCHANGED <<placeVars, toRoom, fromRoom, created, roomVars>>

\* disconnected(): _q_disconnected
LinkDown ==
    /\ linked /\ linked' = FALSE
    /\ toRoom' = <<>> /\ fromRoom' = <<>>
    /\ myNick' = NoNick /\ moderator' = FALSE
    /\ participants' = {} /\ allowedActions' = {}
    /\ UNCHANGED <<others, created, nickName>>

-----------------------------------------------------------------------------
(* What the service and its user ask for.                                  *)

\* createRoom: addRoom, setNickName and join.
CreateRoom ==
    /\ ~created /\ created' = TRUE
    /\ nickName' = User
    /\ SendToRoom("join", User)
    /\ UNCHANGED <<placeVars, fromRoom, linked, participants, allowedActions>>

\* join, again: after leaving, or on a new stream, and once the room has
\* answered what it was asked.
Answered == toRoom = <<>> /\ fromRoom = <<>> /\ myNick = NoNick

Join ==
    /\ created /\ ~IsJoined /\ Answered
    /\ SendToRoom("join", nickName)
    /\ UNCHANGED <<placeVars, fromRoom, linked, created, roomVars>>

\* setNickName.  Out of the room the nickname is set "before calling join()",
\* not while a join is on its way.
SetNickName(nick) ==
    /\ created /\ nick # nickName /\ RoomQuiet
    /\ \/ IsJoined /\ SendToRoom("available", nick) /\ UNCHANGED nickName
       \/ /\ ~IsJoined /\ Answered
          /\ nickName' = nick /\ UNCHANGED toRoom
    /\ UNCHANGED <<placeVars, fromRoom, linked, created, participants, allowedActions>>

Leave ==
    /\ created /\ RoomQuiet
    /\ SendToRoom("leave", nickName)
    /\ UNCHANGED <<placeVars, fromRoom, linked, created, roomVars>>

\* Our own presence comes back from the server and is repeated to the room.
ReflectPresence ==
    /\ linked /\ created /\ IsJoined /\ RoomQuiet
    /\ SendToRoom("available", nickName)
    /\ UNCHANGED <<placeVars, fromRoom, linked, created, roomVars>>

-----------------------------------------------------------------------------
(* The room.                                                               *)

InRoom == myNick # NoNick
RoleIn(is) == IF is THEN Actions ELSE {}
Here(nick, role) == [type |-> "available", nick |-> nick, role |-> role]
Gone(nick, newNick) == [type |-> "unavailable", nick |-> nick, newNick |-> newNick]
Told(stanzas) == fromRoom' = IF InRoom THEN fromRoom \o stanzas ELSE fromRoom

\* An occupant sees who is there, itself last; a taken nickname is refused.
RoomServes ==
    LET r == Head(toRoom)
        Seen(order) == [i \in DOMAIN order |-> Here(order[i], {})]
    IN  /\ toRoom # <<>> /\ toRoom' = Tail(toRoom)
        /\ \/ /\ r.type # "leave" /\ r.nick \in others
              /\ fromRoom' = Append(fromRoom, [type |-> "error"])
              /\ UNCHANGED <<myNick, moderator>>
           \/ /\ r.type = "join" /\ ~InRoom /\ r.nick \notin others
              /\ myNick' = r.nick /\ moderator' \in BOOLEAN
              /\ \E order \in InSomeOrder(others) : fromRoom' =
                    fromRoom \o Append(Seen(order), Here(r.nick, RoleIn(moderator')))
           \/ /\ r.type # "leave" /\ r.nick = myNick
              /\ Told(<<Here(myNick, RoleIn(moderator))>>)
              /\ UNCHANGED <<myNick, moderator>>
           \/ /\ r.type # "leave" /\ InRoom /\ r.nick \notin others \cup {myNick}
              /\ myNick' = r.nick
              /\ Told(<<Gone(myNick, r.nick), Here(r.nick, RoleIn(moderator))>>)
              /\ UNCHANGED moderator
           \/ /\ r.type = "available" /\ ~InRoom /\ r.nick \notin others
              /\ UNCHANGED <<myNick, moderator, fromRoom>>
           \/ /\ r.type = "leave"
              /\ myNick' = NoNick /\ moderator' = FALSE
              /\ Told(<<Gone(myNick, NoNick)>>)
        /\ UNCHANGED <<others, linked, created, roomVars>>

\* Others come, go and change their nickname.
OthersChange(nick) ==
    /\ RoomQuiet /\ nick # myNick
    /\ \/ /\ nick \notin others /\ others' = others \cup {nick}
          /\ Told(<<Here(nick, {})>>)
       \/ /\ nick \in others /\ others' = others \ {nick}
          /\ Told(<<Gone(nick, NoNick)>>)
       \/ \E other \in Nicks \ (others \cup {myNick}) :
             /\ nick \in others
             /\ others' = (others \ {nick}) \cup {other}
             /\ Told(<<Gone(nick, other), Here(other, {})>>)
    /\ UNCHANGED <<myNick, moderator, toRoom, linked, created, roomVars>>

\* A moderator takes our role, gives us one, or kicks us out.
RoleChanges ==
    /\ InRoom /\ RoomQuiet
    /\ moderator' = ~moderator
    /\ Told(<<Here(myNick, RoleIn(moderator'))>>)
    /\ UNCHANGED <<others, myNick, toRoom, linked, created, roomVars>>

Kick ==
    /\ InRoom /\ RoomQuiet
    /\ myNick' = NoNick /\ moderator' = FALSE
    /\ Told(<<Gone(myNick, NoNick)>>)
    /\ UNCHANGED <<others, toRoom, linked, created, roomVars>>

-----------------------------------------------------------------------------
(* _q_presenceReceived                                                     *)

HandleHere(p) ==
    /\ p.type = "available"
    /\ participants' = participants \cup {p.nick}
    /\ allowedActions' = IF p.nick = nickName THEN p.role ELSE allowedActions
    /\ UNCHANGED nickName

\* Of a stranger, or of another occupant.
HandleGone(p) ==
    /\ p.type = "unavailable"
    /\ p.nick \notin participants \/ p.nick # nickName
    /\ participants' = participants \ {p.nick}
    /\ UNCHANGED <<nickName, allowedActions>>

\* Our own, because the nickname changes: the others stay.
HandleRenamed(p) ==
    /\ p.type = "unavailable" /\ p.nick \in participants /\ p.nick = nickName
    /\ p.newNick \notin {NoNick, nickName}
    /\ nickName' = p.newNick
    /\ participants' = participants \ {p.nick}
    /\ UNCHANGED allowedActions

\* Mutant: the others stay as well when we left.
HandleLeftAlone(p) ==
    /\ p.type = "unavailable" /\ p.nick \in participants /\ p.nick = nickName
    /\ p.newNick \in {NoNick, nickName}
    /\ participants' = participants \ {p.nick} /\ allowedActions' = {}
    /\ UNCHANGED nickName

\* Our own, because we left or were kicked.
HandleLeft(p) ==
    /\ p.type = "unavailable" /\ p.nick \in participants /\ p.nick = nickName
    /\ p.newNick \in {NoNick, nickName}
    /\ participants' = {} /\ allowedActions' = {}
    /\ UNCHANGED nickName

\* error() and left() are emitted, and nothing changes.
HandleRoomError(p) == p.type = "error" /\ UNCHANGED roomVars

HandleRoomPresence ==
    LET p == Head(fromRoom)
    IN  /\ created /\ fromRoom # <<>> /\ fromRoom' = Tail(fromRoom)
        /\ \/ HandleHere(p) \/ HandleGone(p) \/ HandleRenamed(p) \/ HandleLeft(p)
           \/ HandleRoomError(p)
        /\ UNCHANGED <<placeVars, toRoom, linked, created>>

RoomsNext ==
    \/ LinkUp \/ LinkDown
    \/ CreateRoom \/ Join \/ Leave \/ ReflectPresence
    \/ \E nick \in Nicks : SetNickName(nick) \/ OthersChange(nick)
    \/ RoomServes \/ RoleChanges \/ Kick
    \/ HandleRoomPresence

RoomsSpec == RoomsInit /\ [][RoomsNext]_roomsVars

-----------------------------------------------------------------------------
(* Properties.                                                             *)

\* Once nothing is on its way, the room here is the room at the server: we
\* are joined if and only if we are in it, under the same nickname, with the
\* same occupants and the actions our role allows, however joins, changes of
\* nickname, kicks and lost streams crossed.
RoomMirrored ==
    (created /\ toRoom = <<>> /\ fromRoom = <<>>) =>
        IF InRoom
        THEN /\ IsJoined /\ nickName = myNick
             /\ participants = others \cup {myNick}
             /\ allowedActions = RoleIn(moderator)
        ELSE participants = {} /\ allowedActions = {}
=============================================================================
