-------------------------------- MODULE Hub ---------------------------------
(***************************************************************************)
(* The conversations the service shows in the platform's Hub: the preview  *)
(* files (XMPPService.cpp), resynchHub and the invocations on items        *)
(* (HeadlessApplication.cpp), the calls to the platform (HubAccount.cpp,   *)
(* UDSUtil.cpp) and the cached copy of what it was told (HubCache.cpp).    *)
(*                                                                         *)
(* A loop over files or items runs within one slot: while `work` is under  *)
(* way its turns are the only steps of the service, though the process may *)
(* end in the middle.  The settings reach the disk when the event loop     *)
(* comes to it.  The Hub itself is the platform's (external): each call    *)
(* may fail, and sometimes it starts anew and has to be filled again.      *)
(***************************************************************************)
EXTENDS Integers, Sequences

CONSTANTS
    Contacts,    \* the contacts are 1..Contacts, in the order of their files
    MaxStamp,    \* bound on the messages that arrive
    MaxId        \* bound on the ids of items

ASSUME HubBoundsAssumption ==
    Contacts \in Nat /\ MaxStamp \in Nat /\ MaxId \in Nat

VARIABLES
    running,      \* the process runs
    preview,      \* the preview files                       (persistent)
    named,        \* contacts whose vCard file has a name    (persistent)
    clock,        \* history: messages so far
    disk,         \* the settings as they are on the disk    (persistent)
    hub,          \* the items the platform has              (persistent)
    items,        \* HubCache::_items
    lastItemId,   \* HubCache::_lastItemId
    nextItemId,   \* UDSUtil::_nextItemId
    account,      \* the platform granted an account
    work,         \* the loop a slot is in
    shaky,        \* history: what cache and platform may differ by (see InStep)
    missed,       \* history: marking an item has failed
    complete      \* history: no contact was passed over by the last resynch

cacheVars == <<items, lastItemId>>
fileVars == <<preview, named, clock>>
hubVars == <<running, fileVars, disk, hub, cacheVars, nextItemId, account, work,
             shaky, missed, complete>>

platformVars == <<disk, hub, cacheVars, nextItemId, account, shaky, missed>>

Contact == 1..Contacts
Stamp == 1..MaxStamp
Id == 1..MaxId
NoPreview == [when |-> 0, read |-> FALSE]
Item == [id : Id, who : Contact, when : Stamp]
Loop(kind, todo, stamp) ==
    [kind |-> IF todo = <<>> THEN "none" ELSE kind, todo |-> todo, stamp |-> stamp]
NoWork == Loop("none", <<>>, 0)
NoItems == [i \in {} |-> NoPreview]

HubTypeOK ==
    /\ {running, account, shaky, missed, complete} \subseteq BOOLEAN
    /\ preview \in [Contact -> {NoPreview} \cup [when : Stamp, read : BOOLEAN]]
    /\ named \subseteq Contact
    /\ clock \in 0..MaxStamp
    /\ items \in Seq(Item) /\ disk.items \in Seq(Item)
    /\ disk.account \in BOOLEAN
    /\ DOMAIN hub \subseteq Id
    /\ \A i \in DOMAIN hub : hub[i] \in [who : Contact, when : Stamp, read : BOOLEAN]
    /\ lastItemId \in 0..MaxId /\ disk.last \in 0..MaxId
    /\ nextItemId \in 0..(MaxId + 1)
    /\ work.kind \in {"none", "resynch", "markRead", "delete", "repopulate"}
    /\ IF work.kind = "resynch" THEN work.todo \in Seq(Contact)
                                ELSE work.todo \in Seq(Item)
    /\ work = Loop(work.kind, work.todo, work.stamp) /\ work.stamp \in 0..MaxStamp
    /\ work.kind = "none" => work.todo = <<>>

HubInit ==
    /\ running = FALSE
    /\ preview = [c \in Contact |-> NoPreview]
    /\ named \in SUBSET Contact
    /\ clock = 0
    /\ disk = [account |-> FALSE, items |-> <<>>, last |-> 0]
    /\ hub = NoItems
    /\ items = <<>> /\ lastItemId = 0 /\ nextItemId = 0
    /\ work = NoWork
    /\ account = FALSE
    /\ shaky = FALSE /\ missed = FALSE /\ complete = TRUE

Free == running /\ work.kind = "none"

-----------------------------------------------------------------------------
(* HubCache and the calls to the platform, each with what HubAccount does  *)
(* with the cache when it succeeds.                                        *)

\* The place of the first cached item with this id, or 0.
Place(id) ==
    IF \E i \in DOMAIN items : items[i].id = id
    THEN CHOOSE i \in DOMAIN items :
           items[i].id = id /\ \A j \in 1..(i - 1) : items[j].id # id
    ELSE 0

Without(s, n) == SubSeq(s, 1, n - 1) \o SubSeq(s, n + 1, Len(s))

NewItem(c, when, read) ==
    [i \in DOMAIN hub \cup {nextItemId} |->
        IF i = nextItemId THEN [who |-> c, when |-> when, read |-> read] ELSE hub[i]]

\* Mutant: the cache is given the item although the platform refused it.
AddHubItemBlindly(c, when, read) ==
    /\ nextItemId <= MaxId /\ lastItemId < MaxId
    /\ hub' \in {hub, NewItem(c, when, read)}
    /\ items' = Append(items, [id |-> nextItemId, who |-> c, when |-> when])
    /\ lastItemId' = lastItemId + 1
    /\ nextItemId' = nextItemId + 1
    /\ shaky' = (shaky \/ nextItemId # lastItemId + 1)
    /\ UNCHANGED missed

\* addHubItem, and markHubItemRead where it follows: an item is unread first.
AddHubItem(c, when, read) ==
    \/ /\ account /\ nextItemId <= MaxId /\ lastItemId < MaxId
       /\ \E marked \in {FALSE, read} :
             /\ hub' = NewItem(c, when, marked)
             /\ missed' = (missed \/ marked # read)
       /\ items' = Append(items, [id |-> nextItemId, who |-> c, when |-> when])
       /\ lastItemId' = lastItemId + 1
       /\ nextItemId' = nextItemId + 1
       /\ shaky' = (shaky \/ nextItemId # lastItemId + 1)
    \/ UNCHANGED <<hub, cacheVars, nextItemId, shaky, missed>>

\* updateHubItem.
UpdateHubItem(id, c, when, read) ==
    /\ \/ /\ id \in DOMAIN hub
          /\ hub' = [hub EXCEPT ![id] = [who |-> c, when |-> when, read |-> read]]
          /\ items' = IF Place(id) = 0 THEN items
                      ELSE [items EXCEPT ![Place(id)] = [id |-> id, who |-> c, when |-> when]]
       \/ UNCHANGED <<hub, items>>
    /\ UNCHANGED <<lastItemId, nextItemId, shaky>>

\* removeHubItem; the cache takes the last id back when it is the one removed.
RemoveHubItem(id) ==
    /\ \/ /\ id \in DOMAIN hub
          /\ hub' = [i \in DOMAIN hub \ {id} |-> hub[i]]
          /\ items' = IF Place(id) = 0 THEN items ELSE Without(items, Place(id))
          /\ lastItemId' = IF Place(id) # 0 /\ id = lastItemId THEN lastItemId - 1
                                                               ELSE lastItemId
       \/ UNCHANGED <<hub, cacheVars>>
    /\ UNCHANGED <<nextItemId, shaky, missed>>

\* markHubItemRead, markHubItemUnread: only what is cached is updated.
MarkHubItem(id, read) ==
    IF Place(id) = 0
    THEN UNCHANGED <<hub, cacheVars, nextItemId, shaky, missed>>
    ELSE LET it == items[Place(id)] IN
         /\ UpdateHubItem(id, it.who, it.when, read)
         /\ missed' = (missed \/ (id \in DOMAIN hub /\ hub'[id].read # read))

-----------------------------------------------------------------------------
(* The process.                                                            *)

\* initializeHub, and the construction of HubIntegration: an account is asked
\* for once, the ids go on from what the settings say, and a new registration
\* (`reload`) makes everything that is cached be added again.
HubStart(reload, granted) ==
    /\ ~running /\ running' = TRUE
    /\ items' = disk.items
    /\ lastItemId' = disk.last
    /\ account' = (disk.account \/ granted)
    /\ nextItemId' = IF disk.account THEN disk.last + 1 ELSE 1
    /\ IF reload
       THEN /\ hub' = NoItems
            /\ work' = Loop("repopulate", disk.items, 0)
            /\ shaky' = (shaky \/ disk.items # <<>>)
       ELSE UNCHANGED <<hub, work, shaky>>
    /\ UNCHANGED <<fileVars, disk, missed, complete>>

\* The process ends, by itself or not; what the disk does not have yet is lost.
HubStop ==
    /\ running /\ running' = FALSE
    /\ items' = <<>> /\ lastItemId' = 0 /\ nextItemId' = 0
    /\ account' = FALSE
    /\ work' = NoWork
    /\ shaky' = (shaky \/ disk.items # items \/ disk.last # lastItemId)
    /\ UNCHANGED <<fileVars, disk, hub, missed, complete>>

\* QSettings writes back.
SettingsSync ==
    /\ Free
    /\ disk' = [account |-> account, items |-> items, last |-> lastItemId]
    /\ UNCHANGED <<running, fileVars, hub, cacheVars, nextItemId, account, work,
                   shaky, missed, complete>>

-----------------------------------------------------------------------------
(* Messages and the files they leave.                                      *)

\* resynchHub begins.  (Its turns pass over contacts without a preview.)
Resynch ==
    /\ work' = Loop("resynch", [c \in Contact |-> c], 0)
    /\ complete' = TRUE

\* logReceivedMessage, and, if the user wants to be notified, updateHubAccount.
MessageLogged(c, notify) ==
    /\ Free /\ clock < MaxStamp
    /\ clock' = clock + 1
    /\ preview' = [preview EXCEPT ![c] = [when |-> clock + 1, read |-> FALSE]]
    /\ IF notify THEN Resynch ELSE UNCHANGED <<work, complete>>
    /\ UNCHANGED <<running, named, platformVars>>

\* UPDATE_HUB
UiUpdateHub ==
    /\ Free
    /\ Resynch
    /\ UNCHANGED <<running, fileVars, platformVars>>

\* The vCard of a contact is stored.
VCardStored(c) ==
    /\ Free /\ c \notin named
    /\ named' = named \cup {c}
    /\ UNCHANGED <<running, preview, clock, platformVars, work, complete>>

\* The cached item of a contact.  (The list is copied before the loop; within
\* it only this contact's own items change.)
ItemsOf(c) == {i \in DOMAIN items : items[i].who = c}

Rest(w) == Loop(w.kind, Tail(w.todo), w.stamp)

\* Mutant: an item that is there is taken to be up to date.
ResynchTurnLazily ==
    /\ running /\ work.kind = "resynch"
    /\ LET c == Head(work.todo)
           e == preview[c]
       IN \/ /\ e = NoPreview
             /\ work' = Rest(work)
             /\ UNCHANGED <<hub, cacheVars, nextItemId, shaky, missed, complete>>
          \/ /\ e # NoPreview /\ ItemsOf(c) # {}
             /\ work' = Rest(work)
             /\ UNCHANGED <<hub, cacheVars, nextItemId, shaky, missed, complete>>
          \/ /\ e # NoPreview /\ ItemsOf(c) = {} /\ c \in named
             /\ AddHubItem(c, e.when, e.read)
             /\ work' = Rest(work)
             /\ complete' = (complete /\ items' # items)
          \/ /\ e # NoPreview /\ ItemsOf(c) = {} /\ c \notin named
             /\ work' = NoWork /\ complete' = FALSE
             /\ UNCHANGED <<hub, cacheVars, nextItemId, shaky, missed>>
    /\ UNCHANGED <<running, fileVars, disk, account>>

\* A turn of resynchHub: nothing to do, update, or add; a contact without a
\* name ends the whole loop.
ResynchTurn ==
    /\ running /\ work.kind = "resynch"
    /\ LET c == Head(work.todo)
           e == preview[c]
       IN \/ /\ e = NoPreview
             /\ work' = Rest(work)
             /\ UNCHANGED <<hub, cacheVars, nextItemId, shaky, missed, complete>>
          \/ /\ e # NoPreview /\ ItemsOf(c) # {}
             /\ LET it == items[CHOOSE i \in ItemsOf(c) : \A j \in ItemsOf(c) : i <= j]
                IN \/ /\ it.when = e.when
                      /\ UNCHANGED <<hub, cacheVars, nextItemId, shaky, missed, complete>>
                   \/ /\ it.when # e.when
                      /\ UpdateHubItem(it.id, c, e.when, e.read) /\ UNCHANGED missed
                      /\ complete' = (complete /\ items' # items)
             /\ work' = Rest(work)
          \/ /\ e # NoPreview /\ ItemsOf(c) = {} /\ c \in named
             /\ AddHubItem(c, e.when, e.read)
             /\ work' = Rest(work)
             /\ complete' = (complete /\ items' # items)
          \/ /\ e # NoPreview /\ ItemsOf(c) = {} /\ c \notin named
             /\ work' = NoWork /\ complete' = FALSE
             /\ UNCHANGED <<hub, cacheVars, nextItemId, shaky, missed>>
    /\ UNCHANGED <<running, fileVars, disk, account>>

\* A turn of repopulateHub.
RepopulateTurn ==
    /\ running /\ work.kind = "repopulate"
    /\ LET it == Head(work.todo) IN AddHubItem(it.who, it.when, FALSE)
    /\ work' = Rest(work)
    /\ UNCHANGED <<running, fileVars, disk, account, complete>>

-----------------------------------------------------------------------------
(* The user acts on an item in the Hub (onInvoked).                        *)

SetRead(c, read) ==
    preview' = [preview EXCEPT
                  ![c] = IF @ = NoPreview THEN @ ELSE [when |-> @.when, read |-> read]]

\* bb.action.MARKREAD and MARKUNREAD
InvokedMark(id, read) ==
    /\ Free /\ id \in DOMAIN hub
    /\ SetRead(hub[id].who, read)
    /\ MarkHubItem(id, read)
    /\ UNCHANGED <<running, named, clock, disk, account, work, complete>>

\* bb.action.DELETE
InvokedDelete(id) ==
    /\ Free /\ id \in DOMAIN hub
    /\ preview' = [preview EXCEPT ![hub[id].who] = NoPreview]
    /\ RemoveHubItem(id)
    /\ UNCHANGED <<running, named, clock, disk, account, work, complete>>

\* bb.action.MARKPRIORREAD and DELETEPRIOR begin: over the cached items.
InvokedPrior(kind, stamp) ==
    /\ Free
    /\ work' = Loop(kind, items, stamp)
    /\ UNCHANGED <<running, fileVars, platformVars, complete>>

\* A turn of them.
PriorTurn ==
    /\ running /\ work.kind \in {"markRead", "delete"}
    /\ LET it == Head(work.todo) IN
         \/ /\ it.when >= work.stamp
            /\ UNCHANGED <<preview, hub, cacheVars, nextItemId, shaky, missed>>
         \/ /\ it.when < work.stamp /\ work.kind = "markRead"
            /\ SetRead(it.who, TRUE) /\ MarkHubItem(it.id, TRUE)
         \/ /\ it.when < work.stamp /\ work.kind = "delete"
            /\ preview' = [preview EXCEPT ![it.who] = NoPreview]
            /\ RemoveHubItem(it.id)
    /\ work' = Rest(work)
    /\ UNCHANGED <<running, named, clock, disk, account, complete>>

-----------------------------------------------------------------------------
HubNext ==
    \/ \E reload, granted \in BOOLEAN : HubStart(reload, granted)
    \/ HubStop \/ SettingsSync
    \/ \E c \in Contact : VCardStored(c) \/ \E n \in BOOLEAN : MessageLogged(c, n)
    \/ UiUpdateHub \/ ResynchTurn \/ RepopulateTurn
    \/ \E id \in Id : InvokedDelete(id) \/ \E r \in BOOLEAN : InvokedMark(id, r)
    \/ \E k \in {"markRead", "delete"}, s \in Stamp : InvokedPrior(k, s)
    \/ PriorTurn

HubSpec == HubInit /\ [][HubNext]_hubVars

-----------------------------------------------------------------------------
(* Properties.                                                             *)

\* The cache mirrors the platform whatever call fails in between: the same
\* items under the same ids, read or not as the file of the conversation says
\* of the same message.  The exceptions are the code's: what the disk did not
\* have when the process ended, a reload, which leaves each item in the cache
\* twice, an item added after the newest one was removed, and, for the mark, a
\* call that failed, which nothing repeats.
InStep ==
    running /\ ~shaky =>
      /\ DOMAIN hub = {items[i].id : i \in DOMAIN items}
      /\ \A i \in DOMAIN items :
            LET it == items[i]  p == preview[it.who] IN
            /\ hub[it.id].who = it.who /\ hub[it.id].when = it.when
            /\ ~missed /\ p.when = it.when => hub[it.id].read = p.read
      /\ \A i, j \in DOMAIN items : items[i].id = items[j].id => i = j

\* When a resynchHub in which no call failed and no name was missing is over,
\* every conversation is cached with its last message.  (Where an id was given
\* out twice, the update of one conversation may take the item of another.)
Resynched ==
    [][work.kind = "resynch" /\ work'.kind = "none" /\ running' /\ complete' /\ ~shaky' =>
         \A c \in Contact : preview[c] # NoPreview =>
            \E i \in DOMAIN items' : items'[i].who = c /\ items'[i].when = preview[c].when]_hubVars
=============================================================================
