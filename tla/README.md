# Hg10Service: specification and proofs

Hg10Service is the headless half of a BlackBerry 10 chat program: a process that
keeps one XMPP connection (Google talk by OAuth, or any server by password),
stores what arrives, shows conversations in the platform's Hub, and serves a UI
process over a local socket. It is one Qt event loop around a vendored copy of
QXmpp, with libotr for encryption. This directory models its behaviour in TLA+,
model-checks it with TLC on small instances and proves the main invariants with
TLAPS for all values of the constants.

`PROJECT.json` holds, in machine-readable form, the components, the runs, the map from
definitions to source lines, the hazards, the findings, the mutants and the theorems.

Contents: [the system](#the-system), [the modules](#modules) and how they correspond to the
code, [the runs](#runs) with their properties, bounds and fairness, [findings](#findings),
[observations](#observed-while-modelling), [proofs](#proofs), and
[what is left out](#not-modelled).

## The system

| Part | Source | State it keeps | Talks to |
|---|---|---|---|
| Connection service | `XMPPService.cpp` (class XMPP) | token and account in settings, connection type, pause and restart flags, UI socket, contact list, message buffer | everything |
| UI channel | `XMPPService.cpp` (with class TcpThreadBind) | the listening socket, the one client socket | the UI process |
| Token client | `GoogleConnectController.cpp` | none; HTTP requests in flight | Google, by HTTP; signals to XMPP |
| Client facade | `client/QXmppClient.cpp` | presence, reconnection timer, conflict flag | the stream; signals to XMPP |
| Stream | `client/QXmppOutgoingClient.cpp`, `base/QXmppStream.cpp`, `base/QXmppSasl.cpp` | socket, DNS lookup, redirect, negotiation, session, ping timers | the server |
| Network monitor | `NetworkStatus.cpp` | last reported and last seen availability, loss timers | the platform; signal to the application |
| Headless application | `HeadlessApplication.cpp`, `main.cpp` | Hub objects, settings | platform invocations; wires the monitor to XMPP |
| Hub | `Hub/*.cpp`, `HeadlessApplication.cpp` | cached items and ids in settings, the platform's own copy, a preview file per conversation | the platform's UDS service |
| OTR | `OTR.cpp`, `lib/libotr` | keys, contexts, key exchange, message and SMP states | XMPP, both directions |
| Contact list | `client/QXmppRosterManager.cpp`, `client/QXmppVCardManager.cpp`, `XMPPService.cpp` | roster entries, presences, vCard files | the server, the UI |
| Chat rooms | `client/QXmppMucManager.cpp`, `XMPPService.cpp` | nickname, participants, permitted actions | the room's service |
| File transfer | `client/QXmppTransferManager.cpp`, `base/QXmppSocks.cpp` | jobs, candidates, sockets, buffers | the other client, a proxy |
| Calls | `client/QXmppCallManager.cpp`, `base/QXmppStun.cpp` | calls, streams, ICE pairs, TURN allocation | the other client, STUN and TURN servers |

Everything runs in the one event loop (`TcpThreadBind` is a thread
object whose slot the main loop runs), so there is no preemption: what makes the system hard is the
*order* in which timers, HTTP replies, DNS replies, socket events, server
stanzas, UI requests and platform events reach that loop, the synchronous chains
of signals inside one event, the process being killed and restarted at any time
with only its settings left, and a peer or a server that stops half way. The
protocols between two clients (OTR, transfers, calls) add two parties that act at the
same time over channels that delay and, some of them, lose or repeat.

What makes each part correct:

* connection service: the restart latch never sticks; the connected flag and what
  the UI was told agree with the session; a connection that is down is retried;
  a pause begins and ends with the network;
* network monitor: a short outage is not reported, a long one always is;
* stream: a negotiation comes to an end, a session is authenticated, a dead server is noticed;
* message buffer: a message accepted is kept until it leaves, leaves once, in the form the
  OTR state demands, and the flush ends;
* UI channel: a client that left is noticed;
* OTR: both sides agree on keys, an exchange concludes, no key and counter is used twice, a message in order can be read,
  none is accepted twice, and a verdict on a secret is the right one;
* Hub: cache and platform hold the same items under unique ids, also after a crash;
* contact list, rooms: the tables follow the server, whatever crossed;
* transfers, calls: the two parties agree on how it ended; what is used of the network works both ways.

## Modules

| Module | Models | Composition |
|---|---|---|
| `NetworkStatus` | the reachability monitor | instantiated by `Supervision` |
| `XMPPConnection` | class XMPP's connection handling, the token client, and the socket and timers of QXmppClient / QXmppOutgoingClient | the core; implements `StreamContract` |
| `Supervision` | the two above, wired as `HeadlessApplication` does it | EXTENDS `XMPPConnection`, INSTANCE `NetworkStatus` |
| `StreamContract` | abstract: what a stream promises to the client above it | implemented by `Stream` and `XMPPConnection` |
| `Stream` | the negotiation of a stream and its keep-alive, against a server that follows the RFCs, refuses, ends the stream, closes or falls silent | implements `StreamContract` under a refinement mapping |
| `Outbox` | how a text leaves: `send_message`, libotr's message state, `sendXMPPMessageTo`, the cache and its flush | stands alone; the connection is abstracted to its phases |
| `UiChannel` | the listening socket, the one client socket, requests read from it | in `MCService` |
| `Hub` | preview files, cached items, the platform's copy, invocations, restarts | in `MCService` |
| `Contacts` | roster, presences, vCards, and what the UI is told of them | in `MCService` |
| `Rooms` | one chat room and its service | in `MCService` |
| `OtrAke` | the authenticated key exchange of two parties | in `MCPeers` |
| `OtrKeys` | the rotation of the keys of a conversation, counters, published MAC keys | in `MCPeers` |
| `OtrSmp` | the comparison of secrets, with the glue's dialogue | in `MCPeers` |
| `Transfer` | a file from offer to end, at both clients | in `MCPeers` |
| `Call` | a call, at both clients | in `MCPeers` |
| `Ice` | the connectivity checks of two agents | in `MCPeers` |
| `Turn` | STUN binding, TURN allocation and channels, retransmission | in `MCPeers` |
| `MCService`, `MCPeers` | several parts side by side for TLC | EXTEND the modules above |
| `Orders` | a set in some order: what going through a QMap or QSet gives | used by `Contacts`, `Rooms` |
| `Supervision_proofs` | theorems about `XMPPConnection` and `Supervision` | EXTENDS `Supervision` |
| `Hub_proofs`, `Stream_proofs`, `OtrKeys_proofs` | theorems about the module in the name | EXTEND it |
| `Otr_proofs` | theorems about `OtrAke`, `OtrSmp` and `Outbox` | EXTENDS them |
| `Peers_proofs` | theorems about `Call`, `Ice`, `Turn`, `Transfer` | EXTENDS them |
| `MCPeers_proofs` | theorems about `MCPeers` as a whole | EXTENDS `MCPeers`, `Otr_proofs`, `OtrKeys_proofs`, `Peers_proofs` |
| `Tables_proofs` | theorems about `Rooms`, `Contacts`, `UiChannel`, and `MCService` as a whole | EXTENDS `MCService`, `Hub_proofs`, `Stream_proofs` |

In every module an action is one slot run by the event loop, or one request of a user or the
platform, together with every slot it calls through a signal (all connections are
direct). Operators with the names of the functions hold the parts that several actions
share.

### `XMPPConnection`

`RemoteClose` for instance is
`_q_streamError` (which starts the reconnection timer and emits `error`, i.e.
`logConnectionError`), then `_q_socketDisconnected`, `disconnected()`,
`oauthDisconnected` (which stops that timer again, clears `m_Connected`, writes
to the UI) and `oauth2Restart`.

| Variable | Code |
|---|---|
| `token`, `userFile` | `access_token` in QSettings is not empty; what `UserID.txt` holds. The two survive the process. |
| `google` | `m_GoogleConnect` is set, and with it the connection of `disconnected()` to `oauthDisconnected`: both are made in the constructor, if there is a token then |
| `connType`, `paused`, `restarting`, `connected`, `lastErrorNeg` | `m_ConnectionType`, `m_PauseService`, `m_Restarting`, `m_Connected`, the sign of `m_LastError` |
| `askTimers`, `renewals` | pending 3 s timers of `oauth2Restart`; HTTP requests of `renewToken` not answered |
| `ui`, `told` | a client on `m_Socket`; the last connection status written to it |
| `sock`, `lookup`, `hostKnown`, `redirect`, `pinging` | the socket's state, refined by the session's; `d->dns` running; the configuration names a host; `redirectHost`; `pingTimer` |
| `conflict`, `reconnTimer`, `presence`, `announced` | `receivedConflict`, `reconnectionTimer`, type of `clientPresence`, and what the server was last told of it |
| `stalled`, `strayed` | history: the two documented exceptions of the properties (a reply dropped silently; a see-other-host in a session). They restrict no step. |

Qt and the network, modelled from how the code uses them: `connectToHost` on a
socket that is not unconnected does nothing; `disconnectFromHost` may close
within the call (so that `disconnected()` runs inside it) or later, and on a
connecting socket only once it is connected; a failed connection gives `error`
without `disconnected`, a close by the server gives `error` and then `disconnected`;
an HTTP request and a DNS lookup always finish, in success or failure; timers
fire unless stopped. Killing the process (`Stop`) is always possible.

Left out: what the configuration says beyond "names a host", the presence's status text,
the contents of what is sent, the guard on `autoReconnectionEnabled` (true by default
and never cleared), legacy SSL. The TLS / SASL / bind exchange is one step here, to a session or to
failure; `Stream` has it in detail.

### `NetworkStatus` and `Supervision`

`SetConnected(b)` is `event` with `setConnected(b)`; `RegisterConnectionLoss` is
the 20 s timer. `Supervision` adds `attached` (the signal is connected by
`delayedXMPPInit`, 3 s after the start, so that the monitor may report before anybody
hears it). A gain or a loss that is reported runs `internetIsBack` or `waitForInternet` in
the same step. The end of the process is the end of the monitor.

### `StreamContract` and `Stream`

`StreamContract` has four variables: the process runs, the socket's phase, a pending redirect and the
keep-alive timer. It says from which phase a stream may go to which, that a redirect is
pending only while the old socket is being closed, and that the keep-alive runs from the
start of a session to the end of the connection. `XMPPConnection` implements it with its
own variables (`Promised`, no mapping needed); `Stream` with `Sock`, computed from the
socket and `sessionStarted`, for the phase (`Coarse`, `INSTANCE ... WITH`). So what the connection
logic takes for granted of a stream and what the negotiation delivers meet in one specification.

`Stream` has what `QXmppOutgoingClient` keeps of a negotiation (authenticated, the ids of the
pending bind, session and legacy requests, the mechanism and the challenges it answered, the ping timers)
and the server's side as RFC 3920 and 3921 have it: the server offers features (TLS required, optional
or absent; mechanisms; bind; session), may refuse, redirect, end, close, or fall silent. What arrives in one
read is a `batch`: its stanzas are handled one after the other within one slot
(`SocketReadyRead`, then `HandleStanza`), and a close in the middle does not stop the loop, as in the code.
A SASL mechanism is the number of challenges it answers (`Rounds`).

### `Outbox`

A text the user types goes through `send_message`, which asks libotr for the message to send
(`Leaving`), to `sendXMPPMessageTo`, which writes it or appends it to `m_MessageBuffer`. When a
roster arrives, or the UI asks for one, `rosterReceived` sends the cache in a loop that runs inside
one slot. Its turns are steps here (`FlushFirst`, `FlushDone`), and `loop` keeps everything else out
meanwhile; `"blocked"` is the wait for `mutexLoadLocal`, which a slot that could not read a vCard
left locked (`rosterHeld`).

| Variable | Code |
|---|---|
| `m_MessageBuffer` | the same list; a message is a record: contact, body (a text, a query, or empty), how often it was encrypted, and an id that is history |
| `msgstate`, `lastmessage`, `may_retransmit` | libotr's `context->msgstate`, and the text it keeps to send again (`context_priv`), per contact |
| `g_encrypted` | the same set, of the glue |
| `ui`, `uiSecure` | a client on `m_Socket`; the conversations it was last told are secure (`goneSecure` and, for the other way, `goneUnsecure`, `sendDenied`; a conversation the user himself ended does not count) |
| `stream`, `connected` | the socket's state as `sendData` and the session see it; `m_Connected` |
| `sends`, `wire` | history: texts typed, and what of them was written to the socket |

libotr runs under the glue's policy, `ALLOW_V2`, with one context per contact. `broken` is the
failure of `otrl_proto_create_data`; the glue has no `otr_error_message` callback, so that such a text
comes back without a message and is sent as it is, or refused when `g_encrypted` has the contact. The
key exchange is its last message (`GoneEncrypted`), with the resend that follows it. Two equal plain
strings for one contact are the same to the cache, two ciphertexts never are.

Left out of `wire`: messages of the key exchange, heartbeats, SMP messages. The requests to reconnect that
a failed send makes are in `XMPPConnection` (`SendFails`). A roster that arrives while the
stream is being closed is not modelled.

### `UiChannel`

A connection is a number, in the order of connecting. `ui` is the client's end (`here`, `left`),
`served` the service's (`backlog`, `open`, closed), `socket` is `m_Socket`, `wired` whether its signals are
connected. Assigning `m_Socket` destroys the previous socket; Qt then emits `disconnected()`, so that
`remoteClientDisconect` runs within `newConnection`. `readyRead` takes one request, however
many have arrived. `process` runs in the main loop, once for each 1 s timer of `waitRemote`, and tries the port once:
if it is taken, the next attempt comes with the next `waitRemote`, from a client that leaves or an invocation.

### `Hub`

`preview` is the file kept per conversation (contact, time stamp, read or not), `hub` the platform's
table from ids to items, `items`, `lastItemId`, `nextItemId` the cached copy (`HubCache`, `UDSUtil`),
`disk` what of it the settings have, and `work` a loop over files or items that runs within one
slot: its turns are steps, nothing else of the service interleaves, and the process may end in the middle.
Each call to the platform may fail. Operations: a message arrives or is sent, a conversation is read, the
items' actions (mark, mark prior, remove) come as invocations, `resynchHub` brings cache and files together,
the platform starts its Hub anew (`repopulate`), the process ends and starts. `shaky`, `missed`, `complete`
and `named` say which of the property's exceptions apply (`complete`: no call of the synchronisation failed).

### `Contacts`, `Rooms`

`Contacts` has the server's roster and online resources on one side, `entries` and `presences` of the roster
manager, the vCards kept on disk, and what the UI was told on the other; requests and stanzas arrive in
order and end with the stream. Other clients of the user add, remove and go on and off line at any time.
`Rooms` has the room's occupants, our nickname and role at the room and, here, `nickName`, `participants` and
`allowedActions`. A nickname change, a kick, a refusal, somebody else taking the name, and a lost stream may cross.

### `OtrAke`, `OtrKeys`, `OtrSmp`

Two parties run the same code. In `OtrAke` a DH key pair is a number, `r` is named after the key it hides, a
MAC is the pair of keys it was computed from; messages of one direction keep their order and may be lost, a
party may ask again, end the conversation or restart. `completed` is the history of the exchanges a party completed, with who finished.
`OtrKeys` starts where the exchange ends. A DH key is `<<conversation, keyid>>`, session keys are the pair; `sesskeys` is
the 2 × 2 table of `context_priv`, with its counters and the "used" mark; `AcceptData` is the whole of
`otrl_proto_accept_data` with both rotations. Messages may be lost and repeated.
`OtrSmp` has `smp` (the state of `sm.c`), the dialogue of the glue (`asked`, `told`), and exponents as numbers; a
proof convinces exactly who holds the same generators as its author. What is compared is bytes, and the glue makes them in two ways: of who asks by `toAscii`
(Latin-1, which gives `?` for what it has not), of who answers by `toUtf8`. The constants `ToAscii` and `ToUtf8` are these two conversions, for any texts; `typed` is the history of
what was typed, and to which end.

### `Transfer`, `Call`, `Ice`, `Turn`

`Transfer` has a job at each side: offer, acceptance, in-band blocks with their acknowledgements or SOCKS5
to one of the candidates and the proxy, the end, aborts, connections that break. Of the files: the sender's cannot be opened, is cut short or cannot be read, and
the receiver's cannot be opened or written. A file does not grow while it is sent, and a block read in part counts as one. In-band, a read that gives nothing ends the transfer as if the
file had ended; over SOCKS5 a failed read ends it with an error, and an empty one leaves it standing (`SendData`). The proxy's answer starts a job that is over once more, with its file closed (`ProxyActivates`).
`Call` has the states of `QXmppCall`
at both parties, the acknowledgements that matter, the 5 s timer, a video stream added later, and lines that drop. `Ice`
has the pairs of two agents with their transactions, and the media sent meanwhile, over UDP that may be open in one
direction only. `datagrams` is what has been sent so far and is never taken back: each may arrive late, again and again, or never. While the checks have found no pair, media goes over `fallbackPair`, which is
the first that was paired and then the one media last came from, unchecked (`MediaPair`). `Turn` has the allocation, its refresh and channel timers, and the transactions with their retries, against a server
that may be deaf, refuse, ask for credentials or forget.

Cryptography is perfect in all of these: what is not derived from the same keys does not verify.

## Runs

| Run | Instance | Shows |
|---|---|---|
| `XMPPConnection` | `MaxToken = 2`, `UserID.txt` absent or with a host, signed char; about 310 000 states | the connection properties below, with fairness, and the refinement of `StreamContract` |
| `Supervision` | `MaxToken = 1`, two loss timers, no `UserID.txt`; about 690 000 states | the pause properties |
| `Outbox` | one contact, one text, two sends, `MaxCached = 3`; about 480 000 states | the properties of the buffer, with fairness |
| `MCService` | five parts, one at a time: UI channel, Hub, stream, contacts, room; about 580 000 states | their properties, with fairness, and the refinement of `StreamContract` |
| `MCPeers` | seven parts, one at a time: exchange, keys, comparison, transfer, call, checks, relay; about 780 000 states | agreement of two parties |
| `SupOneRequest`, `SupQuiet`, `SupAutoRestart`, `SupLossIsReal` | `MaxToken = 1` or 2, one loss timer | counterexamples to four statements in comments and logs (see Findings) |
| `OutboxOffline`, `OutboxSealedOnce`, `OutboxEnded` | as `Outbox` | counterexamples to three statements (see Findings) |

`MCService` and `MCPeers` put parts that share no variable into one specification: the variable `part`
says which of them a behaviour follows, and the others keep one initial state. The state spaces add up and
are not multiplied, and each property speaks of its own part.

Properties of `XMPPConnection`:

* `LatchHasTimer`: `m_Restarting` is only set while the timer that clears it is pending.
* `ConnectedIsTrue`: of a Google connection, `m_Connected` never outlives the session.
* `UiBelief`: the UI was not last told "logged in" when `m_Connected` is clear.
* `RetryArmed`: a Google connection that is down has a timer, a request or a lookup
  pending that will bring it back.
* `KeepsTrying` (liveness): and it is in fact brought to a new attempt.
* `StreamAsPromised` (refinement): in all its slots the service uses the stream as the contract has it.
* `TypeOK`: types, and the bound on timers and requests.

Of `Supervision`: `PauseEnds` (a pause only while the monitor's last report was "not
connected", so its end is still to come), `LossNotForgotten` (an unreported loss has a
timer that can report it), `LossPauses` (liveness: a lasting loss ends in a pause).

Of `Outbox`:

* `OneWayOut`: no text leaves twice by the cache: it is cached once, and not if it was written.
* `CacheKept`: a cached message leaves the cache by being written, or with the process.
* `SecureMeansSecret`: while the UI has a conversation down as secure, no text of it leaves in clear.
* `Drains` (liveness): what is cached is in the end written.
* `OutTypeOK`: types; and what libotr keeps to send again belongs to a private conversation
  that still goes on.

`OneWayOut` and `Drains` except the loop that has lost its socket (`Spinning`), which never ends and
encrypts the head of the cache anew in each turn; `Drains` also excepts a `mutexLoadLocal` left
locked. Both exceptions are defects of the code, and the first is what `OutboxOffline` shows.

Of `MCService`:

* `DepartureNoticed` (liveness, UI channel): a client that left is noticed, or replaced.
* `InStep` (Hub): cache and platform hold the same items under the same, unique ids, with the marks of the files,
  whatever call failed; excepted are a process that ended before the settings were written, a reload, an item added after
  the newest was removed, and, for the mark, a failed call, which nothing repeats.
* `Resynched` (Hub, action property): after a synchronisation in which nothing failed every conversation is
  cached with its last message; excepted is a table that `InStep` excepts.
* `NegotiationConcludes` (stream): no state in which client and server both wait and there is no session. The exception is a bind
  or legacy login that was refused: the refusal is not looked at, and no timer limits a negotiation.
* `SessionIsAuthenticated` (stream, action property): a session begins on an authenticated stream only, in each of the three security modes an account may
  ask for; excepted is, under TLSDisabled, one thing: features that insist on TLS and offer nothing besides it.
* `DeadServerNoticed` (stream, liveness): the keep-alive closes a session whose server fell silent.
* `StreamKeepsContract` (stream, refinement of `StreamContract`).
* `TablesMirrorServer` (contacts and room): once nothing is on its way, the roster and presences are the server's, a UI
  that asked was told of each contact with a vCard, and the room here is the room there: same nickname, occupants,
  permissions.
* `MCServiceTypeOK`: types of each part.

Of `MCPeers`:

* `AkeAgreement` (exchange): who completes on a Signature Message does so with the keys his contact completed with before.
* `OneSessionPerKey` (exchange): a key pair is used for one conversation, however often messages are repeated.
* `SettledTogether` (exchange): when nothing is under way, two open conversations are the same one.
* `ExchangeConcludes` (exchange): whatever was lost, crossed or restarted before, an exchange asked for with nothing in flight, and then left
  alone, ends in a conversation on both sides. Two that are asked for at the same time are the exception (see the observations).
* `StaysReadable` (keys): a message in its order finds its keys at its receiver, whatever was rotated or lost meanwhile.
* `NoCounterReuse`, `AcceptedOnce`, `PublishedIsDead` (keys): no key and counter seal two messages; a repeated message is not accepted
  again; a MAC key is published only when no message is accepted under it any more.
* `VerdictIsTrue`, `SmpConcludes` (comparison): a verdict is whether the bytes made of the two secrets are equal, the same on both sides, and hence whether
  the users typed the same as long as they keep to ASCII; comparisons started one at a time end, with one
  verdict for each user.
* `OutcomesAgree` (transfer): no part of a file is ever taken for the whole by who receives it; and two jobs that ended without a mishap (an abort, a failed write, a broken
  connection) agree, whatever reads failed, except that an in-band sender which could not read its file to the end reports success.
* `PartiesAgree` (call): when nothing is under way, neither party is left talking alone, and both described their media.
* `PathWorks` (checks): once the checks have selected a pair, media goes over one that works in both directions, whatever came from where meanwhile, and the other agent has seen the
  check. Nothing is said of media sent before that, over the pair to fall back on.
* `ChannelsBacked` (relay): a channel data is sent over is bound at the server, or being bound.
* `MCPeersTypeOK`: types of each part.

**Bounds.** `MaxToken` bounds the token timers and requests together; two let a second
request overlap the first, which is where the code's comment and the code part.
`MaxLossTimers = 2` lets an early timer fire on a later loss. In `Outbox`, `MaxSends = 2` with a single text and contact
gives two texts that look alike, which is what the cache's comparison turns on, next to queries and
ciphertexts of them; contacts share nothing but the order of the cache, and the theorems hold for any
number of contacts and texts. `MaxCached` only stops the endless loop from piling up ciphertexts.

In `MCService`: two UI connections, so that one replaces the other; two conversations, two time
stamps and two ids in the Hub, so that an item is updated, removed and its id given out again;
a mechanism with two rounds (`X-FACEBOOK-PLATFORM`), so that one challenge too many can come; one item in flight per direction to the contact list
(`MaxArriving`), two contacts with and without a name in their vCard, one of them on a single resource; three nicknames, so that another occupant can
take the one we change to, and three stanzas in flight at a room, which lets a change of nickname, a kick and somebody's arrival cross.
In `MCPeers`: five DH key pairs and two messages in flight per direction let two exchanges cross, which takes four of them, and a third recover from that;
two conversations with three messages each let both sides rotate twice and a new exchange meet messages of the old
one; two secrets, one of ASCII and one that `toAscii` makes equal to it, two comparisons (four exponents); a file of four blocks, two addresses of the sender, one drop of a
line; two paths per component, of which any may be open one way; two relay channels, and two tries of each request.
The theorems below remove the bounds for the parts they are about. All other state is finite in the code too, up
to the abstraction of data.

**Fairness.** Weak fairness is assumed of what Qt guarantees: a timer that stays
active fires (`Ask`, `Again`, `LossTimer`, `PingSend`, `PingTimeout`), a lookup finishes (`Resolve`), an HTTP request
finishes (`Reply`) in one of the ways the code distinguishes, a signal of a socket that stays ready is delivered
(`NewConnection`, `ReadyRead`, `RemoteClientDisconect`; `SocketReadyRead`, `HandleStanza`). Nothing is assumed of the
server, the user or the platform: no session ever has to start. Only `Drains` needs a server: it assumes
that the service goes on opening streams (`KeepsTrying` of `XMPPConnection`) and that, of the streams it
opens again and again, some reach a session and a roster whose vCards can be read (strong fairness of
`SessionStarts` and `RosterArrives(TRUE)`), and weak fairness of the loop's own turns. In `MCService` the fairness of a part binds only behaviours that
follow it: its actions are disabled in the state the others leave it in. `MCPeers` has no fairness: the peers promise each other nothing, and what should
come about there is stated of the states in which nothing is left to arrive.

Deadlock is not checked in `MCService` and `MCPeers`: their parts end (a call is over, a file was transferred), or stop at a bound.

Every property has a mutant: an operator next to the one it replaces, marked "Mutant",
with the bug the property would catch.

## Findings

* `SupOneRequest`: "if token asked wait reply before asking a new token"
  (`XMPPService.cpp:292`) is not what happens: the latch is cleared when the request is sent.
* `SupQuiet`: "Disconnect & wait it return" (`XMPPService.cpp:159`): a token reply, the
  reconnection timer, a lookup or a login opens a connection during the pause.
* `SupAutoRestart`: "auto start when headless start", "auto restart after losing connection"
  (`XMPPService.cpp:258`): a service started without network, with a token but no
  `UserID.txt`, never connects when the network comes.
* `SupLossIsReal`: "wait 1 min in case the access could come back" (`NetworkStatus.cpp:104`):
  an access that comes back within the delay is not noticed and the loss is reported.
* `OutboxOffline`: "connection is successful, send cached messages" (`XMPPService.cpp:639`): in a service
  started without a token `m_Connected` outlives the connection; a contact list asked for then runs the
  loop over the cache without a socket, and it never ends.
* `OutboxSealedOnce`: libotr is to "encrypt the messages, and return you the message to be transmitted"
  (`OTR.h:43`); a message cached after that goes through it again, and the contact reads ciphertext.
* `OutboxEnded`: "Message has not been sent because our buddy has ended the private conversation. We should
  either close the connection, or refresh it." (`message.h:209`): neither is done; an empty message
  goes out in its place, counts as sent, and the UI is not told.

## Observed while modelling

Where the code surprised, without a line of the repository that promises otherwise. Each is in the model, as an
exception a property names, or as a case outside a stated restriction.

* Stream: the answer to a refused bind is ignored, and nothing limits how long a negotiation may take. With `TLSDisabled` (which the
  service configures for an account whose `encryption` is 1, `XMPPService.cpp:222` and `983`) the features of a server that insists on TLS and offers nothing besides it are taken for "nothing left to do",
  and a session is reported that nobody has authenticated.
* UI channel: `newConnection` that replaces a socket still open runs `remoteClientDisconect` on the
  new client (`XMPPService.cpp:896`); a second request in the same segment waits for the next bytes
  (`XMPPService.cpp:906`).
* Hub: after the newest item is removed and the process restarted an id is given out again (`UDSUtil.hpp:81`);
  `resynchHub` returns at the first contact without a name (`HeadlessApplication.cpp:361`, `454`); MARKPRIORREAD marks a newer, unseen
  message read; an `addItem` refused for its arguments leaves `itemId` uninitialised (`HeadlessApplication.cpp:467`; a preview has a text, so that
  the case is left out).
* Contacts: a contact that goes off line is told to the UI as status 0, which is Online (`XMPPService.cpp:518`);
  `m_SendContactWhenAvailable` (`XMPPService.cpp:1044`) is set and never read; nobody listens to `itemAdded` or `itemRemoved`, so a
  contact pushed is told with its presence or the next roster; presences of room occupants make empty vCards too.
* Rooms: `createRoom` for a room that exists makes a second owner of it (`XMPPService.cpp:1565`), and for another room deletes the first without
  leaving it; a join or `setNickName` repeated before the room has answered can leave a nickname that is not the one in the room (the model joins
  again, or changes the name outside the room, only when answered); a refused change of nickname emits `left()`
  although still joined, and a stream lost in the middle of one emits none.
* OTR exchange: when both users ask at the same time, each client takes the commit of the other for the one to follow, because
  the comparison that would let one of them win (`auth.c:380`) is not made for a master context, and under the glue's policy (version 2
  only) every context is one. Each then drops the D-H Key that answers its own commit, and both wait for a Reveal Signature until somebody asks again.
  libotr's own `tests.c:164` runs this "simultaneous start" for version 2, without looking at the outcome. `ExchangeConcludes` excepts
  that behaviour (`undisturbed`), and shows that the next request leads out of it. A Reveal Signature that is ignored has overwritten `r` (`auth.c:941`). The glue leaves most callbacks null and never fragments. Reassembly looks at the
  piece's number and count only, so that pieces of two messages may be put together; the MAC then rejects them.
* OTR comparison: the question a contact sends is lost (`OTR.cpp:415` to `462`): it is asked without its text. The secret of who asks is made into bytes by `toAscii`
  (with a length counted in characters of the text), of who answers by `toUtf8` (`OTR.cpp:379`, `361`): two users who type the same text outside ASCII are told that they differ, and one who asks with
  such a text is told "equal" to the question marks it becomes.
* Transfer: a candidate's second `disconnected()` drops the candidate after it; a job that is over can be brought back by a late
  answer; data that could not be written is acknowledged. In-band, a read that fails or
  gives nothing is taken for the end of the file (`QXmppTransferManager.cpp:1093` to `1116`): the sender reports success, the receiver a corrupt file. Over SOCKS5 a read that gives nothing before the
  end leaves the sender with nothing written and so with no `bytesWritten` that would go on (`QXmppTransferManager.cpp:708`): it waits until the other end closes.
* Checks: until they have found a pair, media goes over one that nobody has checked (`QXmppStun.cpp:2255`), and `QXmppCallManager.h:93` has the audio begin when the
  call is connected, which does not wait for them; the pair is looked up by the remote address alone, whichever socket it came through.
* Call: `session-accept` has no check of the state, so that a call hung up comes back until its end is acknowledged;
  `session-info` and `content-reject` are never acknowledged; two crossing `content-add` are both ignored; an initiation with unknown media
  leaks a call.
* Turn: after a refused refresh the channels and their timer go on; a 401 is retried only if nonce *and* realm changed; the refresh
  is sent 60 s before the end, but a transaction gives up after 63.5 s; a lifetime below 60 s underflows.

## Proofs

Eight modules hold theorems, each for every value of the constants of its module.

### `Supervision_proofs`: the connection service

For every `MaxToken`, every set of account files and both
signs of char, `TypeOK`, `LatchHasTimer`, `ConnectedIsTrue`, `UiBelief` and `RetryArmed`
are invariants of `Spec`. The inductive invariant `IInv` adds two facts to them:
`RedirectWaits` (a pending redirect waits for a close; without it a close
could reopen the socket with `m_Connected` still set) and `StrayIsConnected` (what the
history variable `strayed` means; without it the exception of `RetryArmed` could vanish
while the connection is down). The actions are grouped by the part of the code they belong
to; there is a lemma per conjunct, with a step per group or action. `TokenStep` says once how an
action can touch the token timers: through `oauth2Restart`, in three actions of their own, or at
the start and end of the process; the counters and the latch follow from it.
`StreamContractKept` proves the refinement `Spec => Promised!ContractSpec`, i.e. `StreamAsPromised`: the initial states are the
contract's, and each action is a step of the contract or leaves its variables alone; `TypeOK` and `RedirectWaits` are the facts of the state it needs.

The composition with the monitor implements the service
(`SupImplements`: `SupSpec => Spec`, each step of the composition is a step of the service or
leaves it alone), so that the theorems above hold under the monitor; `PauseEnds`,
`LossNotForgotten` and `SupTypeOK` are invariants. `SupInv` is inductive as it stands: `PauseFrame`
shows that no step of the process by itself begins a pause.

### `Stream_proofs`: the negotiation of the stream

`StreamTypeOK`, `NegotiationConcludes`, `SessionIsAuthenticated` and the refinement `StreamKeepsContract`, for every server,
mode and bound. `NegotiationConcludes` is about states where nothing is on its way; what is inductive, `StreamInv`, is about the turns the
two ends take. On the line (what the client is handling, then what is on its way) there is at most one thing that hands the turn to the
client (`OneAnswer`); at the server at most one request (`OneRequest`); never both (`NotBoth`); none while TLS is set up or in a session;
and nothing follows what the server closes the stream after (`LastIsLast`). `Knowledge` adds that somebody has the turn as long as the server listens, has refused nothing and there is no session (`Moving`),
that an answer finds the client waiting for it (`Awaited`), that the server knows what the client knows (`Known`), and that the features it sends are true of the stream (`FeaturesTrue`). The slots of the client are grouped by what they do with the turn
(`Asks`, `Secures`, `HasSession`, `Ignores`, `Shuts`), the server's by what they answer (`AnswerTo`).

### `Otr_proofs`: the key exchange, the comparison of secrets, and what leaves

`AkeTypeOK`, `AkeAgreement` and `OneSessionPerKey` hold for every number of key pairs
and of messages in flight. `AkeInv` says of an exchange under way that its key is one its party generated and has not completed
with (`Engaged`), of the past that its keys are distinct (`Past`), and of the messages in flight that their keys were generated and
that a Signature Message was made by a completion that its sender's past holds (`Mail`): agreement is that last fact when the message arrives.

`SettledTogether` (`SettledAgree`) is about states in which everything has arrived, and restarts and lost messages make almost any content of the channels possible
on the way there. What saves it is that key pairs are numbered as they are generated and that a channel keeps its order: in the pairs of keys a party has completed with, follows, or is telling
the other of (`Pairs`), newer keys of its own go with newer ones of the other (`Monotone`), and what is still to come brings no older ones (`InOrder`, `Frontier`). What a party has revealed for a key pair of its own is
for one key of the other only (`Roles`), a conversation is that of a completed exchange (`Founded`), and two parties in conversation without an exchange under way have the same pair (`Together`, which is then inductive).
`ExchangeConcludes` (`ExchangeHolds`) follows the one exchange that was asked for and not disturbed through its phases, `Queried`, `Committed`, `Answered`, `Opened`, `Signed`, `Concluded`, with one message in
flight in each (`Underway`).

`VerdictIsTrue` (`VerdictsAreTrue`) holds for all secrets and any number of comparisons, crossed, stopped, lost or restarted. The argument is by who drew each exponent, and to ask or in answer to which
exponent of the other side. The model has no such history: `SmpInv` says that one exists that explains the state (`Explains`). Under it generators
that hold the exponent of a side waiting for an answer are of a genuine pair (`GensOK`); a Message 2 brings an exponent that does not wait itself; an exponent drawn in answer has been typed for at most once, when the
question was answered; so what Message 3 brings and what a side about to conclude holds are the bytes (`Code`) of what both users typed, one to ask and one to answer, for one and the same comparison, and so is a verdict a state holds and tells later, again or too late (`Compared`).
`SmpConcludes` (`ComparisonsConclude`) follows comparisons that do not cross through six phases (`InPhase`), one message or one open question at a time, and counts the verdicts each user is still owed in them (`Owes`).

Of `Outbox`: `OutTypeOK`, `OneWayOut`, `CacheKept` and `SecureMeansSecret` for all sets of contacts
and texts and all bounds. `SendCases` says once which steps write or change the cache: the three callers of
`send_message`, the resend, and the end of the process. `SecureMeansSecret` needs `SecureHasGround`:
what the UI has down as secure, the glue has too, or the conversation is finished, and in both cases a
text cannot come out of `send_message` as it went in. `OneWayOut` needs `IdsGiven` (a new text's id is
new) and `SpinNext` (a loop without a socket stays one until the process ends).

### `OtrKeys_proofs`: the keys of a conversation

`KeysTypeOK`, `NoCounterReuse` and `PublishedIsDead` for every number of conversations and messages.
`KeysInv` says of each party that its table is the one of its key ids (`Columns`: the newest key's column, and the older one's, which may be
left from an earlier conversation), that pairs whose MAC keys are published or about to be are of an earlier time and not in the
table (`DeadPairs`), that no counter above an entry's has been used with it (`UsedInv`), and that messages in flight name
keys that exist (`GoodWire`). The two rotations are lemmas of their own, with one step per column.

`StaysReadable` (`ReadableInOrder`) needs how far the parties can be apart. `Abreast` says that each knows the other's current key or the one before it, and which of the two is ahead with a new exchange (`Level`), that a message in flight is sealed with keys its
sender has not gone back behind and the receiver is at most one ahead of (`Sender`, `Receiver`), and that later messages are sealed with later keys (`Rising`). `AcceptedOnce` (`NeverAcceptedTwice`) needs what a party remembers of a message it has
accepted: its keys are no younger than the party's, and where the table has them their counter is past the message's (`NumbersSpent`); the rotations and a new exchange put only younger keys, or the same with their counter, into the table (`Continues`).

### `Peers_proofs`: calls, connectivity checks, relays, transfers

`CallTypeOK` and `PartiesAgree` for all bounds. The two queues may hold terminations, acknowledgements and offers of media in many orders; what the proof
says of them is only what they carry. Whether the callee will talk, and whether the caller will, once they have read their queues (`Prospect`, `Talking`) is decided by what the other has done:
what ends the call leaves no prospect (`Final`), and the two begin to talk together (`Accepted`); the description of a medium is known to the other party or the answer to it is on its way (`Media`).
The call ends at most twice at the caller and once at the callee (`Counts`), and there are no more acknowledgements and terminations on their way than a party still counts (`Claims`): so `CallTypeOK`'s counter does not go below zero.

`IceTypeOK` and `PathWorks` for every number of paths and any components: what was read has come through
(`AllJustified`), an answer was only sent by who has read the request (`AnswersJustified`), and a pair becomes active with
both ways found (`ActiveChecked`). Media and the pair to fall back on touch none of these (`DataKept`), and `MediaPair` is the active pair once there is one.

`TurnTypeOK` and `ChannelsBacked` for all remotes, channels and limits on retries. `Orderly` adds that while the allocation
comes up or goes down its request is the only one, that nothing is bound before or after, and that the channel timer runs as long as there are
channels.

`TransferTypeOK` and `OutcomesAgree` for every size of the file and number of hosts. `TransferInv` is what holds whatever happens, aborts, failed writes and broken connections
included: the sender has the method the receiver settled or none yet (`Methodical`), so that what is on its way is of that method (`MailTyped`); no block is counted by the receiver that the sender
has not counted, with those in the socket and on their way in between (`Counted`); and a part of the file is never taken for the whole (`Whole`), also for jobs brought back after their end.
The second half of `OutcomesAgree` is about transfers without a mishap, and is far from inductive. `OnCourse` says that such a transfer is in one of seventeen phases (`Phase`), from `NotBegun` through the offer, then
either in the stream (`StreamOpening`, `Moving`, `StreamClosing`, `Closed`) or over SOCKS5 (`ProxyAsked`, `Trying` a host, `Chosen`, `Relaying`, `Flowing`, `Draining`, or the refusals `NoneLeft` and `Denied`), each with the stanzas and blocks
under way in it. `WhichPhase` finds the phase a step can begin in, and one lemma per action the phase it leads to; the phases in which both jobs are over agree. A host that is dropped because the one before it says `disconnected()` twice
does not matter to this: the receiver runs out of hosts earlier, and says so.

### `MCPeers_proofs`: the protocols of two clients together

`WholeImplementsParts`: a behaviour of `MCPeers` is one of each of its parts, the part it follows or one that stays in its initial state. All that is proved of the parts
therefore holds of the specification that the run checks (`PeersTypeCorrect`, `PeersKeepTheirPromises`).

### `Hub_proofs`: the Hub's cache

`HubTypeOK`, `InStep` and `Resynched` for any number of contacts, messages and ids. `InStep` is not
inductive. `HubInv` says, of the table the service has, or of the one on disk that the next start will
load, that it is the platform's (`Same`), has one item per conversation (`OneEach`: or an update would find the wrong one), none later than the
last message (`NoneLater`: or a mark could be mistaken) and the marks of the files (`SameMarks`), that ids end at the last one, and
that a loop under way works on an item that is cached (`LoopIsCached`). For `Resynched`, `CaughtUp` is the invariant of the loop: what it is past is cached. Its proof
corrected the property, which once had no exception: where an id was given out twice, two conversations share it, and the update of one takes the item of the other, which
the loop may be past. The run's two messages do not get that far; with four (and three ids) TLC finds it.

### `Tables_proofs`: roster, rooms, UI channel, and the service as a whole

`TablesMirrorServer` says that the client's tables are the server's once nothing is on its way. The invariant behind it is the same sentence for every other state: the tables now, changed
by the stanzas on their way one after the other, become what the server has now. `Reads` states that by the existence of a run of views, one per stanza, so that no recursion over the channel is
needed; its lemmas (a stanza is taken from the front, one is added at the end) are proved once and used for `RoomComing` and for `ListComing`. For rooms, `JoinsFirst` adds that a join is the first of what is sent, with nothing on its way back; for contacts, `Wired` that a stream has asked for the roster and announced the client, or will, and `Owed`
that a UI that asked has been told or what tells it is on its way. `UiChannelTypeCorrect` counts a UI's requests (`RequestsCounted`); its proof found
that `MaxBinds` must be positive, since the process starts with a bind to be done.

`PartsInv` puts the parts of `MCService` side by side (a step of one leaves the variables of the others alone), which gives `TablesMirrorServer` and `MCServiceTypeOK` for
the specification that the run checks.

### Assumptions

They are those named in the modules: bounds are naturals (`MaxToken`, `MaxLossTimers`, `MaxBinds` positive),
`UserFiles` is a subset of the three cases, `CharIsSigned` a Boolean; in `Outbox` no text is the query or empty and
`None` is no message; there are two parties in the OTR modules, no secret, nor the bytes of one, is the constant that stands for none, and
the conversion to UTF-8 takes different texts to different bytes; contacts, nicknames and actions are finite sets in `Contacts` and `Rooms`. TLC evaluates all of them in the runs.

### Only model-checked

* liveness (`KeepsTrying`, `LossPauses`, `Drains`, `DepartureNoticed`, `DeadServerNoticed`) and the counterexamples: out of the prover's reach;
* that the actions all happen, and that mutants of them break the properties: the runs show it.

## Not modelled

The map covers some 8 200 of the 65 700 lines counted as implementation. The greater part of those
lines has no behaviour that a state machine would say more of than a test:

* libgcrypt and libgpg-error, vendored: algorithms on data; the OTR modules take them as perfect. Of libotr, encodings
  (`b64.c`, `tlv.c`, the serialisation in `proto.c` and `auth.c`), key and fingerprint files (`privkey.c`), the key tools, fragments, instance tags
  of further clients, whitespace tags.
* The stanza and IQ classes, the XML helpers, the encoding and decoding of STUN messages: they parse and
  serialise, and keep nothing.
* Codecs and RTP (`QXmppCodec`, `QXmppRtpChannel`): arithmetic on samples. The call manager is compiled but never added to the service's client.
* The resolver (`QDnsLookup`) and the HTTP helpers: platform I/O; that a lookup and a request finish once is part of `XMPPConnection`.
* The other extensions (discovery, version, time, last activity, archive, RPC, pub-sub ...): each answers a request, or is not added by the service.
* Of the modelled parts: the interactive OAuth exchange (no caller in the service), texts and invitations in rooms and their
  configuration, groups and subscriptions of the roster, the registration of the Hub's account, how an item is shown, names of received files.

What would be worth adding: the receiving half of the message path (`message_received`, the history files and the
previews that follow from it), joining `Outbox`, `OtrKeys` and `Hub`; several rooms at once.
`PROJECT.json` lists every part with its status and the reason.
