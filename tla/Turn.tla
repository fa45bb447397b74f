-------------------------------- MODULE Turn --------------------------------
(***************************************************************************)
(* How an ICE component gathers its candidates: the binding requests to    *)
(* the STUN server (checkStun) and the allocation on the TURN server       *)
(* (QXmppTurnAllocation), with the retries of QXmppStunTransaction.        *)
(*                                                                         *)
(* The TURN server and the network are external: a request or its answer   *)
(* may be lost, the server asks for authentication first, may refuse, and  *)
(* lets an allocation and its channels lapse that nobody refreshes.  A     *)
(* request that is repeated equals the pending one it repeats.             *)
(***************************************************************************)
EXTENDS Naturals, Sequences

CONSTANTS
    Remotes,        \* addresses data is sent to through the relay
    MaxChannels,    \* bound on the channel numbers given out
    MaxTries,       \* STUN_RTO_MAX
    MaxStunTries    \* m_stunTries at which checkStun stops

ASSUME TriesAssumption ==
    MaxChannels \in Nat /\ MaxTries \in Nat \ {0} /\ MaxStunTries \in Nat

VARIABLES
    allocation,     \* m_state
    transactions,   \* m_transactions: the requests that are not answered
    credentials,    \* m_nonce, m_realm and m_key are set
    remoteOf,       \* the address each channel number was given to
    channels,       \* m_channels, by number
    refreshTimer, channelTimer,
    leased, bound,  \* the server's allocation and the channels it has bound
    stunTimer, stunTries,
    gathered,       \* m_localCandidates, by type
    relayOpen       \* close has not been called

turnVars == <<allocation, transactions, credentials, remoteOf, channels, refreshTimer,
              channelTimer, leased, bound, stunTimer, stunTries, gathered, relayOpen>>

gatherVars == <<stunTimer, stunTries, gathered, relayOpen>>
serverVars == <<leased, bound>>

Channel == 1..MaxChannels
Transaction == [method : {"allocate", "refresh", "release", "bind"},
                channel : 0..MaxChannels, signed : BOOLEAN, tries : 1..MaxTries]

TurnTypeOK ==
    /\ allocation \in {"unconnected", "connecting", "connected", "closing"}
    /\ transactions \subseteq Transaction
    /\ credentials \in BOOLEAN
    /\ remoteOf \in Seq(Remotes) /\ Len(remoteOf) <= MaxChannels
    /\ channels \subseteq DOMAIN remoteOf /\ bound \subseteq DOMAIN remoteOf
    /\ refreshTimer \in BOOLEAN /\ channelTimer \in BOOLEAN /\ leased \in BOOLEAN
    /\ stunTimer \in BOOLEAN /\ stunTries \in 0..(MaxStunTries + 1)
    /\ gathered \subseteq {"host", "reflexive", "relayed"} /\ relayOpen \in BOOLEAN
    /\ allocation \in {"connecting", "closing"} => transactions # {}

TurnInit ==
    /\ allocation = "unconnected" /\ transactions = {} /\ credentials = FALSE
    /\ remoteOf = <<>> /\ channels = {} /\ refreshTimer = FALSE /\ channelTimer = FALSE
    /\ leased = FALSE /\ bound = {}
    /\ stunTimer = FALSE /\ stunTries = 0 /\ gathered = {} /\ relayOpen = TRUE

\* A new QXmppStunTransaction, which sends its request at once.
Request(kind, n) ==
    [method |-> kind, channel |-> n, signed |-> credentials, tries |-> 1]

\* The same request once more.
Repeated(t, signed, tries) ==
    [method |-> t.method, channel |-> t.channel, signed |-> signed, tries |-> tries]

-----------------------------------------------------------------------------
(* Server-reflexive candidates.                                            *)

\* setSockets: the first request to the STUN server, and connectToHost.
SetSockets ==
    /\ relayOpen /\ gathered = {}
    /\ gathered' = {"host"}
    /\ stunTries' = 1 /\ stunTimer' = TRUE
    /\ allocation' = "connecting"
    /\ transactions' = {Request("allocate", 0)}
    /\ UNCHANGED <<credentials, remoteOf, channels, refreshTimer, channelTimer,
                   serverVars, relayOpen>>

turnRest == UNCHANGED <<allocation, transactions, credentials, remoteOf, channels,
                        refreshTimer, channelTimer, serverVars>>

\* The timer: checkStun.
CheckStun ==
    /\ stunTimer
    /\ stunTimer' = (stunTries <= MaxStunTries)
    /\ stunTries' = IF stunTries <= MaxStunTries THEN stunTries + 1 ELSE stunTries
    /\ turnRest /\ UNCHANGED <<gathered, relayOpen>>

\* handleDatagram, of the STUN server's answer.
StunAnswer ==
    /\ relayOpen /\ stunTries > 0
    /\ stunTimer' = FALSE
    /\ gathered' = gathered \cup {"reflexive"}
    /\ turnRest /\ UNCHANGED <<stunTries, relayOpen>>

-----------------------------------------------------------------------------
(* The TURN server.                                                        *)

\* It grants a request: what it does then.
Grants(t) ==
    /\ t.signed
    /\ t.method # "allocate" => leased
    /\ leased' = (t.method # "release")
    /\ bound' = IF t.method = "release" THEN {}
                ELSE IF t.method = "bind" THEN bound \cup {t.channel} ELSE bound

\* The answer of a request that is granted is lost.
ServerGrants(t) ==
    /\ Grants(t)
    /\ UNCHANGED <<allocation, transactions, credentials, remoteOf, channels,
                   refreshTimer, channelTimer, gatherVars>>

\* An allocation lapses after its lifetime, a channel after 600 s.  The client
\* begins to refresh an allocation 60 s before its end and gives up after
\* 63.5 s (500 ms doubled seven times); a channel is refreshed after 500 s, or
\* has been given up by 563.5 s.
Lapse ==
    /\ leased
    /\ \/ allocation # "connected"
       \/ \E t \in transactions : t.method = "refresh" /\ t.tries = MaxTries
    /\ leased' = FALSE /\ bound' = {}
    /\ UNCHANGED <<allocation, transactions, credentials, remoteOf, channels,
                   refreshTimer, channelTimer, gatherVars>>

ChannelLapses(n) ==
    /\ n \in bound /\ (n \notin channels \/ ~channelTimer)
    /\ bound' = bound \ {n}
    /\ UNCHANGED <<allocation, transactions, credentials, remoteOf, channels,
                   refreshTimer, channelTimer, leased, gatherVars>>

-----------------------------------------------------------------------------
(* transactionFinished.                                                    *)

\* Mutant: the channel is not removed.
BindRefusedKept(t) ==
    t.method = "bind" /\ UNCHANGED <<allocation, refreshTimer, channels, channelTimer>>

\* ChannelBind failed.
BindRefused(t) ==
    /\ t.method = "bind"
    /\ channels' = channels \ {t.channel}
    /\ channelTimer' = (channelTimer /\ channels' # {})
    /\ UNCHANGED <<allocation, refreshTimer>>

\* An error, other than the demand for authentication, or no answer at all.
\* Without its allocation the client still has its channels and their timer.
Rejected(t) ==
    /\ transactions' = transactions \ {t}
    /\ \/ BindRefused(t)
       \/ /\ t.method # "bind"
          /\ allocation' = "unconnected" /\ refreshTimer' = FALSE
          /\ UNCHANGED <<channels, channelTimer>>
    /\ UNCHANGED <<credentials, remoteOf, gathered>>

ServerRefuses(t) ==
    /\ Rejected(t)
    /\ UNCHANGED <<serverVars, stunTimer, stunTries, relayOpen>>

\* 401, with a nonce and a realm that are both new: the request is repeated.
Challenged(t) ==
    /\ ~credentials /\ credentials' = TRUE
    /\ transactions' = (transactions \ {t}) \cup {Repeated(t, TRUE, 1)}
    /\ UNCHANGED <<allocation, remoteOf, channels, refreshTimer, channelTimer,
                   serverVars, gatherVars>>

\* Success.
Granted(t) ==
    /\ Grants(t)
    /\ transactions' = transactions \ {t}
    /\ \/ /\ t.method = "allocate"
          /\ allocation' = "connected" /\ refreshTimer' = TRUE
          /\ gathered' = gathered \cup {"relayed"}
       \/ t.method = "bind" /\ UNCHANGED <<allocation, refreshTimer, gathered>>
       \/ t.method = "refresh" /\ refreshTimer' = TRUE /\ UNCHANGED <<allocation, gathered>>
       \/ /\ t.method = "release"
          /\ allocation' = "unconnected" /\ refreshTimer' = FALSE /\ UNCHANGED gathered
    /\ UNCHANGED <<credentials, remoteOf, channels, channelTimer, stunTimer, stunTries,
                   relayOpen>>

\* The retry timer of a transaction: retry.
RetryTransaction(t) ==
    /\ \/ /\ t.tries < MaxTries
          /\ transactions' = (transactions \ {t}) \cup {Repeated(t, t.signed, t.tries + 1)}
          /\ UNCHANGED <<allocation, credentials, remoteOf, channels, refreshTimer,
                         channelTimer, gathered>>
       \/ t.tries = MaxTries /\ Rejected(t)
    /\ UNCHANGED <<serverVars, stunTimer, stunTries, relayOpen>>

-----------------------------------------------------------------------------
(* The client's timers and calls.                                          *)

\* refresh
RefreshAllocation ==
    /\ refreshTimer /\ refreshTimer' = FALSE
    /\ transactions' = transactions \cup {Request("refresh", 0)}
    /\ UNCHANGED <<allocation, credentials, remoteOf, channels, channelTimer,
                   serverVars, gatherVars>>

\* refreshChannels
RefreshChannels ==
    /\ channelTimer
    /\ transactions' = transactions \cup {Request("bind", n) : n \in channels}
    /\ UNCHANGED <<allocation, credentials, remoteOf, channels, refreshTimer,
                   channelTimer, serverVars, gatherVars>>

\* writeDatagram: a channel is bound for an address that has none.
WriteDatagram(r) ==
    LET n == Len(remoteOf) + 1 IN
    /\ allocation = "connected" /\ n <= MaxChannels
    /\ \A k \in channels : remoteOf[k] # r
    /\ remoteOf' = Append(remoteOf, r)
    /\ channels' = channels \cup {n} /\ channelTimer' = TRUE
    /\ transactions' = transactions \cup {Request("bind", n)}
    /\ UNCHANGED <<allocation, credentials, refreshTimer, serverVars, gatherVars>>

\* close, with disconnectFromHost.
CloseRelay ==
    /\ relayOpen' = FALSE /\ stunTimer' = FALSE
    /\ channels' = {} /\ channelTimer' = FALSE /\ refreshTimer' = FALSE
    /\ \/ /\ allocation = "connected"
          /\ allocation' = "closing" /\ transactions' = {Request("release", 0)}
       \/ /\ allocation # "connected"
          /\ allocation' = "unconnected" /\ transactions' = {}
    /\ UNCHANGED <<credentials, remoteOf, serverVars, stunTries, gathered>>

TurnNext ==
    \/ SetSockets \/ CheckStun \/ StunAnswer
    \/ \E t \in transactions :
          \/ ServerGrants(t) \/ ServerRefuses(t)
          \/ Challenged(t) \/ Granted(t) \/ RetryTransaction(t)
    \/ Lapse \/ RefreshAllocation \/ RefreshChannels \/ CloseRelay
    \/ \E n \in Channel : ChannelLapses(n)
    \/ \E r \in Remotes : WriteDatagram(r)

TurnSpec == TurnInit /\ [][TurnNext]_turnVars

-----------------------------------------------------------------------------
(* Properties.                                                             *)

\* Data is sent over a channel that the server has bound or is just asked to
\* bind, whatever was refused, repeated or given up before: data on any other
\* is dropped by the server without a word.
ChannelsBacked ==
    allocation = "connected" /\ leased =>
        \A n \in channels :
            n \in bound \/ \E t \in transactions : t.method = "bind" /\ t.channel = n
=============================================================================
