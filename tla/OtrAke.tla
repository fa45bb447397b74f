------------------------------- MODULE OtrAke -------------------------------
(***************************************************************************)
(* The authenticated key exchange of libotr (auth.c, and what              *)
(* otrl_message_receiving of message.c does with its messages) between two *)
(* parties that run this code under the glue's policy, ALLOW_V2: there is  *)
(* one context per contact, which is its own master context.               *)
(*                                                                         *)
(* A DH key pair is a number; the AES key r that hides g^x in a commit is  *)
(* named after the key it hides.  A MAC is the pair of keys it was         *)
(* computed from, the signer's own first.  XMPP keeps the order of the     *)
(* messages of one direction, and may lose them.                           *)
(***************************************************************************)
EXTENDS Naturals, Sequences

CONSTANTS
    Parties,
    MaxKeys,     \* bound on the DH key pairs generated
    MaxFlight    \* bound on the messages in flight to one party

ASSUME AkeTwoParties == \E p, q \in Parties : p # q /\ Parties = {p, q}
ASSUME AkeBoundsAssumption == MaxKeys \in Nat /\ MaxFlight \in Nat

VARIABLES
    auth,       \* OtrlAuthInfo of the context each party has for the other
    session,    \* the keys of the private conversation, or NoKeys
    flight,     \* messages on their way to each party
    keys,       \* history: the number of key pairs generated
    completed,  \* history: the exchanges each party completed, in order
    undisturbed \* history: since somebody last asked for an exchange, with
                \* nothing in flight, nothing was asked, lost, ended or restarted

akeVars == <<auth, session, flight, keys, completed, undisturbed>>

Other(p) == CHOOSE q \in Parties : q # p

Key == 1..MaxKeys
NoKey == 0
Pair == (Key \cup {NoKey}) \X (Key \cup {NoKey})
NoKeys == <<NoKey, NoKey>>

AkeMsg == [type : {"none", "query", "commit", "key", "revealsig", "signature"},
           key : Key \cup {NoKey}, mac : Pair]
AkeMessage(type, key, mac) == [type |-> type, key |-> key, mac |-> mac]
NoMessage == AkeMessage("none", NoKey, NoKeys)

AuthInfo ==
    [authstate : {"none", "dhkey", "revealsig", "sig"},
     our_dh : Key \cup {NoKey},
     r : Key \cup {NoKey},
     encgx : Key \cup {NoKey},      \* with hashgx: the commit in question
     their_pub : Key \cup {NoKey},
     lastauthmsg : AkeMsg]

Auth(authstate, our_dh, r, encgx, their_pub, lastauthmsg) ==
    [authstate |-> authstate, our_dh |-> our_dh, r |-> r, encgx |-> encgx,
     their_pub |-> their_pub, lastauthmsg |-> lastauthmsg]

\* otrl_auth_clear
Cleared == Auth("none", NoKey, NoKey, NoKey, NoKey, NoMessage)

Half == {"first", "second"}    \* session_id_half

\* What may be sent again in a state is the message that state was entered
\* with, made of the keys it still holds.
Resendable(a) ==
    /\ a.authstate = "dhkey" =>
          a.lastauthmsg = AkeMessage("commit", a.our_dh, NoKeys)
    /\ a.authstate = "revealsig" =>
          a.lastauthmsg = AkeMessage("key", a.our_dh, NoKeys)
    /\ a.authstate = "sig" =>
          /\ a.lastauthmsg.type = "revealsig"
          /\ a.lastauthmsg.mac = <<a.our_dh, a.their_pub>>

\* Types; and a message that is sent again fits the exchange it is sent for.
AkeTypeOK ==
    /\ auth \in [Parties -> AuthInfo]
    /\ \A p \in Parties : Resendable(auth[p])
    /\ session \in [Parties -> Pair]
    /\ flight \in [Parties -> Seq(AkeMsg)]
    /\ keys \in 0..MaxKeys
    /\ completed \in [Parties -> Seq(Key \X Key \X Half)]
    /\ undisturbed \in BOOLEAN

AkeInit ==
    /\ auth = [p \in Parties |-> Cleared]
    /\ session = [p \in Parties |-> NoKeys]
    /\ flight = [p \in Parties |-> <<>>]
    /\ keys = 0
    /\ completed = [p \in Parties |-> <<>>]
    /\ undisturbed = FALSE

-----------------------------------------------------------------------------
(* The message at the head of p's queue is handled; a reply goes to the    *)
(* other party.                                                            *)

Quiet == \A p \in Parties : flight[p] = <<>>
Settled == Quiet /\ \A p \in Parties : auth[p].authstate = "none"

Received(p, type) == flight[p] # <<>> /\ Head(flight[p]).type = type
Consume(p) == flight' = [flight EXCEPT ![p] = Tail(@)]
ConsumeAndSend(p, m) ==
    /\ Len(flight[Other(p)]) < MaxFlight
    /\ flight' = [q \in Parties |->
                     IF q = p THEN Tail(flight[p]) ELSE Append(flight[q], m)]

\* otrl_dh_gen_keypair
Generates == keys < MaxKeys /\ keys' = keys + 1

\* otrl_auth_start_v23 and send_or_error_auth, on a query of the contact.
HandleQuery(p) ==
    LET gx == keys + 1
        commit == AkeMessage("commit", gx, NoKeys)
    IN  /\ Received(p, "query")
        /\ Generates
        /\ auth' = [auth EXCEPT ![p] = Auth("dhkey", gx, gx, gx, NoKey, commit)]
        /\ ConsumeAndSend(p, commit)
        /\ UNCHANGED <<session, completed, undisturbed>>

\* otrl_auth_handle_commit.  The context is always the master one, so that
\* a commit that crosses our own one wins.
HandleCommit(p) ==
    LET gx == Head(flight[p]).key
        gy == keys + 1
        dhkey == AkeMessage("key", gy, NoKeys)
    IN  /\ Received(p, "commit")
        /\ \/ /\ auth[p].authstate # "revealsig"
              /\ Generates
              /\ auth' = [auth EXCEPT ![p] =
                    Auth("revealsig", gy, NoKey, gx, NoKey, dhkey)]
              /\ ConsumeAndSend(p, dhkey)
           \/ /\ auth[p].authstate = "revealsig"
              /\ auth' = [auth EXCEPT ![p] = [auth[p] EXCEPT !.encgx = gx]]
              /\ ConsumeAndSend(p, auth[p].lastauthmsg)
              /\ UNCHANGED keys
        /\ UNCHANGED <<session, completed, undisturbed>>

\* Mutant: the Reveal Signature Message is sent and not kept.
HandleKeyUnkept(p) ==
    LET a == auth[p]
        gy == Head(flight[p]).key
        reveal == AkeMessage("revealsig", a.r, <<a.our_dh, gy>>)
    IN  /\ Received(p, "key")
        /\ \/ /\ a.authstate = "dhkey"
              /\ auth' = [auth EXCEPT ![p] =
                    Auth("sig", a.our_dh, a.r, a.encgx, gy, a.lastauthmsg)]
              /\ ConsumeAndSend(p, reveal)
           \/ a.authstate # "dhkey" /\ Consume(p) /\ UNCHANGED auth
        /\ UNCHANGED <<session, keys, completed, undisturbed>>

\* otrl_auth_handle_key
HandleKey(p) ==
    LET a == auth[p]
        gy == Head(flight[p]).key
        reveal == AkeMessage("revealsig", a.r, <<a.our_dh, gy>>)
    IN  /\ Received(p, "key")
        /\ \/ /\ a.authstate = "dhkey"
              /\ auth' = [auth EXCEPT ![p] =
                    Auth("sig", a.our_dh, a.r, a.encgx, gy, reveal)]
              /\ ConsumeAndSend(p, reveal)
           \/ /\ a.authstate = "sig" /\ a.their_pub = gy
              /\ ConsumeAndSend(p, a.lastauthmsg)
              /\ UNCHANGED auth
           \/ /\ \/ a.authstate \in {"none", "revealsig"}
                 \/ a.authstate = "sig" /\ a.their_pub # gy
              /\ Consume(p)
              /\ UNCHANGED auth
        /\ UNCHANGED <<session, keys, completed, undisturbed>>

\* go_encrypted: the keys become those of the private conversation.
GoEncrypted(p, ours, theirs, half) ==
    /\ session' = [session EXCEPT ![p] = <<ours, theirs>>]
    /\ completed' = [completed EXCEPT ![p] = Append(@, <<ours, theirs, half>>)]

SamePair(mac, ours, theirs) == mac = <<theirs, ours>>

\* Mutant: the exchange is not closed when it has succeeded.
HandleRevealSigOpen(p) ==
    LET m == Head(flight[p])
        a == [auth[p] EXCEPT !.r = m.key]
        signature == AkeMessage("signature", NoKey, <<a.our_dh, a.encgx>>)
    IN  /\ Received(p, "revealsig")
        /\ \/ /\ a.authstate = "revealsig" /\ a.r = a.encgx
              /\ SamePair(m.mac, a.our_dh, a.encgx)
              /\ auth' = [auth EXCEPT ![p] =
                    Auth("revealsig", a.our_dh, a.r, a.encgx, a.encgx, signature)]
              /\ GoEncrypted(p, a.our_dh, a.encgx, "second")
              /\ ConsumeAndSend(p, signature)
           \/ /\ a.authstate # "revealsig" \/ a.r # a.encgx
              /\ auth' = [auth EXCEPT ![p] = a]
              /\ Consume(p)
              /\ UNCHANGED <<session, completed>>
        /\ UNCHANGED <<keys, undisturbed>>

\* Mutant: the last message is sent before the signature takes its place.
HandleRevealSigStale(p) ==
    LET m == Head(flight[p])
        a == [auth[p] EXCEPT !.r = m.key]
        signature == AkeMessage("signature", NoKey, <<a.our_dh, a.encgx>>)
    IN  /\ Received(p, "revealsig")
        /\ \/ /\ a.authstate = "revealsig" /\ a.r = a.encgx
              /\ SamePair(m.mac, a.our_dh, a.encgx)
              /\ auth' = [auth EXCEPT ![p] =
                    Auth("none", a.our_dh, a.r, a.encgx, a.encgx, signature)]
              /\ GoEncrypted(p, a.our_dh, a.encgx, "second")
              /\ ConsumeAndSend(p, auth[p].lastauthmsg)
           \/ /\ a.authstate # "revealsig" \/ a.r # a.encgx
              /\ auth' = [auth EXCEPT ![p] = a]
              /\ Consume(p)
              /\ UNCHANGED <<session, completed>>
        /\ UNCHANGED <<keys, undisturbed>>

\* otrl_auth_handle_revealsig.  The r of the message is stored before the
\* state is looked at.  It must open the commit, and the MAC must be that of
\* the two keys; else the message is dropped (in the second case g^x is
\* already stored).
HandleRevealSig(p) ==
    LET m == Head(flight[p])
        a == [auth[p] EXCEPT !.r = m.key]
        signature == AkeMessage("signature", NoKey, <<a.our_dh, a.encgx>>)
        awaited == a.authstate = "revealsig"
        opens == a.r = a.encgx
        genuine == SamePair(m.mac, a.our_dh, a.encgx)
    IN  /\ Received(p, "revealsig")
        /\ \/ /\ awaited /\ opens /\ genuine
              /\ auth' = [auth EXCEPT ![p] =
                    Auth("none", a.our_dh, a.r, a.encgx, a.encgx, signature)]
              /\ GoEncrypted(p, a.our_dh, a.encgx, "second")
              /\ ConsumeAndSend(p, signature)
           \/ /\ awaited /\ opens /\ ~genuine
              /\ auth' = [auth EXCEPT ![p] = [a EXCEPT !.their_pub = a.encgx]]
              /\ Consume(p)
              /\ UNCHANGED <<session, completed>>
           \/ /\ ~(awaited /\ opens)
              /\ auth' = [auth EXCEPT ![p] = a]
              /\ Consume(p)
              /\ UNCHANGED <<session, completed>>
        /\ UNCHANGED <<keys, undisturbed>>

\* Mutant: the MAC of the signature is not checked.
HandleSignatureUnchecked(p) ==
    LET a == auth[p]
    IN  /\ Received(p, "signature")
        /\ Consume(p)
        /\ \/ /\ a.authstate = "sig"
              /\ auth' = [auth EXCEPT ![p] =
                    Auth("none", a.our_dh, a.r, a.encgx, a.their_pub, NoMessage)]
              /\ GoEncrypted(p, a.our_dh, a.their_pub, "first")
           \/ a.authstate # "sig" /\ UNCHANGED <<auth, session, completed>>
        /\ UNCHANGED <<keys, undisturbed>>

\* otrl_auth_handle_signature
HandleSignature(p) ==
    LET a == auth[p]
        genuine == SamePair(Head(flight[p]).mac, a.our_dh, a.their_pub)
    IN  /\ Received(p, "signature")
        /\ Consume(p)
        /\ \/ /\ a.authstate = "sig" /\ genuine
              /\ auth' = [auth EXCEPT ![p] =
                    Auth("none", a.our_dh, a.r, a.encgx, a.their_pub, NoMessage)]
              /\ GoEncrypted(p, a.our_dh, a.their_pub, "first")
           \/ /\ ~(a.authstate = "sig" /\ genuine)
              /\ UNCHANGED <<auth, session, completed>>
        /\ UNCHANGED <<keys, undisturbed>>

-----------------------------------------------------------------------------
(* The users, and what goes wrong around the exchange.                     *)

\* startOTRSession: a query, at any moment.
AskForSession(p) ==
    /\ Len(flight[Other(p)]) < MaxFlight
    /\ flight' = [flight EXCEPT ![Other(p)] =
                     Append(@, AkeMessage("query", NoKey, NoKeys))]
    /\ undisturbed' = Quiet
    /\ UNCHANGED <<auth, session, keys, completed>>

\* disconnectOTR, a notice that the contact ended the conversation, or a
\* plain text in it: otrl_context_force_finished, which drops an exchange too.
EndSession(p) ==
    /\ session[p] # NoKeys
    /\ session' = [session EXCEPT ![p] = NoKeys]
    /\ auth' = [auth EXCEPT ![p] = Cleared]
    /\ undisturbed' = FALSE
    /\ UNCHANGED <<flight, keys, completed>>

\* The process ends and starts again: nothing of this is kept.
RestartParty(p) ==
    /\ session' = [session EXCEPT ![p] = NoKeys]
    /\ auth' = [auth EXCEPT ![p] = Cleared]
    /\ undisturbed' = FALSE
    /\ UNCHANGED <<flight, keys, completed>>

\* A message is lost with the stream that carries it.
LoseMessage(p) ==
    /\ flight[p] # <<>>
    /\ Consume(p)
    /\ undisturbed' = FALSE
    /\ UNCHANGED <<auth, session, keys, completed>>

AkeDeliver(p) ==
    \/ HandleQuery(p) \/ HandleCommit(p) \/ HandleKey(p)
    \/ HandleRevealSig(p) \/ HandleSignature(p)

AkeNext ==
    \E p \in Parties :
        \/ AkeDeliver(p)
        \/ AskForSession(p) \/ EndSession(p) \/ RestartParty(p)
        \/ LoseMessage(p)

AkeSpec == AkeInit /\ [][AkeNext]_akeVars

-----------------------------------------------------------------------------
(* Properties.                                                             *)

Completed(p) == {completed[p][i] : i \in DOMAIN completed[p]}

\* Who completes an exchange on a Signature Message does so with the very
\* keys his contact completed it with before: auth.c makes a Signature Message
\* only when it completes, and its MAC tells both keys.
AkeAgreement ==
    \A p \in Parties : \A s \in Completed(p) :
        s[3] = "first" => <<s[2], s[1], "second">> \in Completed(Other(p))

\* A key pair of the exchange is used for one conversation only, however
\* often its messages are sent again or answered twice.
OneSessionPerKey ==
    \A p \in Parties : \A i, j \in DOMAIN completed[p] :
        i # j => completed[p][i][1] # completed[p][j][1]

\* When nothing is in flight and neither party is in an exchange, two open
\* conversations are the same one, whatever was lost, stopped or restarted
\* on the way: no party is left sealing under keys the other never had.
SettledTogether ==
    Settled => \A p, q \in Parties :
        (p # q /\ session[p] # NoKeys /\ session[q] # NoKeys)
            => session[p] = <<session[q][2], session[q][1]>>

\* Whatever was lost, stopped, crossed or restarted before, an exchange asked
\* for with nothing in flight ends with a conversation on both sides once its
\* messages have arrived.  Of two that cross this is not so: each side takes
\* the other's commit for the one to follow (the comparison of
\* otrl_auth_handle_commit is not for a master context), drops the D-H Key
\* that answers its own, and both wait for a Reveal Signature until somebody
\* asks again.
ExchangeConcludes ==
    (undisturbed /\ Quiet)
        => Settled /\ \A p \in Parties : session[p] # NoKeys
=============================================================================
