------------------------------ MODULE OtrKeys -------------------------------
(***************************************************************************)
(* The keys of a private conversation of libotr: otrl_proto_create_data and*)
(* otrl_proto_accept_data with the rotation of both parties' DH keys       *)
(* (proto.c), the table of session keys, their counters and the MAC keys   *)
(* that are published once used (dh.c), and go_encrypted, which installs   *)
(* the keys of a new exchange (message.c).                                 *)
(*                                                                         *)
(* A DH key is <<conversation, keyid>>: key ids start again at 1 with each *)
(* exchange, the keys differ.  The session keys of two DH keys are named   *)
(* by the pair.  The exchange itself is module OtrAke; here its last       *)
(* message travels between the data messages, in their order.              *)
(***************************************************************************)
EXTENDS Integers, Sequences

CONSTANTS
    Ends,               \* the two parties
    MaxConversations,   \* bound on the exchanges
    MaxData,            \* bound on the data messages each party seals
    MaxWire             \* bound on the messages in flight to one party

ASSUME EndsAssumption == \E p, q \in Ends : p # q /\ Ends = {p, q}
ASSUME KeysBoundsAssumption ==
    MaxConversations \in Nat /\ MaxData \in Nat /\ MaxWire \in Nat

VARIABLES
    conv,       \* the conversation each party is in (0: none)
    ourKeyid,   \* our_keyid: the id of our_dh_key; our_old_dh_key is one less
    theirKeyid, \* their_keyid: the id of their_y
    hasOldY,    \* their_old_y is known
    sesskeys,   \* the table [our key: 0 new, 1 old][their key: 0 new, 1 old]
    saved,      \* saved_mac_keys, to be published
    inTransit,       \* messages on their way to each party
    sealed,     \* history: the number of messages each party sealed
    used,       \* history: <<party, keys, counter>> of every sealed message
    reused,     \* history: two messages were sealed alike
    accepted,   \* history: the numbers of the messages each party accepted
    twice,      \* history: a message was accepted a second time
    published   \* history: the receiving MAC keys each party published

keysVars == <<conv, ourKeyid, theirKeyid, hasOldY, sesskeys, saved, inTransit,
              sealed, used, reused, accepted, twice, published>>

Correspondent(p) == CHOOSE q \in Ends : q # p

Conversation == 0..MaxConversations
KeyId == Nat
DHKey == Conversation \X KeyId
SessKeys == [ours : DHKey, theirs : DHKey, sendctr : Nat, rcvctr : Nat,
             rcvmacused : BOOLEAN]
NoDHKey == <<0, 0>>

\* otrl_dh_session, and otrl_dh_session_blank
Session(ours, theirs) ==
    [ours |-> ours, theirs |-> theirs, sendctr |-> 0, rcvctr |-> 0,
     rcvmacused |-> FALSE]
BlankKeys == Session(NoDHKey, NoDHKey)

DataMessage ==
    [type : {"data"}, n : 1..MaxData,      \* history: its number
     by : DHKey, for : DHKey, next : DHKey, ctr : Nat]
LastOfExchange == [type : {"signature"}, conv : Conversation]

Slot == {0, 1}
Table == [Slot -> [Slot -> SessKeys]]
Row(new, old) == [j \in Slot |-> IF j = 0 THEN new ELSE old]
Cells(t) == {t[i][j] : i, j \in Slot}

OurKey(p, i) == <<conv[p], ourKeyid[p] - i>>
TheirKey(p, j) == <<conv[p], theirKeyid[p] - j>>

\* Types; and the table is in step with the keys: what a message may name by
\* its key ids is found where accept_data looks for it.
KeysTypeOK ==
    /\ conv \in [Ends -> Conversation]
    /\ ourKeyid \in [Ends -> KeyId] /\ theirKeyid \in [Ends -> KeyId]
    /\ hasOldY \in [Ends -> BOOLEAN]
    /\ sesskeys \in [Ends -> Table]
    /\ saved \in [Ends -> SUBSET (DHKey \X DHKey)]
    /\ inTransit \in [Ends -> Seq(DataMessage \cup LastOfExchange)]
    /\ sealed \in [Ends -> 0..MaxData]
    /\ used \subseteq Ends \X DHKey \X DHKey \X Nat
    /\ accepted \in [Ends -> SUBSET (1..MaxData)]
    /\ reused \in BOOLEAN /\ twice \in BOOLEAN
    /\ published \in [Ends -> SUBSET (DHKey \X DHKey)]
    /\ \A p \in Ends : conv[p] > 0 =>
          \A i, j \in Slot : (j = 0 \/ hasOldY[p]) =>
             /\ sesskeys[p][i][j].ours = OurKey(p, i)
             /\ sesskeys[p][i][j].theirs = TheirKey(p, j)

KeysInit ==
    /\ conv = [p \in Ends |-> 0]
    /\ ourKeyid = [p \in Ends |-> 0] /\ theirKeyid = [p \in Ends |-> 0]
    /\ hasOldY = [p \in Ends |-> FALSE]
    /\ sesskeys = [p \in Ends |-> [i \in Slot |-> [j \in Slot |-> BlankKeys]]]
    /\ saved = [p \in Ends |-> {}]
    /\ inTransit = [p \in Ends |-> <<>>]
    /\ sealed = [p \in Ends |-> 0]
    /\ used = {} /\ reused = FALSE /\ twice = FALSE
    /\ accepted = [p \in Ends |-> {}]
    /\ published = [p \in Ends |-> {}]

-----------------------------------------------------------------------------
(* A new exchange.                                                         *)

\* go_encrypted, for keys the party did not have before: our_old_dh_key is
\* the key of the exchange, our_dh_key a fresh one.  The column of
\* their_old_y keeps what it held.
Install(p, c) ==
    /\ conv' = [conv EXCEPT ![p] = c]
    /\ ourKeyid' = [ourKeyid EXCEPT ![p] = 2]
    /\ theirKeyid' = [theirKeyid EXCEPT ![p] = 1]
    /\ hasOldY' = [hasOldY EXCEPT ![p] = FALSE]
    /\ sesskeys' = [sesskeys EXCEPT ![p] =
          [i \in Slot |-> Row(Session(<<c, 2 - i>>, <<c, 1>>), @[i][1])]]

NoExchangeUnderWay ==
    \A q \in Ends : \A i \in DOMAIN inTransit[q] : inTransit[q][i].type # "signature"

\* Who answers a Reveal Signature is encrypted first ...
ExchangeSecond(p) ==
    LET c == conv[p] + 1
    IN  /\ conv[p] = conv[Correspondent(p)] /\ c <= MaxConversations
        /\ NoExchangeUnderWay
        /\ Len(inTransit[Correspondent(p)]) < MaxWire
        /\ Install(p, c)
        /\ inTransit' = [inTransit EXCEPT ![Correspondent(p)] =
                       Append(@, [type |-> "signature", conv |-> c])]
        /\ UNCHANGED <<saved, sealed, used, reused, accepted, twice, published>>

\* ... and the other one when the Signature arrives.
ExchangeFirst(p) ==
    /\ inTransit[p] # <<>> /\ Head(inTransit[p]).type = "signature"
    /\ Install(p, Head(inTransit[p]).conv)
    /\ inTransit' = [inTransit EXCEPT ![p] = Tail(@)]
    /\ UNCHANGED <<saved, sealed, used, reused, accepted, twice, published>>

-----------------------------------------------------------------------------
(* otrl_proto_create_data: our old key, their new one, the next counter;   *)
(* the saved MAC keys go out with the message.                             *)

\* Mutant: the counter of the session keys is not advanced.
SealUncounted(p) ==
    LET s == sesskeys[p][1][0]
        mark == <<p, s.ours, s.theirs, s.sendctr + 1>>
    IN  /\ conv[p] > 0
        /\ sealed[p] < MaxData /\ Len(inTransit[Correspondent(p)]) < MaxWire
        /\ sealed' = [sealed EXCEPT ![p] = @ + 1]
        /\ inTransit' = [inTransit EXCEPT ![Correspondent(p)] = Append(@,
              [type |-> "data", n |-> sealed[p] + 1, by |-> s.ours,
               for |-> s.theirs, next |-> OurKey(p, 0), ctr |-> s.sendctr + 1])]
        /\ reused' = (reused \/ mark \in used)
        /\ used' = used \cup {mark}
        /\ published' = [published EXCEPT ![p] = @ \cup saved[p]]
        /\ saved' = [saved EXCEPT ![p] = {}]
        /\ UNCHANGED <<sesskeys, conv, ourKeyid, theirKeyid, hasOldY,
                       accepted, twice>>

Seal(p) ==
    LET s == sesskeys[p][1][0]
        mark == <<p, s.ours, s.theirs, s.sendctr + 1>>
    IN  /\ conv[p] > 0
        /\ sealed[p] < MaxData /\ Len(inTransit[Correspondent(p)]) < MaxWire
        /\ sealed' = [sealed EXCEPT ![p] = @ + 1]
        /\ sesskeys' = [sesskeys EXCEPT ![p][1][0].sendctr = @ + 1]
        /\ inTransit' = [inTransit EXCEPT ![Correspondent(p)] = Append(@,
              [type |-> "data", n |-> sealed[p] + 1, by |-> s.ours,
               for |-> s.theirs, next |-> OurKey(p, 0), ctr |-> s.sendctr + 1])]
        /\ reused' = (reused \/ mark \in used)
        /\ used' = used \cup {mark}
        /\ published' = [published EXCEPT ![p] = @ \cup saved[p]]
        /\ saved' = [saved EXCEPT ![p] = {}]
        /\ UNCHANGED <<conv, ourKeyid, theirKeyid, hasOldY, accepted, twice>>

-----------------------------------------------------------------------------
(* otrl_proto_accept_data.                                                 *)

\* The keys the message names by its key ids; they must be known.
Mine(p, m) == ourKeyid[p] - m.for[2]
Yours(p, m) == theirKeyid[p] - m.by[2]
Known(p, m) ==
    /\ theirKeyid[p] > 0 /\ m.by[2] > 0 /\ m.for[2] > 0
    /\ Mine(p, m) \in Slot /\ Yours(p, m) \in Slot
    /\ Yours(p, m) = 1 => hasOldY[p]

\* The MAC is that of those very keys; only then is the counter looked at.
Genuine(p, m) ==
    LET s == sesskeys[p][Mine(p, m)][Yours(p, m)]
    IN  Known(p, m) /\ s.ours = m.for /\ s.theirs = m.by
Increasing(p, m) == m.ctr > sesskeys[p][Mine(p, m)][Yours(p, m)].rcvctr
Acceptable(p, m) == Genuine(p, m) /\ Increasing(p, m)

\* reveal_macs: the used receiving keys of two entries of the table.  (The
\* code never marks a sending key as used.)
Revealed(s1, s2) == {<<s.ours, s.theirs>> : s \in {x \in {s1, s2} : x.rcvmacused}}

\* Mutant: the MAC keys of the wrong row are revealed.
RotateDHKeysEarly(t, newest, y, oldy) ==
    [table |-> [i \in Slot |->
        IF i = 0 THEN Row(Session(newest, y),
                          IF oldy = NoDHKey THEN BlankKeys
                                            ELSE Session(newest, oldy))
                 ELSE t[0]],
     macs |-> Revealed(t[0][0], t[0][1])]

\* Mutant: the old row keeps the older entries.
RotateDHKeysInPlace(t, newest, y, oldy) ==
    [table |-> [i \in Slot |->
        IF i = 0 THEN Row(Session(newest, y),
                          IF oldy = NoDHKey THEN BlankKeys
                                            ELSE Session(newest, oldy))
                 ELSE t[1]],
     macs |-> Revealed(t[1][0], t[1][1])]

\* rotate_dh_keys: the old row goes, the new one takes its place.
RotateDHKeys(t, newest, y, oldy) ==
    [table |-> [i \in Slot |->
        IF i = 0 THEN Row(Session(newest, y),
                          IF oldy = NoDHKey THEN BlankKeys
                                            ELSE Session(newest, oldy))
                 ELSE t[0]],
     macs |-> Revealed(t[1][0], t[1][1])]

\* Mutant: the entries of the key that has become the old one are made anew.
RotateYKeysAnew(t, newest, oldest, y) ==
    [table |-> [i \in Slot |->
        Row(Session(IF i = 0 THEN newest ELSE oldest, y),
            Session(t[i][0].ours, t[i][0].theirs))],
     macs |-> Revealed(t[0][1], t[1][1])]

\* rotate_y_keys: the old column goes, the new one takes its place.
RotateYKeys(t, newest, oldest, y) ==
    [table |-> [i \in Slot |->
        Row(Session(IF i = 0 THEN newest ELSE oldest, y), t[i][0])],
     macs |-> Revealed(t[0][1], t[1][1])]

\* The receiving MAC key is used, for a message with this counter.
Marked(s, ctr) ==
    [ours |-> s.ours, theirs |-> s.theirs, sendctr |-> s.sendctr, rcvctr |-> ctr,
     rcvmacused |-> TRUE]

Arrived(p) == inTransit[p] # <<>> /\ Head(inTransit[p]).type = "data"

AcceptData(p) ==
    LET m == Head(inTransit[p])
        i == Mine(p, m)
        j == Yours(p, m)
        c == conv[p]
        t0 == [sesskeys[p] EXCEPT ![i][j] = Marked(@, m.ctr)]
        \* They use our newest key: make one.
        dh == IF i = 0
              THEN RotateDHKeys(t0, <<c, ourKeyid[p] + 1>>, TheirKey(p, 0),
                                IF hasOldY[p] THEN TheirKey(p, 1) ELSE NoDHKey)
              ELSE [table |-> t0, macs |-> {}]
        our == IF i = 0 THEN ourKeyid[p] + 1 ELSE ourKeyid[p]
        \* They send from their newest key: their next one is due.
        y == IF j = 0
             THEN RotateYKeys(dh.table, <<c, our>>, <<c, our - 1>>, m.next)
             ELSE [table |-> dh.table, macs |-> {}]
    IN  /\ Arrived(p) /\ Acceptable(p, m)
        /\ sesskeys' = [sesskeys EXCEPT ![p] = y.table]
        /\ ourKeyid' = [ourKeyid EXCEPT ![p] = our]
        /\ theirKeyid' = [theirKeyid EXCEPT ![p] = IF j = 0 THEN @ + 1 ELSE @]
        /\ hasOldY' = [hasOldY EXCEPT ![p] = @ \/ j = 0]
        /\ saved' = [saved EXCEPT ![p] = @ \cup dh.macs \cup y.macs]
        /\ twice' = (twice \/ m.n \in accepted[p])
        /\ accepted' = [accepted EXCEPT ![p] = @ \cup {m.n}]
        /\ inTransit' = [inTransit EXCEPT ![p] = Tail(@)]
        /\ UNCHANGED <<conv, sealed, used, reused, published>>

\* A message that cannot be read is dropped.  (The glue has no
\* otr_error_message, so that the sender is not told.)  A message with the
\* right MAC and an old counter marks the MAC key as used all the same.
RejectReplay(p) ==
    LET m == Head(inTransit[p])
    IN  /\ Arrived(p) /\ Genuine(p, m) /\ ~Increasing(p, m)
        /\ sesskeys' = [sesskeys EXCEPT ![p][Mine(p, m)][Yours(p, m)] =
                           Marked(@, @.rcvctr)]
        /\ inTransit' = [inTransit EXCEPT ![p] = Tail(@)]
        /\ UNCHANGED <<conv, ourKeyid, theirKeyid, hasOldY, saved, sealed, used,
                       reused, accepted, twice, published>>

RejectUnknown(p) ==
    /\ Arrived(p) /\ ~Genuine(p, Head(inTransit[p]))
    /\ inTransit' = [inTransit EXCEPT ![p] = Tail(@)]
    /\ UNCHANGED <<conv, ourKeyid, theirKeyid, hasOldY, sesskeys, saved, sealed,
                   used, reused, accepted, twice, published>>

-----------------------------------------------------------------------------
(* What the way to the contact can do: lose a message with the stream, or  *)
(* deliver one again (kept by the server for an offline contact, and sent).*)

LoseData(p) ==
    /\ Arrived(p)
    /\ inTransit' = [inTransit EXCEPT ![p] = Tail(@)]
    /\ UNCHANGED <<conv, ourKeyid, theirKeyid, hasOldY, sesskeys, saved, sealed,
                   used, reused, accepted, twice, published>>

RepeatData(p) ==
    /\ Arrived(p) /\ Len(inTransit[p]) < MaxWire
    /\ inTransit' = [inTransit EXCEPT ![p] = Append(@, Head(inTransit[p]))]
    /\ UNCHANGED <<conv, ourKeyid, theirKeyid, hasOldY, sesskeys, saved, sealed,
                   used, reused, accepted, twice, published>>

KeysNext ==
    \E p \in Ends :
        \/ ExchangeSecond(p) \/ ExchangeFirst(p)
        \/ Seal(p) \/ AcceptData(p) \/ RejectReplay(p) \/ RejectUnknown(p)
        \/ LoseData(p) \/ RepeatData(p)

KeysSpec == KeysInit /\ [][KeysNext]_keysVars

-----------------------------------------------------------------------------
(* Properties.                                                             *)

\* However the two sides' rotations interleave, and whatever is lost, a
\* message of the conversation its receiver is in is readable when it
\* arrives for the first time and in its order: the receiver still has both
\* keys it was sealed with.
StaysReadable ==
    \A p \in Ends : Arrived(p) =>
        LET m == Head(inTransit[p])
        IN  (m.by[1] = conv[p] /\ accepted[p] \cap (m.n)..MaxData = {})
                => Genuine(p, m)

\* No two messages are sealed with the same key and counter (the counter
\* block of AES-CTR), across rotations and exchanges.
NoCounterReuse == ~reused

\* A message delivered again is never accepted again, even after the table
\* entry that remembers its counter has moved.
AcceptedOnce == ~twice

\* A MAC key is published only when its owner no longer accepts messages
\* under it: else anybody could make such a message.
PublishedIsDead ==
    \A p \in Ends : \A s \in Cells(sesskeys[p]) :
        <<s.ours, s.theirs>> \notin published[p] \cup saved[p]
=============================================================================
