----------------------------- MODULE Otr_proofs -----------------------------
(***************************************************************************)
(* Proofs about what two parties say to each other in the off-the-record   *)
(* protocol: the key exchange, for every number of key pairs and of        *)
(* messages in flight, whatever is lost, asked for again, ended or         *)
(* restarted; and the comparison of secrets, for every set of secrets and  *)
(* number of comparisons, whatever is asked, stopped, lost or restarted;   *)
(* and about what leaves (Outbox): types, what secures a text, and its way *)
(* through the cache, for every set of contacts and of texts.              *)
(***************************************************************************)
EXTENDS Outbox, OtrAke, OtrSmp, TLAPS

-----------------------------------------------------------------------------
(* The key exchange.                                                       *)


Members(s) == {s[i] : i \in DOMAIN s}

\* A key a message brings is one somebody generated, and a Signature Message
\* was made when its sender completed, as his `past` tells.
Fits(m, past) ==
    /\ m.type \in {"commit", "key"} => m.key \in Key
    /\ m.type = "signature" =>
          <<m.mac[1], m.mac[2], "second">> \in past

Posted ==
    \A q \in Parties : \A m \in Members(flight[q]) : Fits(m, Completed(Other(q)))

\* The keys an exchange under way holds.
Holding(a, top) ==
    /\ a.authstate # "none" => a.our_dh \in 1..top
    /\ a.authstate = "revealsig" => a.encgx \in Key
    /\ a.authstate = "sig" => a.their_pub \in Key

\* The key pair of an exchange under way has not been used before.
Unspent(a, past) ==
    a.authstate # "none" => \A s \in past : s[1] # a.our_dh

PastKeys == \A p \in Parties : \A s \in Completed(p) : s[1] \in 1..keys

\* The state of both parties ...
Engaged ==
    /\ auth \in [Parties -> AuthInfo]
    /\ \A p \in Parties :
          Resendable(auth[p]) /\ Holding(auth[p], keys)
          /\ Unspent(auth[p], Completed(p))

\* ... and their past.
Past ==
    /\ completed \in [Parties -> Seq(Key \X Key \X Half)]
    /\ PastKeys /\ AkeAgreement /\ OneSessionPerKey

Mail == flight \in [Parties -> Seq(AkeMsg)] /\ Posted

Rest ==
    /\ session \in [Parties -> Pair]
    /\ keys \in 0..MaxKeys
    /\ undisturbed \in BOOLEAN

AkeInv == Engaged /\ Past /\ Mail /\ Rest

-----------------------------------------------------------------------------
(* The two parties, sequences and messages.                                *)

LEMMA OtherParty ==
  ASSUME NEW p \in Parties
  PROVE  /\ Other(p) \in Parties /\ Other(p) # p
         /\ Other(Other(p)) = p
         /\ \A q \in Parties : q = p \/ q = Other(p)
<1>1. PICK a \in Parties, b \in Parties : a # b /\ Parties = {a, b}
  BY AkeTwoParties
<1>2. \A q \in Parties : Other(q) \in Parties /\ Other(q) # q
  <2>1. SUFFICES ASSUME NEW q \in Parties
                 PROVE  \E x : x \in Parties /\ x # q
    BY <2>1 DEF Other
  <2>2. QED
    BY <1>1
<1>3. QED
  BY <1>1, <1>2

LEMMA TailMembers ==
  ASSUME NEW S, NEW s \in Seq(S), s # <<>>
  PROVE  /\ Tail(s) \in Seq(S) /\ Head(s) \in S /\ Head(s) \in Members(s)
         /\ Members(Tail(s)) \subseteq Members(s)
  BY DEF Members

LEMMA AppendMembers ==
  ASSUME NEW S, NEW s \in Seq(S), NEW m \in S
  PROVE  /\ Append(s, m) \in Seq(S)
         /\ Members(Append(s, m)) = Members(s) \cup {m}
<1>1. Append(s, m) \in Seq(S) /\ DOMAIN Append(s, m) = 1..(Len(s) + 1)
  OBVIOUS
<1>2. DOMAIN s = 1..Len(s) /\ Len(s) \in Nat
  OBVIOUS
<1>3. \A i \in 1..Len(s) : Append(s, m)[i] = s[i]
  OBVIOUS
<1>4. Append(s, m)[Len(s) + 1] = m
  OBVIOUS
<1>5. QED
  BY <1>1, <1>2, <1>3, <1>4 DEF Members

LEMMA MessageType ==
  ASSUME NEW t \in {"query", "commit", "key", "revealsig", "signature"},
         NEW k \in Key \cup {NoKey}, NEW mac \in Pair
  PROVE  /\ AkeMessage(t, k, mac) \in AkeMsg
         /\ AkeMessage(t, k, mac).type = t
         /\ AkeMessage(t, k, mac).key = k
         /\ AkeMessage(t, k, mac).mac = mac
  BY DEF AkeMessage, AkeMsg

LEMMA NoKeysType == NoKeys \in Pair /\ NoMessage \in AkeMsg
  BY DEF NoKeys, Pair, NoMessage, AkeMessage, AkeMsg

\* The message that is handled.
LEMMA HeadFits ==
  ASSUME Mail, NEW p \in Parties, flight[p] # <<>>
  PROVE  /\ Head(flight[p]) \in AkeMsg /\ Fits(Head(flight[p]), Completed(Other(p)))
         /\ Tail(flight[p]) \in Seq(AkeMsg)
         /\ Members(Tail(flight[p])) \subseteq Members(flight[p])
  BY TailMembers DEF Mail, Posted

\* What was posted stays backed: nobody's past is ever forgotten.
LEMMA ConsumeKept ==
  ASSUME Mail, NEW p \in Parties, flight[p] # <<>>, Consume(p),
         \A q \in Parties : Completed(q) \subseteq Completed(q)'
  PROVE  Mail'
<1>1. flight' \in [Parties -> Seq(AkeMsg)]
  BY HeadFits DEF Mail, Consume
<1>2. \A q \in Parties : Members(flight'[q]) \subseteq Members(flight[q])
  BY HeadFits DEF Mail, Consume
<1>3. ASSUME NEW q \in Parties, NEW m \in Members(flight'[q])
      PROVE  Fits(m, Completed(Other(q))')
  <2>1. Fits(m, Completed(Other(q)))
    BY <1>2, <1>3 DEF Mail, Posted
  <2>2. QED
    BY <2>1, OtherParty DEF Fits
<1>4. Posted'
  BY <1>3 DEF Posted, Members
<1>5. QED
  BY <1>1, <1>4 DEF Mail

LEMMA ReplyKept ==
  ASSUME Mail, NEW p \in Parties, flight[p] # <<>>, NEW m \in AkeMsg,
         ConsumeAndSend(p, m), Fits(m, Completed(p)'),
         \A q \in Parties : Completed(q) \subseteq Completed(q)'
  PROVE  Mail'
<1>1. \A q \in Parties : /\ flight'[q] \in Seq(AkeMsg)
                         /\ Members(flight'[q]) \subseteq
                               Members(flight[q]) \cup (IF q = p THEN {} ELSE {m})
  <2>1. flight'[p] = Tail(flight[p])
        /\ \A q \in Parties : q # p => flight'[q] = Append(flight[q], m)
    BY DEF ConsumeAndSend
  <2>2. \A q \in Parties : flight[q] \in Seq(AkeMsg)
    BY DEF Mail
  <2>3. ASSUME NEW q \in Parties, q # p
        PROVE  /\ flight'[q] \in Seq(AkeMsg)
               /\ Members(flight'[q]) = Members(flight[q]) \cup {m}
    <3>1. flight[q] \in Seq(AkeMsg) /\ flight'[q] = Append(flight[q], m)
      BY <2>1, <2>2, <2>3
    <3>2. QED
      BY <3>1, AppendMembers
  <2>4. /\ flight'[p] \in Seq(AkeMsg)
        /\ Members(flight'[p]) \subseteq Members(flight[p])
    BY <2>1, HeadFits
  <2>5. QED
    BY <2>3, <2>4
<1>2. flight' \in [Parties -> Seq(AkeMsg)]
  BY <1>1 DEF ConsumeAndSend
<1>3. ASSUME NEW q \in Parties, NEW n \in Members(flight'[q])
      PROVE  Fits(n, Completed(Other(q))')
  <2>1. CASE n \in Members(flight[q])
    <3>1. Fits(n, Completed(Other(q)))
      BY <2>1 DEF Mail, Posted
    <3>2. QED
      BY <3>1, OtherParty DEF Fits
  <2>2. CASE q # p /\ n = m
    BY <2>2, OtherParty
  <2>3. QED
    BY <1>1, <1>3, <2>1, <2>2
<1>4. Posted'
  BY <1>3 DEF Posted, Members
<1>5. QED
  BY <1>2, <1>4 DEF Mail

-----------------------------------------------------------------------------
(* What the steps do to the exchanges.                                     *)

\* An exchange goes on, is answered again or is dropped: keys are only added.
LEMMA EngagedKept ==
  ASSUME AkeInv, NEW p \in Parties, NEW a \in AuthInfo,
         auth' = [auth EXCEPT ![p] = a],
         keys' \in 0..MaxKeys, keys <= keys', UNCHANGED completed,
         Resendable(a), Holding(a, keys'), Unspent(a, Completed(p))
  PROVE  Engaged' /\ Past'
<1>1. keys \in Nat /\ keys' \in Nat /\ MaxKeys \in Nat
  BY AkeBoundsAssumption DEF AkeInv, Rest
<1>2. 1..keys \subseteq 1..keys'
  BY <1>1
<1>3. \A q \in Parties : Completed(q)' = Completed(q)
  BY DEF Completed
<1>4. Past'
  <2>1. PastKeys'
    BY <1>2, <1>3 DEF AkeInv, Past, PastKeys
  <2>2. AkeAgreement'
    BY <1>3, OtherParty DEF AkeInv, Past, AkeAgreement
  <2>3. OneSessionPerKey'
    BY DEF AkeInv, Past, OneSessionPerKey
  <2>4. QED
    BY <2>1, <2>2, <2>3 DEF AkeInv, Past
<1>5. ASSUME NEW q \in Parties
      PROVE  Resendable(auth'[q]) /\ Holding(auth'[q], keys')
             /\ Unspent(auth'[q], Completed(q)')
  <2>1. CASE q = p
    <3>1. auth'[q] = a
      BY <2>1 DEF AkeInv, Engaged
    <3>2. QED
      BY <2>1, <3>1, <1>3 DEF Unspent
  <2>2. CASE q # p
    <3>1. auth'[q] = auth[q] /\ Resendable(auth[q]) /\ Holding(auth[q], keys)
          /\ Unspent(auth[q], Completed(q))
      BY <2>2 DEF AkeInv, Engaged
    <3>2. QED
      BY <3>1, <1>2, <1>3 DEF Unspent, Holding
  <2>3. QED
    BY <2>1, <2>2
<1>6. auth' \in [Parties -> AuthInfo]
  BY DEF AkeInv, Engaged
<1>7. Engaged'
  BY <1>5, <1>6 DEF Engaged, Resendable
<1>8. QED
  BY <1>4, <1>7

\* An exchange is completed with keys it held, as the first by agreement.
LEMMA CompletedKept ==
  ASSUME AkeInv, NEW p \in Parties, NEW a \in AuthInfo, NEW theirs \in Key,
         NEW half \in Half, auth[p].authstate # "none",
         auth' = [auth EXCEPT ![p] = a], a.authstate = "none", UNCHANGED keys,
         GoEncrypted(p, auth[p].our_dh, theirs, half),
         half = "first" =>
             <<theirs, auth[p].our_dh, "second">> \in Completed(Other(p))
  PROVE  /\ Engaged' /\ Past' /\ session' \in [Parties -> Pair]
         /\ \A q \in Parties : Completed(q) \subseteq Completed(q)'
         /\ <<auth[p].our_dh, theirs, half>> \in Completed(p)'
<1> DEFINE ours == auth[p].our_dh
           new == <<ours, theirs, half>>
<1>1. /\ ours \in 1..keys /\ ours \in Key
      /\ \A s \in Completed(p) : s[1] # ours
  <2>1. Holding(auth[p], keys) /\ Unspent(auth[p], Completed(p)) /\ keys \in 0..MaxKeys
    BY DEF AkeInv, Engaged, Rest
  <2>2. ours \in 1..keys /\ \A s \in Completed(p) : s[1] # ours
    BY <2>1 DEF Holding, Unspent
  <2>3. QED
    BY <2>1, <2>2, AkeBoundsAssumption DEF Key
<1>2. new \in Key \X Key \X Half
  BY <1>1
<1>3. /\ completed[p] \in Seq(Key \X Key \X Half)
      /\ completed' = [completed EXCEPT ![p] = Append(completed[p], new)]
  BY DEF AkeInv, Past, GoEncrypted
<1>4. /\ completed' \in [Parties -> Seq(Key \X Key \X Half)]
      /\ completed'[p] = Append(completed[p], new)
      /\ \A q \in Parties : q # p => completed'[q] = completed[q]
  BY <1>2, <1>3, AppendMembers DEF AkeInv, Past
<1>5. /\ Completed(p)' = Completed(p) \cup {new}
      /\ \A q \in Parties : q # p => Completed(q)' = Completed(q)
  <2>1. Members(Append(completed[p], new)) = Members(completed[p]) \cup {new}
    BY <1>2, <1>3, AppendMembers
  <2>2. \A q \in Parties : Completed(q) = Members(completed[q])
                            /\ Completed(q)' = Members(completed'[q])
    BY DEF Completed, Members
  <2>3. QED
    BY <1>4, <2>1, <2>2
<1> HIDE DEF new, ours
<1>6. PastKeys'
  BY <1>1, <1>5 DEF AkeInv, Past, PastKeys, new
<1>7. AkeAgreement'
  <2>1. ASSUME NEW q \in Parties, NEW s \in Completed(q)', s[3] = "first"
        PROVE  <<s[2], s[1], "second">> \in Completed(Other(q))'
    <3>1. CASE s \in Completed(q)
      BY <2>1, <3>1, <1>5, OtherParty DEF AkeInv, Past, AkeAgreement
    <3>2. CASE q = p /\ s = new
      BY <2>1, <3>2, <1>5, OtherParty DEF new, ours
    <3>3. QED
      BY <2>1, <1>5, <3>1, <3>2
  <2>2. QED
    BY <2>1 DEF AkeAgreement
<1>8. OneSessionPerKey'
  <2>1. ASSUME NEW q \in Parties, NEW i \in DOMAIN completed'[q],
               NEW j \in DOMAIN completed'[q], i # j
        PROVE  completed'[q][i][1] # completed'[q][j][1]
    <3>1. CASE q # p
      BY <2>1, <3>1, <1>4 DEF AkeInv, Past, OneSessionPerKey
    <3>2. CASE q = p
      <4> DEFINE n == Len(completed[p])
      <4>1. /\ n \in Nat /\ DOMAIN completed[p] = 1..n
            /\ DOMAIN completed'[p] = 1..(n + 1)
            /\ completed'[p][n + 1] = new
            /\ \A k \in 1..n : completed'[p][k] = completed[p][k]
        BY <1>2, <1>3, <1>4
      <4>2. new[1] = ours /\ \A k \in 1..n : completed[p][k][1] # ours
        BY <1>1, <4>1 DEF Completed, new
      <4>3. \A k, l \in 1..n : k # l => completed[p][k][1] # completed[p][l][1]
        <5>1. \A k, l \in DOMAIN completed[p] :
                  k # l => completed[p][k][1] # completed[p][l][1]
          BY DEF AkeInv, Past, OneSessionPerKey
        <5>2. QED
          BY <4>1, <5>1
      <4> HIDE DEF n
      <4>4. i \in 1..n \/ i = n + 1
        BY <2>1, <3>2, <4>1
      <4>5. j \in 1..n \/ j = n + 1
        BY <2>1, <3>2, <4>1
      <4>6. QED
        BY <2>1, <3>2, <4>1, <4>2, <4>3, <4>4, <4>5
    <3>3. QED
      BY <3>1, <3>2
  <2>2. QED
    BY <2>1 DEF OneSessionPerKey
<1>9. Engaged'
  <2>1. auth' \in [Parties -> AuthInfo]
    BY DEF AkeInv, Engaged
  <2>2. ASSUME NEW q \in Parties
        PROVE  Resendable(auth'[q]) /\ Holding(auth'[q], keys')
             /\ Unspent(auth'[q], Completed(q)')
    <3>1. CASE q = p
      <4>1. auth'[q] = a
        BY <3>1 DEF AkeInv, Engaged
      <4>2. QED
        BY <4>1 DEF Resendable, Holding, Unspent
    <3>2. CASE q # p
      <4>1. auth'[q] = auth[q] /\ Resendable(auth[q]) /\ Holding(auth[q], keys)
          /\ Unspent(auth[q], Completed(q))
        BY <3>2 DEF AkeInv, Engaged
      <4>2. QED
        BY <3>2, <4>1, <1>5 DEF Unspent, Holding
    <3>3. QED
      BY <3>1, <3>2
  <2>3. QED
    BY <2>1, <2>2 DEF Engaged, Resendable
<1>10. session' \in [Parties -> Pair]
  BY <1>1 DEF AkeInv, Rest, GoEncrypted, Pair, ours
<1>11. QED
  BY <1>4, <1>5, <1>6, <1>7, <1>8, <1>9, <1>10 DEF Past, new, ours

LEMMA UntouchedKept ==
  ASSUME AkeInv, UNCHANGED <<auth, keys, completed>>
  PROVE  Engaged' /\ Past'
<1>1. \A q \in Parties : Completed(q)' = Completed(q)
  BY DEF Completed
<1>2. PastKeys' /\ AkeAgreement'
  BY <1>1, OtherParty DEF AkeInv, Past, PastKeys, AkeAgreement
<1>3. OneSessionPerKey' /\ completed' \in [Parties -> Seq(Key \X Key \X Half)]
  BY DEF AkeInv, Past, OneSessionPerKey
<1>4. Engaged'
  BY <1>1 DEF AkeInv, Engaged
<1>5. QED
  BY <1>2, <1>3, <1>4 DEF Past

-----------------------------------------------------------------------------
(* The handlers.                                                           *)

\* A new key pair is one nobody has completed an exchange with.
LEMMA FreshKey ==
  ASSUME AkeInv, Generates
  PROVE  /\ keys + 1 \in Key /\ keys + 1 \in 1..keys'
         /\ keys' \in 0..MaxKeys /\ keys <= keys'
         /\ \A p \in Parties : \A s \in Completed(p) : s[1] # keys + 1
<1>1. keys \in Nat /\ keys < MaxKeys /\ keys' = keys + 1 /\ MaxKeys \in Nat
  BY AkeBoundsAssumption DEF AkeInv, Rest, Generates
<1>2. \A p \in Parties : \A s \in Completed(p) : s[1] \in 1..keys
  BY DEF AkeInv, Past, PastKeys
<1>3. QED
  BY <1>1, <1>2 DEF Key

LEMMA AuthType ==
  ASSUME NEW st \in {"none", "dhkey", "revealsig", "sig"},
         NEW dh \in Key \cup {NoKey}, NEW r \in Key \cup {NoKey},
         NEW gx \in Key \cup {NoKey}, NEW pub \in Key \cup {NoKey},
         NEW last \in AkeMsg
  PROVE  /\ Auth(st, dh, r, gx, pub, last) \in AuthInfo
         /\ Auth(st, dh, r, gx, pub, last).authstate = st
         /\ Auth(st, dh, r, gx, pub, last).our_dh = dh
         /\ Auth(st, dh, r, gx, pub, last).encgx = gx
         /\ Auth(st, dh, r, gx, pub, last).their_pub = pub
         /\ Auth(st, dh, r, gx, pub, last).lastauthmsg = last
  BY DEF Auth, AuthInfo

\* What the invariant says of one party's exchange.
LEMMA Partner ==
  ASSUME AkeInv, NEW p \in Parties
  PROVE  /\ auth[p] \in AuthInfo /\ Resendable(auth[p])
         /\ auth[p].authstate \in {"none", "dhkey", "revealsig", "sig"}
         /\ auth[p].our_dh \in Key \cup {NoKey} /\ auth[p].r \in Key \cup {NoKey}
         /\ auth[p].encgx \in Key \cup {NoKey} /\ auth[p].their_pub \in Key \cup {NoKey}
         /\ auth[p].lastauthmsg \in AkeMsg
         /\ Holding(auth[p], keys) /\ Unspent(auth[p], Completed(p))
         /\ auth[p].authstate # "none" => auth[p].our_dh \in Key
<1>1. /\ auth[p] \in AuthInfo /\ Resendable(auth[p])
      /\ Holding(auth[p], keys) /\ Unspent(auth[p], Completed(p))
  BY DEF AkeInv, Engaged
<1>2. auth[p].authstate # "none" => auth[p].our_dh \in Key
  BY <1>1, AkeBoundsAssumption DEF Holding, Key, AkeInv, Rest
<1>3. QED
  BY <1>1, <1>2 DEF AuthInfo

LEMMA QueryKept ==
  ASSUME AkeInv, NEW p \in Parties, HandleQuery(p)
  PROVE  AkeInv'
<1> DEFINE gx == keys + 1
           commit == AkeMessage("commit", gx, NoKeys)
           a == Auth("dhkey", gx, gx, gx, NoKey, commit)
<1>1. /\ flight[p] # <<>> /\ Generates /\ ConsumeAndSend(p, commit)
      /\ auth' = [auth EXCEPT ![p] = a]
      /\ UNCHANGED <<session, completed, undisturbed>>
  BY DEF HandleQuery, Received
<1>2. gx \in Key /\ commit \in AkeMsg /\ commit.type = "commit" /\ commit.key = gx
  BY <1>1, FreshKey, MessageType, NoKeysType
<1>3. a \in AuthInfo /\ a.authstate = "dhkey" /\ a.our_dh = gx /\ a.lastauthmsg = commit
  BY <1>2, AuthType
<1>4. Resendable(a) /\ Holding(a, keys') /\ Unspent(a, Completed(p))
  BY <1>1, <1>3, FreshKey DEF Resendable, Holding, Unspent
<1>5. \A q \in Parties : Completed(q) = Completed(q)'
  BY <1>1 DEF Completed
<1>6. Fits(commit, Completed(p)')
  BY <1>2 DEF Fits
<1> HIDE DEF a, commit, gx
<1>7. Engaged' /\ Past'
  BY <1>1, <1>3, <1>4, FreshKey, EngagedKept
<1>8. Mail'
  BY <1>1, <1>2, <1>5, <1>6, ReplyKept DEF AkeInv
<1>9. QED
  BY <1>1, <1>7, <1>8, FreshKey DEF AkeInv, Rest

LEMMA CommitKept ==
  ASSUME AkeInv, NEW p \in Parties, HandleCommit(p)
  PROVE  AkeInv'
<1>1. /\ flight[p] # <<>> /\ Head(flight[p]).type = "commit"
      /\ UNCHANGED <<session, completed, undisturbed>>
  BY DEF HandleCommit, Received
<1>2. Head(flight[p]).key \in Key
  BY <1>1, HeadFits DEF AkeInv, Fits
<1>3. \A q \in Parties : Completed(q) = Completed(q)'
  BY <1>1 DEF Completed
<1> DEFINE gx == Head(flight[p]).key
           gy == keys + 1
           dhkey == AkeMessage("key", gy, NoKeys)
           a == Auth("revealsig", gy, NoKey, gx, NoKey, dhkey)
           b == [auth[p] EXCEPT !.encgx = gx]
<1>4. CASE /\ Generates /\ ConsumeAndSend(p, dhkey)
           /\ auth' = [auth EXCEPT ![p] = a]
  <2>1. gy \in Key /\ dhkey \in AkeMsg /\ dhkey.type = "key" /\ dhkey.key = gy
    BY <1>4, FreshKey, MessageType, NoKeysType
  <2>2. /\ a \in AuthInfo /\ a.authstate = "revealsig" /\ a.our_dh = gy
        /\ a.encgx = gx /\ a.lastauthmsg = dhkey
    <3>1. gx \in Key \cup {NoKey} /\ gy \in Key \cup {NoKey}
          /\ NoKey \in Key \cup {NoKey}
      BY <1>2, <2>1
    <3> HIDE DEF dhkey, gx, gy
    <3>2. QED
      BY <2>1, <3>1 DEF Auth, AuthInfo
  <2>3. Resendable(a) /\ Holding(a, keys') /\ Unspent(a, Completed(p))
    BY <1>2, <1>4, <2>2, FreshKey DEF Resendable, Holding, Unspent
  <2>4. Fits(dhkey, Completed(p)')
    BY <2>1 DEF Fits
  <2> HIDE DEF a, b, dhkey, gx, gy
  <2>5. Engaged' /\ Past'
    BY <1>1, <1>4, <2>2, <2>3, FreshKey, EngagedKept
  <2>6. Mail'
    BY <1>1, <1>3, <1>4, <2>1, <2>4, ReplyKept DEF AkeInv
  <2>7. QED
    BY <1>1, <1>4, <2>5, <2>6, FreshKey DEF AkeInv, Rest
<1>5. CASE /\ auth[p].authstate = "revealsig" /\ UNCHANGED keys
           /\ auth' = [auth EXCEPT ![p] = b]
           /\ ConsumeAndSend(p, auth[p].lastauthmsg)
  <2>1. /\ b \in AuthInfo /\ b.authstate = "revealsig" /\ b.our_dh = auth[p].our_dh
        /\ b.encgx = gx /\ b.lastauthmsg = auth[p].lastauthmsg
    BY <1>2, <1>5, Partner DEF AuthInfo
  <2>2. Resendable(b) /\ Holding(b, keys) /\ Unspent(b, Completed(p))
    BY <1>2, <1>5, <2>1, Partner DEF Resendable, Holding, Unspent
  <2>3. keys' \in 0..MaxKeys /\ keys <= keys'
    BY <1>5, AkeBoundsAssumption DEF AkeInv, Rest
  <2>4. auth[p].lastauthmsg = AkeMessage("key", auth[p].our_dh, NoKeys)
        /\ auth[p].our_dh \in Key
    BY <1>5, Partner DEF Resendable
  <2>5. auth[p].lastauthmsg.type = "key" /\ auth[p].lastauthmsg.key \in Key
    BY <2>4, MessageType, NoKeysType
  <2>6. Fits(auth[p].lastauthmsg, Completed(p)')
    BY <2>5 DEF Fits
  <2> HIDE DEF a, b, dhkey, gx, gy
  <2>7. Engaged' /\ Past'
    BY <1>1, <1>5, <2>1, <2>2, <2>3, EngagedKept
  <2>8. Mail'
    BY <1>1, <1>3, <1>5, <2>6, Partner, ReplyKept DEF AkeInv
  <2>9. QED
    BY <1>1, <1>5, <2>7, <2>8 DEF AkeInv, Rest
<1>6. QED
  BY <1>4, <1>5 DEF HandleCommit

LEMMA KeyKept ==
  ASSUME AkeInv, NEW p \in Parties, HandleKey(p)
  PROVE  AkeInv'
<1>1. /\ flight[p] # <<>> /\ Head(flight[p]).type = "key"
      /\ UNCHANGED <<session, keys, completed, undisturbed>>
  BY DEF HandleKey, Received
<1>2. Head(flight[p]).key \in Key
  BY <1>1, HeadFits DEF AkeInv, Fits
<1>3. \A q \in Parties : Completed(q) = Completed(q)'
  BY <1>1 DEF Completed
<1>4. keys' \in 0..MaxKeys /\ keys <= keys'
  BY <1>1, AkeBoundsAssumption DEF AkeInv, Rest
<1> DEFINE gy == Head(flight[p]).key
           reveal == AkeMessage("revealsig", auth[p].r, <<auth[p].our_dh, gy>>)
           a == Auth("sig", auth[p].our_dh, auth[p].r, auth[p].encgx, gy, reveal)
<1>5. CASE /\ auth[p].authstate = "dhkey" /\ auth' = [auth EXCEPT ![p] = a]
           /\ ConsumeAndSend(p, reveal)
  <2>1. <<auth[p].our_dh, gy>> \in Pair
    BY <1>2, Partner DEF Pair
  <2>2. /\ reveal \in AkeMsg /\ reveal.type = "revealsig"
        /\ reveal.mac = <<auth[p].our_dh, gy>>
    BY <2>1, Partner, MessageType
  <2>3. /\ a \in AuthInfo /\ a.authstate = "sig" /\ a.our_dh = auth[p].our_dh
        /\ a.their_pub = gy /\ a.lastauthmsg = reveal
    <3>1. gy \in Key \cup {NoKey}
      BY <1>2
    <3> HIDE DEF gy, reveal
    <3>2. QED
      BY <2>2, <3>1, Partner DEF Auth, AuthInfo
  <2>4. Resendable(a) /\ Holding(a, keys') /\ Unspent(a, Completed(p))
    BY <1>1, <1>2, <1>5, <2>2, <2>3, Partner DEF Resendable, Holding, Unspent
  <2>5. Fits(reveal, Completed(p)')
    BY <2>2 DEF Fits
  <2> HIDE DEF a, reveal, gy
  <2>6. Engaged' /\ Past'
    BY <1>1, <1>4, <1>5, <2>3, <2>4, EngagedKept
  <2>7. Mail'
    BY <1>1, <1>3, <1>5, <2>2, <2>5, ReplyKept DEF AkeInv
  <2>8. QED
    BY <1>1, <2>6, <2>7 DEF AkeInv, Rest
<1>6. CASE /\ auth[p].authstate = "sig" /\ UNCHANGED auth
           /\ ConsumeAndSend(p, auth[p].lastauthmsg)
  <2>1. auth[p].lastauthmsg.type = "revealsig"
    BY <1>6, Partner DEF Resendable
  <2>2. Fits(auth[p].lastauthmsg, Completed(p)')
    BY <2>1 DEF Fits
  <2>3. Mail'
    BY <1>1, <1>3, <1>6, <2>2, Partner, ReplyKept DEF AkeInv
  <2>4. Engaged' /\ Past'
    BY <1>1, <1>6, UntouchedKept
  <2>5. QED
    BY <1>1, <2>3, <2>4 DEF AkeInv, Rest
<1>7. CASE Consume(p) /\ UNCHANGED auth
  <2>1. Mail'
    BY <1>1, <1>3, <1>7, ConsumeKept DEF AkeInv
  <2>2. Engaged' /\ Past'
    BY <1>1, <1>7, UntouchedKept
  <2>3. QED
    BY <1>1, <2>1, <2>2 DEF AkeInv, Rest
<1>8. QED
  BY <1>5, <1>6, <1>7 DEF HandleKey

LEMMA RevealSigKept ==
  ASSUME AkeInv, NEW p \in Parties, HandleRevealSig(p)
  PROVE  AkeInv'
<1> DEFINE m == Head(flight[p])
           a == [auth[p] EXCEPT !.r = m.key]
           signature == AkeMessage("signature", NoKey, <<a.our_dh, a.encgx>>)
           done == Auth("none", a.our_dh, a.r, a.encgx, a.encgx, signature)
           odd == [a EXCEPT !.their_pub = a.encgx]
<1>1. /\ flight[p] # <<>> /\ m \in AkeMsg
      /\ UNCHANGED <<keys, undisturbed>>
  BY HeadFits DEF HandleRevealSig, Received, AkeInv
<1>2. /\ a \in AuthInfo /\ a.authstate = auth[p].authstate
      /\ a.our_dh = auth[p].our_dh /\ a.encgx = auth[p].encgx
      /\ a.their_pub = auth[p].their_pub /\ a.lastauthmsg = auth[p].lastauthmsg
      /\ a.r \in Key \cup {NoKey}
  BY <1>1, Partner DEF AuthInfo, AkeMsg
<1>3. Resendable(a) /\ Holding(a, keys) /\ Unspent(a, Completed(p))
  BY <1>2, Partner DEF Resendable, Holding, Unspent
<1>4. keys' \in 0..MaxKeys /\ keys <= keys' /\ keys' = keys
  BY <1>1, AkeBoundsAssumption DEF AkeInv, Rest
<1>5. CASE /\ a.authstate = "revealsig" /\ auth' = [auth EXCEPT ![p] = done]
           /\ GoEncrypted(p, a.our_dh, a.encgx, "second")
           /\ ConsumeAndSend(p, signature)
  <2>1. a.encgx \in Key /\ a.our_dh \in Key
    BY <1>2, <1>5, Partner DEF Holding
  <2>2. <<a.our_dh, a.encgx>> \in Pair /\ NoKey \in Key \cup {NoKey}
    BY <2>1 DEF Pair
  <2>3. /\ signature \in AkeMsg /\ signature.type = "signature"
        /\ signature.mac = <<a.our_dh, a.encgx>>
    BY <2>2, MessageType
  <2>4. done \in AuthInfo /\ done.authstate = "none"
    <3> HIDE DEF a, signature
    <3>1. QED
      BY <1>2, <2>1, <2>3 DEF Auth, AuthInfo
  <2> HIDE DEF done
  <2>5. auth[p].authstate # "none" /\ "second" \in Half /\ "second" # "first"
        /\ GoEncrypted(p, auth[p].our_dh, a.encgx, "second")
    BY <1>2, <1>5 DEF Half
  <2>6. /\ Engaged' /\ Past' /\ session' \in [Parties -> Pair]
        /\ \A q \in Parties : Completed(q) \subseteq Completed(q)'
        /\ <<auth[p].our_dh, a.encgx, "second">> \in Completed(p)'
    BY <1>4, <1>5, <2>1, <2>4, <2>5, CompletedKept
  <2>7. Fits(signature, Completed(p)')
    BY <1>2, <2>3, <2>6 DEF Fits
  <2> HIDE DEF signature, a, m
  <2>8. Mail'
    BY <1>1, <1>5, <2>3, <2>6, <2>7, ReplyKept DEF AkeInv
  <2>9. QED
    BY <1>1, <1>4, <2>6, <2>8 DEF AkeInv, Rest
<1>6. CASE /\ a.authstate = "revealsig" /\ auth' = [auth EXCEPT ![p] = odd]
           /\ Consume(p) /\ UNCHANGED <<session, completed>>
  <2>1. /\ odd \in AuthInfo /\ odd.authstate = a.authstate /\ odd.our_dh = a.our_dh
        /\ odd.encgx = a.encgx /\ odd.lastauthmsg = a.lastauthmsg
    BY <1>2 DEF AuthInfo
  <2>2. Resendable(odd) /\ Holding(odd, keys') /\ Unspent(odd, Completed(p))
    BY <1>3, <1>4, <1>6, <2>1 DEF Resendable, Holding, Unspent
  <2> HIDE DEF odd
  <2>3. Engaged' /\ Past'
    BY <1>4, <1>6, <2>1, <2>2, EngagedKept
  <2>4. Mail'
    BY <1>1, <1>6, ConsumeKept DEF AkeInv, Completed
  <2>5. QED
    BY <1>1, <1>4, <1>6, <2>3, <2>4 DEF AkeInv, Rest
<1>7. CASE /\ auth' = [auth EXCEPT ![p] = a]
           /\ Consume(p) /\ UNCHANGED <<session, completed>>
  <2>1. Holding(a, keys')
    BY <1>3, <1>4
  <2> HIDE DEF a
  <2>2. Engaged' /\ Past'
    BY <1>2, <1>3, <1>4, <1>7, <2>1, EngagedKept
  <2>3. Mail'
    BY <1>1, <1>7, ConsumeKept DEF AkeInv, Completed
  <2>4. QED
    BY <1>1, <1>4, <1>7, <2>2, <2>3 DEF AkeInv, Rest
<1>8. QED
  BY <1>5, <1>6, <1>7 DEF HandleRevealSig

LEMMA SignatureKept ==
  ASSUME AkeInv, NEW p \in Parties, HandleSignature(p)
  PROVE  AkeInv'
<1> DEFINE ours == auth[p].our_dh
           theirs == auth[p].their_pub
           a == Auth("none", ours, auth[p].r, auth[p].encgx, theirs, NoMessage)
<1>1. /\ flight[p] # <<>> /\ Head(flight[p]).type = "signature" /\ Consume(p)
      /\ UNCHANGED <<keys, undisturbed>>
  BY DEF HandleSignature, Received
<1>2. CASE /\ auth[p].authstate = "sig" /\ Head(flight[p]).mac = <<theirs, ours>>
           /\ auth' = [auth EXCEPT ![p] = a]
           /\ GoEncrypted(p, ours, theirs, "first")
  <2>1. a \in AuthInfo /\ a.authstate = "none"
    BY Partner, NoKeysType DEF Auth, AuthInfo
  <2>2. theirs \in Key /\ "first" \in Half /\ auth[p].authstate # "none"
    BY <1>2, Partner DEF Holding, Half
  <2>3. <<theirs, ours, "second">> \in Completed(Other(p))
    BY <1>1, <1>2, HeadFits DEF Fits, AkeInv
  <2> HIDE DEF a, theirs
  <2>4. /\ Engaged' /\ Past' /\ session' \in [Parties -> Pair]
        /\ \A q \in Parties : Completed(q) \subseteq Completed(q)'
    BY <1>1, <1>2, <2>1, <2>2, <2>3, CompletedKept
  <2>5. Mail'
    BY <1>1, <2>4, ConsumeKept DEF AkeInv
  <2>6. QED
    BY <1>1, <2>4, <2>5 DEF AkeInv, Rest
<1>3. CASE UNCHANGED <<auth, session, completed>>
  <2>1. Mail'
    BY <1>1, <1>3, ConsumeKept DEF AkeInv, Completed
  <2>2. Engaged' /\ Past'
    BY <1>1, <1>3, UntouchedKept
  <2>3. QED
    BY <1>1, <1>3, <2>1, <2>2 DEF AkeInv, Rest
<1>4. QED
  BY <1>2, <1>3 DEF HandleSignature, SamePair

-----------------------------------------------------------------------------
(* The users, losses and restarts.                                         *)

LEMMA AskKept ==
  ASSUME AkeInv, NEW p \in Parties, AskForSession(p)
  PROVE  AkeInv'
<1> DEFINE query == AkeMessage("query", NoKey, NoKeys)
<1>1. /\ flight' = [flight EXCEPT ![Other(p)] = Append(flight[Other(p)], query)]
      /\ UNCHANGED <<auth, session, keys, completed>>
  BY DEF AskForSession
<1>2. query \in AkeMsg /\ query.type = "query"
  BY NoKeysType, MessageType
<1>3. \A past : Fits(query, past)
  BY <1>2 DEF Fits
<1> HIDE DEF query
<1>4. ASSUME NEW q \in Parties
      PROVE  /\ flight'[q] \in Seq(AkeMsg)
             /\ Members(flight'[q]) \subseteq Members(flight[q]) \cup {query}
  <2>1. flight[q] \in Seq(AkeMsg)
    BY DEF AkeInv, Mail
  <2>2. Append(flight[q], query) \in Seq(AkeMsg)
        /\ Members(Append(flight[q], query)) = Members(flight[q]) \cup {query}
    BY <1>2, <2>1, AppendMembers
  <2>3. flight'[q] = flight[q] \/ flight'[q] = Append(flight[q], query)
    BY <1>1, OtherParty DEF AkeInv, Mail
  <2>4. QED
    BY <2>1, <2>2, <2>3
<1>5. flight' \in [Parties -> Seq(AkeMsg)]
  BY <1>1, <1>4 DEF AkeInv, Mail
<1>6. \A q \in Parties : Completed(q)' = Completed(q)
  BY <1>1 DEF Completed
<1>7. Mail'
  BY <1>3, <1>4, <1>5, <1>6, OtherParty DEF AkeInv, Mail, Posted
<1>8. Engaged' /\ Past'
  BY <1>1, UntouchedKept
<1>9. undisturbed' \in BOOLEAN
  BY DEF AskForSession, Quiet
<1>10. QED
  BY <1>1, <1>7, <1>8, <1>9 DEF AkeInv, Rest

\* Whoever ends, drops or forgets a conversation keeps nothing of it.
LEMMA ForgetKept ==
  ASSUME AkeInv, NEW p \in Parties, EndSession(p) \/ RestartParty(p)
  PROVE  AkeInv'
<1>1. /\ session' = [session EXCEPT ![p] = NoKeys]
      /\ auth' = [auth EXCEPT ![p] = Cleared] /\ undisturbed' = FALSE
      /\ UNCHANGED <<flight, keys, completed>>
  BY DEF EndSession, RestartParty
<1>2. Cleared \in AuthInfo /\ Cleared.authstate = "none"
  BY NoKeysType DEF Cleared, Auth, AuthInfo
<1>3. keys' \in 0..MaxKeys /\ keys <= keys'
  BY <1>1, AkeBoundsAssumption DEF AkeInv, Rest
<1>4. Resendable(Cleared) /\ Holding(Cleared, keys') /\ Unspent(Cleared, Completed(p))
  BY <1>2 DEF Resendable, Holding, Unspent
<1>5. Engaged' /\ Past'
  BY <1>1, <1>2, <1>3, <1>4, EngagedKept
<1>6. Mail'
  BY <1>1 DEF AkeInv, Mail, Posted, Completed
<1>7. QED
  BY <1>1, <1>3, <1>5, <1>6, NoKeysType DEF AkeInv, Rest

LEMMA LoseKept ==
  ASSUME AkeInv, NEW p \in Parties, LoseMessage(p)
  PROVE  AkeInv'
<1>1. /\ flight[p] # <<>> /\ Consume(p) /\ undisturbed' = FALSE
      /\ UNCHANGED <<auth, session, keys, completed>>
  BY DEF LoseMessage
<1>2. Mail'
  BY <1>1, ConsumeKept DEF AkeInv, Completed
<1>3. Engaged' /\ Past'
  BY <1>1, UntouchedKept
<1>4. QED
  BY <1>1, <1>2, <1>3 DEF AkeInv, Rest

-----------------------------------------------------------------------------
LEMMA InitAke == AkeInit => AkeInv
<1>1. SUFFICES ASSUME AkeInit PROVE AkeInv
  OBVIOUS
<1>2. \A p \in Parties : auth[p] = Cleared /\ completed[p] = <<>> /\ flight[p] = <<>>
  BY <1>1 DEF AkeInit
<1>3. Cleared \in AuthInfo /\ Cleared.authstate = "none"
  BY NoKeysType DEF Cleared, Auth, AuthInfo
<1>4. Resendable(Cleared) /\ Holding(Cleared, keys)
      /\ \A past : Unspent(Cleared, past)
  BY <1>3 DEF Resendable, Holding, Unspent
<1>5. Engaged
  BY <1>1, <1>2, <1>3, <1>4 DEF AkeInit, Engaged
<1>6. \A p \in Parties : Completed(p) = {}
  <2>1. DOMAIN <<>> = {}
    OBVIOUS
  <2>2. QED
    BY <1>2, <2>1 DEF Completed
<1>7. completed \in [Parties -> Seq(Key \X Key \X Half)]
      /\ flight \in [Parties -> Seq(AkeMsg)]
  BY <1>1 DEF AkeInit
<1>8. Past
  BY <1>2, <1>6, <1>7 DEF Past, PastKeys, AkeAgreement, OneSessionPerKey
<1>9. Mail
  BY <1>2, <1>7 DEF Mail, Posted, Members
<1>10. Rest
  <2>1. keys = 0 /\ 0 \in 0..MaxKeys
    BY <1>1, AkeBoundsAssumption DEF AkeInit
  <2>2. session \in [Parties -> Pair]
    BY <1>1, NoKeysType DEF AkeInit
  <2>3. undisturbed \in BOOLEAN
    BY <1>1 DEF AkeInit
  <2>4. QED
    BY <2>1, <2>2, <2>3 DEF Rest
<1>11. QED
  BY <1>5, <1>8, <1>9, <1>10 DEF AkeInv

LEMMA AkeKept == AkeInv /\ [AkeNext]_akeVars => AkeInv'
<1>1. ASSUME AkeInv, UNCHANGED akeVars PROVE AkeInv'
  <2>1. Engaged' /\ Past'
    BY <1>1, UntouchedKept DEF akeVars
  <2>2. Mail' /\ Rest'
    BY <1>1 DEF akeVars, AkeInv, Mail, Posted, Completed, Rest
  <2>3. QED
    BY <2>1, <2>2 DEF AkeInv
<1>2. ASSUME AkeInv, NEW p \in Parties,
             \/ AkeDeliver(p)
             \/ AskForSession(p) \/ EndSession(p) \/ RestartParty(p) \/ LoseMessage(p)
      PROVE  AkeInv'
  BY <1>2, QueryKept, CommitKept, KeyKept, RevealSigKept, SignatureKept, AskKept,
     ForgetKept, LoseKept DEF AkeDeliver
<1>3. QED
  BY <1>1, <1>2 DEF AkeNext

\* Whatever is lost, repeated, ended or restarted, the inductive invariant
\* holds ...
THEOREM AkeInvariant == AkeSpec => []AkeInv
  BY InitAke, AkeKept, PTL DEF AkeSpec

\* ... hence the types, and that what is sent again is what its state was
\* entered with ...
THEOREM AkeTypeCorrect == AkeSpec => []AkeTypeOK
<1>1. AkeInv => AkeTypeOK
  BY DEF AkeInv, Engaged, Past, Mail, Rest, AkeTypeOK
<1>2. QED
  BY <1>1, AkeInvariant, PTL

\* ... that who completes on a Signature Message does so with the keys his
\* contact completed with ...
THEOREM AgreementHolds == AkeSpec => []AkeAgreement
<1>1. AkeInv => AkeAgreement
  BY DEF AkeInv, Past
<1>2. QED
  BY <1>1, AkeInvariant, PTL

\* ... and that no key pair of the exchange opens two conversations.
THEOREM KeysUsedOnce == AkeSpec => []OneSessionPerKey
<1>1. AkeInv => OneSessionPerKey
  BY DEF AkeInv, Past
<1>2. QED
  BY <1>1, AkeInvariant, PTL

-----------------------------------------------------------------------------
(* That two open conversations are the same one.  Keys are numbered as they *)
(* are generated and messages arrive in order, so that what a party tells  *)
(* never goes back to an older key, nor what it hears.                     *)

\* The sender's own key a message tells of.
Bears(m) == m.type \in {"commit", "key", "revealsig", "signature"}
Own(m) == IF m.type \in {"commit", "key"} THEN m.key ELSE m.mac[1]

\* The pairs of keys, its own first, that a party reveals in messages under
\* way, follows at the moment, or has completed with.
Told(p) == {m.mac : m \in {n \in Members(flight[Other(p)]) : n.type = "revealsig"}}
Following(a) ==
    IF a.authstate = "sig" THEN {<<a.our_dh, a.their_pub>>}
    ELSE IF a.authstate = "revealsig" THEN {<<a.our_dh, a.encgx>>} ELSE {}
Pairs(p) == Told(p) \cup Following(auth[p]) \cup {<<s[1], s[2]>> : s \in Completed(p)}

\* The messages to a party tell of newer and newer keys ...
InOrder(s) == \A i, j \in DOMAIN s :
    i < j /\ Bears(s[i]) /\ Bears(s[j]) => Own(s[i]) <= Own(s[j])

\* ... the newest is the one its sender holds ...
Newest(p) ==
    /\ auth[p].our_dh \in 0..keys
    /\ \A m \in Members(flight[Other(p)]) : Bears(m) =>
          Own(m) \in 1..keys /\ (auth[p].our_dh # NoKey => Own(m) <= auth[p].our_dh)
    /\ \A x \in Pairs(p) :
          x[1] \in 1..keys /\ (auth[p].our_dh # NoKey => x[1] <= auth[p].our_dh)

\* ... with its newer keys a party follows newer keys of the other ...
Monotone(p) == \A x, y \in Pairs(p) : x[1] < y[1] => x[2] <= y[2]

\* ... and none newer than what it has yet to hear.
Frontier(p) == \A x \in Pairs(p) :
    /\ x[2] \in 1..keys
    /\ auth[Other(p)].our_dh # NoKey => x[2] <= auth[Other(p)].our_dh
    /\ \A m \in Members(flight[p]) : Bears(m) => x[2] <= Own(m)

Order == \A p \in Parties :
    InOrder(flight[p]) /\ Newest(p) /\ Monotone(p) /\ Frontier(p)

\* What a party has revealed, as far as it is under way or was taken: for one
\* key pair of its own one key of the other, and only if its commit opened
\* the exchange.
Unveiled(p) ==
    Told(p) \cup {<<s[2], s[1]>> : s \in {t \in Completed(Other(p)) : t[3] = "second"}}
Role(p) == \A x \in Unveiled(p) :
    /\ x[1] \in 1..keys
    /\ auth[p].authstate \in {"dhkey", "revealsig"} => x[1] # auth[p].our_dh
    /\ auth[p].authstate = "sig" /\ x[1] = auth[p].our_dh => x[2] = auth[p].their_pub
    /\ \A s \in Completed(p) : s[1] = x[1] => s[2] = x[2] /\ s[3] = "first"
Roles == \A p \in Parties : Role(p)

\* A conversation is that of a completed exchange; as long as the party has
\* not gone on to another one, of its key pair.
Founded(p) == session[p] # NoKeys =>
    /\ \E h \in Half : <<session[p][1], session[p][2], h>> \in Completed(p)
    /\ auth[p].authstate = "none" => auth[p].our_dh = session[p][1]

Open(p) == auth[p].authstate = "none" /\ session[p] # NoKeys
Together == \A p \in Parties :
    Open(p) /\ Open(Other(p)) => session[p] = <<session[Other(p)][2], session[Other(p)][1]>>

Joined == Order /\ Roles /\ (\A p \in Parties : Founded(p)) /\ Together

LEMMA KeyNumbers ==
  /\ MaxKeys \in Nat /\ NoKey = 0 /\ \A k \in Key : k \in Nat /\ k # 0
  /\ \A x \in Pair : x[1] \in Nat /\ x[2] \in Nat
  /\ \A m \in AkeMsg : Own(m) \in Nat /\ m.mac \in Pair
<1>1. MaxKeys \in Nat /\ NoKey = 0 /\ \A k \in Key : k \in Nat /\ k # 0
  BY AkeBoundsAssumption DEF Key, NoKey
<1>2. \A k \in Key \cup {NoKey} : k \in Nat
  BY <1>1
<1>3. \A x \in Pair : x[1] \in Key \cup {NoKey} /\ x[2] \in Key \cup {NoKey}
  BY DEF Pair
<1>4. \A m \in AkeMsg : m.mac \in Pair /\ m.key \in Key \cup {NoKey}
  BY DEF AkeMsg
<1>5. \A m \in AkeMsg : Own(m) \in Key \cup {NoKey}
  BY <1>3, <1>4 DEF Own
<1> QED  BY <1>1, <1>2, <1>3, <1>4, <1>5

LEMMA TailInOrder ==
  ASSUME NEW s \in Seq(AkeMsg), s # <<>>, InOrder(s)
  PROVE  /\ InOrder(Tail(s))
         /\ \A m \in Members(Tail(s)) : Bears(m) /\ Bears(Head(s)) => Own(Head(s)) <= Own(m)
<1> DEFINE t == Tail(s)
           l == Len(s)
<1>1. l \in Nat /\ l >= 1 /\ DOMAIN s = 1..l /\ DOMAIN t = 1..(l - 1) /\ Head(s) = s[1]
  OBVIOUS
<1>2. \A i \in 1..(l - 1) : t[i] = s[i + 1]
  OBVIOUS
<1> HIDE DEF t, l
<1>3. \A i \in 1..(l - 1) : i + 1 \in 1..l /\ 1 \in 1..l /\ 1 < i + 1
  BY <1>1
<1>4. ASSUME NEW i \in 1..(l - 1), NEW j \in 1..(l - 1), i < j, Bears(t[i]), Bears(t[j])
      PROVE  Own(t[i]) <= Own(t[j])
  <2>1. i + 1 < j + 1
    BY <1>4
  <2> QED  BY <1>1, <1>2, <1>3, <1>4, <2>1 DEF InOrder
<1>5. ASSUME NEW i \in 1..(l - 1), Bears(t[i]), Bears(Head(s))
      PROVE  Own(Head(s)) <= Own(t[i])
  BY <1>1, <1>2, <1>3, <1>5 DEF InOrder
<1>6. InOrder(t)
  BY <1>1, <1>4 DEF InOrder
<1>7. \A m \in Members(t) : Bears(m) /\ Bears(Head(s)) => Own(Head(s)) <= Own(m)
  BY <1>1, <1>5 DEF Members
<1> QED  BY <1>6, <1>7 DEF t

LEMMA AppendInOrder ==
  ASSUME NEW s \in Seq(AkeMsg), NEW m \in AkeMsg, InOrder(s),
         Bears(m) => \A n \in Members(s) : Bears(n) => Own(n) <= Own(m)
  PROVE  InOrder(Append(s, m))
<1> DEFINE t == Append(s, m)
           l == Len(s)
<1>1. l \in Nat /\ DOMAIN s = 1..l /\ DOMAIN t = 1..(l + 1) /\ t[l + 1] = m
  OBVIOUS
<1>2. \A i \in 1..l : t[i] = s[i]
  OBVIOUS
<1> HIDE DEF t, l
<1>3. ASSUME NEW i \in 1..(l + 1), NEW j \in 1..(l + 1), i < j, Bears(t[i]), Bears(t[j])
      PROVE  Own(t[i]) <= Own(t[j])
  <2>1. i \in 1..l
    BY <1>1, <1>3
  <2>2. CASE j = l + 1
    <3>1. s[i] \in Members(s) /\ Bears(s[i]) /\ Bears(m)
      BY <1>1, <1>2, <1>3, <2>1, <2>2 DEF Members
    <3> QED  BY <1>1, <1>2, <2>1, <2>2, <3>1
  <2>3. CASE j \in 1..l
    BY <1>1, <1>2, <1>3, <2>1, <2>3 DEF InOrder
  <2> QED  BY <1>1, <1>3, <2>2, <2>3
<1>4. InOrder(t)
  BY <1>1, <1>3 DEF InOrder
<1> QED  BY <1>4 DEF t

\* A step of p: it may hold a new key or none, read a message, send one that
\* tells of its own key, and follow the key of the message it has read.
LEMMA OrderKept ==
  ASSUME AkeInv, AkeInv', Order, NEW p \in Parties, NEW q \in Parties, q = Other(p),
         auth'[q] = auth[q], keys <= keys',
         \/ auth'[p].our_dh \in {auth[p].our_dh, NoKey}
         \/ auth'[p].our_dh = keys + 1 /\ keys' = keys + 1,
         \/ flight'[p] = flight[p]
         \/ flight[p] # <<>> /\ flight'[p] = Tail(flight[p]),
         NEW m \in AkeMsg, Bears(m) => auth'[p].our_dh # NoKey /\ Own(m) = auth'[p].our_dh,
         flight'[q] = flight[q] \/ flight'[q] = Append(flight[q], m),
         \/ Pairs(p)' \subseteq Pairs(p)
         \/ /\ flight[p] # <<>> /\ flight'[p] = Tail(flight[p])
            /\ Bears(Head(flight[p])) /\ auth'[p].our_dh # NoKey
            /\ Pairs(p)' \subseteq Pairs(p) \cup {<<auth'[p].our_dh, Own(Head(flight[p]))>>},
         Pairs(q)' \subseteq Pairs(q)
  PROVE  Order'
<1> DEFINE o == auth[p].our_dh
           o2 == auth'[p].our_dh
           h == Own(Head(flight[p]))
<1>1. /\ keys \in Nat /\ keys' \in Nat
      /\ flight[p] \in Seq(AkeMsg) /\ flight[q] \in Seq(AkeMsg)
      /\ p # q /\ Other(q) = p /\ \A r \in Parties : r = p \/ r = q
  BY OtherParty, AkeBoundsAssumption DEF AkeInv, Rest, Mail
<1>2. InOrder(flight[p]) /\ Newest(p) /\ Monotone(p) /\ Frontier(p)
  BY DEF Order
<1>3. InOrder(flight[q]) /\ Newest(q) /\ Monotone(q) /\ Frontier(q)
  BY DEF Order
<1>4. o \in 0..keys /\ o \in Nat /\ o2 \in 0..keys' /\ o2 \in Nat
  BY <1>1, <1>2 DEF Newest, NoKey
<1>5. \A n \in Members(flight'[p]) : n \in Members(flight[p])
  BY <1>1, TailMembers
<1>6. \A n \in Members(flight'[q]) :
          n \in Members(flight[q]) \/ (Bears(n) => o2 # NoKey /\ Own(n) = o2)
  <2>1. Members(Append(flight[q], m)) = Members(flight[q]) \cup {m}
    BY <1>1, AppendMembers
  <2>2. Members(flight'[q]) \subseteq Members(flight[q]) \cup {m}
    BY <2>1
  <2> QED  BY <2>2
<1>7. ASSUME o2 # NoKey
      PROVE  /\ \A n \in Members(flight[q]) : Bears(n) => Own(n) <= o2
             /\ \A x \in Pairs(p) : x[1] <= o2
             /\ \A x \in Pairs(q) : x[2] <= o2
  <2>1. CASE o2 = o
    BY <1>1, <1>2, <1>3, <1>7, <2>1 DEF Newest, Frontier
  <2>2. CASE o2 = keys + 1
    <3>1. \A k \in 1..keys : k <= o2
      BY <1>1, <2>2
    <3> QED  BY <1>2, <1>3, <3>1 DEF Newest, Frontier
  <2> QED  BY <1>7, <2>1, <2>2
<1>8. \A k \in 1..keys : k \in 1..keys' /\ k \in Nat
  BY <1>1
<1> HIDE DEF o, o2, h
<1>9. InOrder(flight'[p])
  BY <1>1, <1>2, TailInOrder
<1>10. InOrder(flight'[q])
  <2>1. CASE flight'[q] = Append(flight[q], m)
    <3>1. Bears(m) => \A n \in Members(flight[q]) : Bears(n) => Own(n) <= Own(m)
      BY <1>7 DEF o2
    <3> QED  BY <1>1, <1>3, <2>1, <3>1, AppendInOrder
  <2> QED  BY <1>3, <2>1
<1>11. o2 # NoKey => o2 \in 1..keys'
  BY <1>1, <1>4 DEF NoKey
<1>12. Newest(p)'
  <2>1. o2 \in 0..keys'
    BY <1>4
  <2>2. ASSUME NEW n \in Members(flight'[q]), Bears(n)
        PROVE  Own(n) \in 1..keys' /\ (o2 # NoKey => Own(n) <= o2)
    <3>1. CASE n \in Members(flight[q])
      BY <1>1, <1>2, <1>7, <1>8, <2>2, <3>1 DEF Newest
    <3>2. CASE o2 # NoKey /\ Own(n) = o2
      BY <1>4, <1>11, <3>2
    <3> QED  BY <1>6, <2>2, <3>1, <3>2
  <2>3. ASSUME NEW x \in Pairs(p)'
        PROVE  x[1] \in 1..keys' /\ (o2 # NoKey => x[1] <= o2)
    <3>1. CASE x \in Pairs(p)
      BY <1>2, <1>7, <1>8, <3>1 DEF Newest
    <3>2. CASE o2 # NoKey /\ x[1] = o2
      BY <1>4, <1>11, <3>2
    <3> QED  BY <2>3, <3>1, <3>2 DEF o2
  <2> QED  BY <2>1, <2>2, <2>3 DEF Newest, o2
<1>13. Newest(q)'
  BY <1>1, <1>3, <1>5, <1>8 DEF Newest
<1>14. Frontier(q)'
  <2>1. ASSUME NEW x \in Pairs(q)'
        PROVE  /\ x[2] \in 1..keys' /\ (o2 # NoKey => x[2] <= o2)
               /\ \A n \in Members(flight'[q]) : Bears(n) => x[2] <= Own(n)
    <3>1. x \in Pairs(q)
      BY <2>1
    <3>2. x[2] \in 1..keys' /\ (o2 # NoKey => x[2] <= o2)
      BY <1>3, <1>7, <1>8, <3>1 DEF Frontier
    <3>3. \A n \in Members(flight[q]) : Bears(n) => x[2] <= Own(n)
      BY <1>3, <3>1 DEF Frontier
    <3> QED  BY <1>6, <3>2, <3>3
  <2> QED  BY <1>1, <2>1 DEF Frontier, o2
<1>15. Monotone(q)'
  BY <1>3 DEF Monotone
<1>16. CASE Pairs(p)' \subseteq Pairs(p)
  <2>1. Monotone(p)'
    BY <1>2, <1>16 DEF Monotone
  <2>2. Frontier(p)'
    BY <1>1, <1>2, <1>5, <1>8, <1>16 DEF Frontier
  <2> QED  BY <1>1, <1>9, <1>10, <1>12, <1>13, <1>14, <1>15, <2>1, <2>2 DEF Order
<1>17. CASE /\ flight[p] # <<>> /\ flight'[p] = Tail(flight[p])
            /\ Bears(Head(flight[p])) /\ o2 # NoKey
            /\ Pairs(p)' \subseteq Pairs(p) \cup {<<o2, h>>}
  <2>1. /\ Head(flight[p]) \in Members(flight[p]) /\ h \in 1..keys
        /\ auth[q].our_dh # NoKey => h <= auth[q].our_dh
        /\ \A n \in Members(flight'[p]) : Bears(n) => h <= Own(n)
    <3>1. Head(flight[p]) \in Members(flight[p])
      BY <1>1, <1>17, TailMembers
    <3>2. \A n \in Members(flight'[p]) : Bears(n) => h <= Own(n)
      BY <1>1, <1>2, <1>17, TailInOrder DEF h
    <3> QED  BY <1>1, <1>3, <1>17, <3>1, <3>2 DEF Newest, h
  <2>2. \A x \in Pairs(p) : x[1] \in Nat /\ x[2] \in Nat /\ x[1] <= o2 /\ x[2] <= h
    BY <1>2, <1>7, <1>8, <1>17, <2>1 DEF Frontier, Newest, h
  <2>3. Monotone(p)'
    <3>1. SUFFICES ASSUME NEW x \in Pairs(p)', NEW y \in Pairs(p)', x[1] < y[1]
                   PROVE  x[2] <= y[2]
      BY DEF Monotone
    <3>2. CASE x \in Pairs(p) /\ y \in Pairs(p)
      BY <1>2, <3>1, <3>2 DEF Monotone
    <3>3. CASE x \in Pairs(p) /\ y = <<o2, h>>
      BY <2>2, <3>3
    <3>4. CASE x = <<o2, h>>
      <4>1. y[1] <= o2 /\ y[1] \in Nat
        BY <1>4, <1>17, <2>2
      <4> QED  BY <1>4, <3>1, <3>4, <4>1
    <3> QED  BY <1>17, <3>2, <3>3, <3>4
  <2>4. Frontier(p)'
    <3>1. SUFFICES ASSUME NEW x \in Pairs(p)'
                   PROVE  /\ x[2] \in 1..keys'
                          /\ auth[q].our_dh # NoKey => x[2] <= auth[q].our_dh
                          /\ \A n \in Members(flight'[p]) : Bears(n) => x[2] <= Own(n)
      BY DEF Frontier
    <3>2. CASE x \in Pairs(p)
      BY <1>2, <1>5, <1>8, <3>2 DEF Frontier
    <3>3. CASE x = <<o2, h>>
      BY <1>8, <2>1, <3>3
    <3> QED  BY <1>17, <3>2, <3>3
  <2> QED  BY <1>1, <1>9, <1>10, <1>12, <1>13, <1>14, <1>15, <2>3, <2>4 DEF Order
<1> QED  BY <1>16, <1>17 DEF o2, h

\* The same of what is revealed: only by a party that follows the key, for a
\* key pair it has not completed with.
LEMMA RolesKept ==
  ASSUME AkeInv, AkeInv', Order, Roles,
         NEW p \in Parties, NEW q \in Parties, q = Other(p),
         auth'[q] = auth[q], keys <= keys', Completed(q)' = Completed(q),
         Unveiled(q)' \subseteq Unveiled(q),
         \A x \in Unveiled(p)' : \/ x \in Unveiled(p)
                                \/ /\ auth'[p].authstate = "sig"
                                   /\ x = <<auth'[p].our_dh, auth'[p].their_pub>>,
         \/ auth'[p].authstate = "none"
         \/ auth'[p].our_dh = keys + 1
         \/ /\ auth'[p].our_dh = auth[p].our_dh
            /\ \/ auth'[p].authstate = auth[p].authstate
               \/ auth[p].authstate = "dhkey" /\ auth'[p].authstate = "sig"
            /\ auth[p].authstate = "sig" => auth'[p].their_pub = auth[p].their_pub,
         \A s \in Completed(p)' :
            \/ s \in Completed(p)
            \/ /\ auth[p].authstate = "sig" /\ s[1] = auth[p].our_dh
               /\ s[2] = auth[p].their_pub /\ s[3] = "first"
            \/ auth[p].authstate = "revealsig" /\ s[1] = auth[p].our_dh
  PROVE  Roles'
<1>1. /\ keys \in Nat /\ keys' \in Nat /\ p # q /\ Other(q) = p
      /\ \A r \in Parties : r = p \/ r = q
  BY OtherParty, AkeBoundsAssumption DEF AkeInv, Rest
<1>2. Role(p) /\ Role(q)
  BY DEF Roles
<1>3. \A k \in 1..keys : k \in 1..keys' /\ k # keys + 1
  BY <1>1
<1>4. /\ Holding(auth'[p], keys') /\ Unspent(auth'[p], Completed(p)')
      /\ Unspent(auth[p], Completed(p))
  BY DEF AkeInv, Engaged
<1>5. Role(q)'
  <2>1. \A x \in Unveiled(q)' : x \in Unveiled(q)
    OBVIOUS
  <2> QED  BY <1>2, <1>3, <2>1 DEF Role
<1>6. ASSUME NEW x \in Unveiled(p)', x \in Unveiled(p)
      PROVE  /\ x[1] \in 1..keys'
             /\ auth'[p].authstate \in {"dhkey", "revealsig"} => x[1] # auth'[p].our_dh
             /\ auth'[p].authstate = "sig" /\ x[1] = auth'[p].our_dh =>
                   x[2] = auth'[p].their_pub
             /\ \A s \in Completed(p)' : s[1] = x[1] => s[2] = x[2] /\ s[3] = "first"
  <2>1. x[1] \in 1..keys
    BY <1>2, <1>6 DEF Role
  <2>2. \A s \in Completed(p)' : s[1] = x[1] => s[2] = x[2] /\ s[3] = "first"
    <3>1. SUFFICES ASSUME NEW s \in Completed(p)', s[1] = x[1]
                   PROVE  s[2] = x[2] /\ s[3] = "first"
      OBVIOUS
    <3>2. CASE s \in Completed(p)
      BY <1>2, <1>6, <3>1, <3>2 DEF Role
    <3>3. CASE auth[p].authstate = "sig" /\ s[1] = auth[p].our_dh
               /\ s[2] = auth[p].their_pub /\ s[3] = "first"
      BY <1>2, <1>6, <3>1, <3>3 DEF Role
    <3>4. CASE auth[p].authstate = "revealsig" /\ s[1] = auth[p].our_dh
      BY <1>2, <1>6, <3>1, <3>4 DEF Role
    <3> QED  BY <3>2, <3>3, <3>4
  <2>3. CASE auth'[p].authstate = "none"
    BY <1>3, <2>1, <2>2, <2>3
  <2>4. CASE auth'[p].our_dh = keys + 1
    BY <1>3, <2>1, <2>2, <2>4
  <2>5. CASE /\ auth'[p].our_dh = auth[p].our_dh
             /\ \/ auth'[p].authstate = auth[p].authstate
                \/ auth[p].authstate = "dhkey" /\ auth'[p].authstate = "sig"
             /\ auth[p].authstate = "sig" => auth'[p].their_pub = auth[p].their_pub
    BY <1>2, <1>3, <1>6, <2>1, <2>2, <2>5 DEF Role
  <2> QED  BY <2>3, <2>4, <2>5
<1>7. ASSUME NEW x \in Unveiled(p)', auth'[p].authstate = "sig",
             x = <<auth'[p].our_dh, auth'[p].their_pub>>
      PROVE  /\ x[1] \in 1..keys'
             /\ auth'[p].authstate \in {"dhkey", "revealsig"} => x[1] # auth'[p].our_dh
             /\ auth'[p].authstate = "sig" /\ x[1] = auth'[p].our_dh =>
                   x[2] = auth'[p].their_pub
             /\ \A s \in Completed(p)' : s[1] = x[1] => s[2] = x[2] /\ s[3] = "first"
  BY <1>4, <1>7 DEF Holding, Unspent
<1>8. Role(p)'
  BY <1>6, <1>7 DEF Role
<1> QED  BY <1>1, <1>5, <1>8 DEF Roles

\* What a step of p leaves in the queues.
LEMMA QueueMoves ==
  ASSUME Mail, NEW p \in Parties, NEW q \in Parties, q = Other(p), flight[p] # <<>>
  PROVE  /\ Consume(p) => flight'[p] = Tail(flight[p]) /\ flight'[q] = flight[q]
         /\ \A m \in AkeMsg : ConsumeAndSend(p, m) =>
               flight'[p] = Tail(flight[p]) /\ flight'[q] = Append(flight[q], m)
BY OtherParty DEF Mail, Consume, ConsumeAndSend

LEMMA ToldMoves ==
  ASSUME Mail, NEW p \in Parties, NEW q \in Parties, q = Other(p), NEW m \in AkeMsg,
         \/ flight'[p] = flight[p]
         \/ flight[p] # <<>> /\ flight'[p] = Tail(flight[p]),
         flight'[q] = flight[q] \/ flight'[q] = Append(flight[q], m)
  PROVE  /\ Told(q)' \subseteq Told(q)
         /\ \A x \in Told(p)' : x \in Told(p) \/ (m.type = "revealsig" /\ x = m.mac)
<1>1. /\ flight[p] \in Seq(AkeMsg) /\ flight[q] \in Seq(AkeMsg) /\ Other(q) = p
  BY OtherParty DEF Mail
<1>2. Members(flight'[p]) \subseteq Members(flight[p])
  BY <1>1, TailMembers
<1>3. Members(Append(flight[q], m)) = Members(flight[q]) \cup {m}
  BY <1>1, AppendMembers
<1>4. Members(flight'[q]) \subseteq Members(flight[q]) \cup {m}
  BY <1>3
<1>5. Told(q)' \subseteq Told(q)
  BY <1>1, <1>2 DEF Told
<1>6. \A x \in Told(p)' : x \in Told(p) \/ (m.type = "revealsig" /\ x = m.mac)
  BY <1>4 DEF Told
<1> QED  BY <1>5, <1>6

\* A step that completes nothing: an exchange goes on, begins or stays.
Stays(a, b) ==
    /\ b.our_dh = a.our_dh /\ b.authstate = a.authstate
    /\ a.authstate = "sig" => b.their_pub = a.their_pub
    /\ a.authstate = "revealsig" => b.encgx = a.encgx
Reads(p, k) == /\ flight[p] # <<>> /\ flight'[p] = Tail(flight[p])
               /\ Bears(Head(flight[p])) /\ k = Own(Head(flight[p]))
GoesOn(p, a, b) ==
    \/ Stays(a, b)
    \/ /\ b.our_dh = keys + 1 /\ keys' = keys + 1
       /\ \/ b.authstate = "dhkey"
          \/ b.authstate = "revealsig" /\ Reads(p, b.encgx)
    \/ /\ a.authstate = "revealsig" /\ b.authstate = "revealsig"
       /\ b.our_dh = a.our_dh /\ Reads(p, b.encgx)
    \/ /\ a.authstate = "dhkey" /\ b.authstate = "sig"
       /\ b.our_dh = a.our_dh /\ Reads(p, b.their_pub)

LEMMA GoesOnKept ==
  ASSUME AkeInv, AkeInv', Joined, NEW p \in Parties, NEW q \in Parties, q = Other(p),
         auth'[q] = auth[q], keys <= keys', UNCHANGED <<session, completed>>,
         GoesOn(p, auth[p], auth'[p]),
         \/ flight'[p] = flight[p]
         \/ flight[p] # <<>> /\ flight'[p] = Tail(flight[p]),
         NEW m \in AkeMsg, Bears(m) => auth'[p].our_dh # NoKey /\ Own(m) = auth'[p].our_dh,
         m.type = "revealsig" =>
             /\ auth'[p].authstate = "sig"
             /\ m.mac = <<auth'[p].our_dh, auth'[p].their_pub>>,
         flight'[q] = flight[q] \/ flight'[q] = Append(flight[q], m)
  PROVE  Joined'
<1> DEFINE a == auth[p]
           b == auth'[p]
<1>1. /\ p # q /\ Other(q) = p /\ \A r \in Parties : r = p \/ r = q
      /\ \A r \in Parties : Completed(r)' = Completed(r)
      /\ keys \in Nat /\ Mail
  BY OtherParty, AkeBoundsAssumption DEF AkeInv, Rest, Completed
<1>2. /\ Told(q)' \subseteq Told(q)
      /\ \A x \in Told(p)' : x \in Told(p) \/ (m.type = "revealsig" /\ x = m.mac)
  BY <1>1, ToldMoves
<1>3. /\ b.authstate # "none" => b.our_dh # NoKey
      /\ a.authstate # "none" => a.our_dh # NoKey
  <2>1. Holding(b, keys') /\ Holding(a, keys)
    BY DEF AkeInv, Engaged
  <2>2. \A k \in Nat : \A n \in 1..k : n # NoKey
    BY DEF NoKey
  <2> QED  BY <2>1, <2>2, AkeBoundsAssumption DEF Holding, AkeInv, Rest
<1>4. Pairs(q)' \subseteq Pairs(q)
  BY <1>1, <1>2 DEF Pairs
<1>5. \A x \in Told(p)' : x \in Told(p) \/ x \in Following(b)
  BY <1>2 DEF Following
<1>6. \/ Pairs(p)' \subseteq Pairs(p)
      \/ /\ flight[p] # <<>> /\ flight'[p] = Tail(flight[p])
         /\ Bears(Head(flight[p])) /\ b.our_dh # NoKey
         /\ Pairs(p)' \subseteq Pairs(p) \cup {<<b.our_dh, Own(Head(flight[p]))>>}
  <2>1. Pairs(p)' \subseteq Pairs(p) \cup Following(b)
    BY <1>1, <1>5 DEF Pairs
  <2>2. CASE Stays(a, b)
    BY <2>1, <2>2 DEF Stays, Following, Pairs
  <2>3. CASE b.authstate = "dhkey"
    BY <2>1, <2>3 DEF Following
  <2>4. CASE b.authstate = "revealsig" /\ Reads(p, b.encgx)
    BY <1>3, <2>1, <2>4 DEF Following, Reads
  <2>5. CASE b.authstate = "sig" /\ Reads(p, b.their_pub)
    BY <1>3, <2>1, <2>5 DEF Following, Reads
  <2> QED  BY <2>2, <2>3, <2>4, <2>5 DEF GoesOn
<1>7. Order'
  <2>1. \/ b.our_dh \in {a.our_dh, NoKey}
        \/ b.our_dh = keys + 1 /\ keys' = keys + 1
    BY DEF GoesOn, Stays
  <2> QED  BY <1>4, <1>6, <2>1, OrderKept DEF Joined
<1>8. Roles'
  <2>1. Unveiled(q)' \subseteq Unveiled(q)
    BY <1>1, <1>2 DEF Unveiled
  <2>2. \A x \in Unveiled(p)' :
            \/ x \in Unveiled(p)
            \/ b.authstate = "sig" /\ x = <<b.our_dh, b.their_pub>>
    BY <1>1, <1>2 DEF Unveiled
  <2>3. \/ b.authstate = "none"
        \/ b.our_dh = keys + 1
        \/ /\ b.our_dh = a.our_dh
           /\ \/ b.authstate = a.authstate
              \/ a.authstate = "dhkey" /\ b.authstate = "sig"
           /\ a.authstate = "sig" => b.their_pub = a.their_pub
    BY DEF GoesOn, Stays
  <2> QED  BY <1>1, <2>1, <2>2, <2>3, RolesKept DEF Joined
<1>9. b.authstate = "none" => a.authstate = "none" /\ b.our_dh = a.our_dh
  BY DEF GoesOn, Stays
<1>10. \A r \in Parties : Founded(r)'
  BY <1>1, <1>9 DEF Founded, Joined
<1>11. Together'
  BY <1>1, <1>9 DEF Together, Joined, Open
<1> QED  BY <1>7, <1>8, <1>10, <1>11 DEF Joined

\* Whoever completes an exchange finds the other without a conversation, in an
\* exchange, or in the conversation of this one.
LEMMA CompletesTogether ==
  ASSUME AkeInv, Joined, NEW p \in Parties, NEW q \in Parties, q = Other(p),
         Open(q), auth[p].authstate # "none",
         NEW theirs,
         \/ /\ auth[p].authstate = "sig" /\ theirs = auth[p].their_pub
            /\ <<theirs, auth[p].our_dh, "second">> \in Completed(q)
         \/ /\ auth[p].authstate = "revealsig" /\ theirs = auth[p].encgx
            /\ <<theirs, auth[p].our_dh>> \in Told(q)
  PROVE  session[q] = <<theirs, auth[p].our_dh>>
<1> DEFINE ours == auth[p].our_dh
           c == session[q][1]
           d == session[q][2]
<1>1. /\ p # q /\ Other(q) = p /\ keys \in Nat
      /\ Newest(q) /\ Monotone(q) /\ Frontier(q) /\ Role(p) /\ Role(q)
  BY OtherParty, AkeBoundsAssumption DEF AkeInv, Rest, Joined, Order, Roles
<1>2. PICK half \in Half : <<c, d, half>> \in Completed(q)
  BY DEF Joined, Founded, Open
<1>3. auth[q].our_dh = c
  BY DEF Joined, Founded, Open
<1>4. ours # NoKey /\ Unspent(auth[p], Completed(p))
  <2>1. Holding(auth[p], keys) /\ Unspent(auth[p], Completed(p))
    BY DEF AkeInv, Engaged
  <2>2. \A n \in 1..keys : n # NoKey
    BY <1>1 DEF NoKey
  <2> QED  BY <2>1, <2>2 DEF Holding
<1>5. \A s \in Completed(p) : s[1] # ours
  BY <1>4 DEF Unspent
<1>6. <<c, d>> \in Pairs(q) /\ <<theirs, ours>> \in Pairs(q)
  <2>1. \A s \in Completed(q) : <<s[1], s[2]>> \in Pairs(q)
    BY DEF Pairs
  <2>2. Told(q) \subseteq Pairs(q)
    BY DEF Pairs
  <2> QED  BY <1>2, <2>1, <2>2
<1>7. /\ c \in 1..keys /\ theirs \in 1..keys /\ theirs <= c
      /\ d \in 1..keys /\ ours \in 1..keys /\ d <= ours
  <2>1. c \in 1..keys /\ theirs \in 1..keys /\ (auth[q].our_dh # NoKey => theirs <= c)
    BY <1>1, <1>3, <1>6 DEF Newest
  <2>2. d \in 1..keys /\ ours \in 1..keys /\ d <= ours
    BY <1>1, <1>4, <1>6 DEF Frontier
  <2>3. auth[q].our_dh # NoKey
    BY <1>1, <1>3, <2>1 DEF NoKey
  <2> QED  BY <2>1, <2>2, <2>3
<1>8. <<c, d, "first">> \in Completed(q) => d # ours
  <2>1. ASSUME <<c, d, "first">> \in Completed(q) PROVE <<d, c, "second">> \in Completed(p)
    <3> DEFINE s == <<c, d, "first">>
    <3>1. s \in Completed(q) /\ s[1] = c /\ s[2] = d /\ s[3] = "first"
      BY <2>1
    <3> HIDE DEF s
    <3>2. <<s[2], s[1], "second">> \in Completed(Other(q))
      BY <3>1 DEF AkeInv, Past, AkeAgreement
    <3> QED  BY <1>1, <3>1, <3>2
  <2>2. <<d, c, "second">>[1] = d
    OBVIOUS
  <2> QED  BY <1>5, <2>1, <2>2
<1>9. <<c, d, "second">> \in Completed(q) => <<d, c>> \in Unveiled(p)
  BY DEF Unveiled
<1>10. half = "first" \/ half = "second"
  BY DEF Half
<1>11. session[q] = <<c, d>>
  BY DEF AkeInv, Rest, Pair
<1> HIDE DEF c, d, ours
<1>12. CASE theirs < c
  <2>1. ours <= d
    BY <1>1, <1>6, <1>12 DEF Monotone
  <2>2. d = ours
    BY <1>7, <2>1
  <2>3. half = "second" /\ <<ours, c>> \in Unveiled(p)
    BY <1>2, <1>8, <1>9, <1>10, <2>2
  <2>4. CASE auth[p].authstate = "sig"
    <3>1. c = theirs
      BY <1>1, <2>3, <2>4 DEF Role, ours
    <3> QED  BY <1>7, <1>12, <3>1
  <2>5. CASE auth[p].authstate = "revealsig"
    BY <1>1, <2>3, <2>5 DEF Role, ours
  <2> QED  BY <2>4, <2>5
<1>13. CASE theirs = c
  <2>1. CASE auth[p].authstate = "sig"
    <3>1. <<c, ours, "second">> \in Completed(q)
      BY <1>13, <2>1 DEF ours
    <3>2. d = ours
      BY <1>2, <3>1 DEF AkeInv, Past, OneSessionPerKey, Completed
    <3> QED  BY <1>11, <1>13, <3>2 DEF ours
  <2>2. CASE auth[p].authstate = "revealsig"
    <3>1. <<c, ours>> \in Unveiled(q)
      BY <1>13, <2>2 DEF ours, Unveiled
    <3>2. d = ours /\ half = "first"
      BY <1>1, <1>2, <3>1 DEF Role
    <3> QED  BY <1>2, <1>8, <3>2
  <2> QED  BY <2>1, <2>2
<1> QED  BY <1>7, <1>12, <1>13

\* An exchange is completed.
LEMMA CompletionKept ==
  ASSUME AkeInv, AkeInv', Joined, NEW p \in Parties, NEW q \in Parties, q = Other(p),
         auth'[q] = auth[q], UNCHANGED keys,
         auth'[p].authstate = "none", auth'[p].our_dh = auth[p].our_dh,
         flight[p] # <<>>, flight'[p] = Tail(flight[p]),
         NEW m \in AkeMsg, Bears(m) => Own(m) = auth[p].our_dh, m.type # "revealsig",
         flight'[q] = flight[q] \/ flight'[q] = Append(flight[q], m),
         NEW theirs, NEW half \in Half, GoEncrypted(p, auth[p].our_dh, theirs, half),
         \/ /\ auth[p].authstate = "sig" /\ theirs = auth[p].their_pub /\ half = "first"
            /\ <<theirs, auth[p].our_dh, "second">> \in Completed(q)
         \/ /\ auth[p].authstate = "revealsig" /\ theirs = auth[p].encgx /\ half = "second"
            /\ <<theirs, auth[p].our_dh>> \in Told(q)
  PROVE  Joined'
<1> DEFINE ours == auth[p].our_dh
           new == <<ours, theirs, half>>
<1>1. /\ p # q /\ Other(q) = p /\ (\A r \in Parties : r = p \/ r = q)
      /\ keys \in Nat /\ Mail /\ auth[p].authstate # "none"
      /\ session \in [Parties -> Pair] /\ completed[p] \in Seq(Key \X Key \X Half)
  BY OtherParty, AkeBoundsAssumption DEF AkeInv, Rest, Past
<1>2. /\ Told(q)' \subseteq Told(q) /\ Told(p)' \subseteq Told(p)
  BY <1>1, ToldMoves
<1>3. ours # NoKey
  <2>1. Holding(auth[p], keys)
    BY DEF AkeInv, Engaged
  <2>2. \A n \in 1..keys : n # NoKey
    BY <1>1 DEF NoKey
  <2> QED  BY <1>1, <2>1, <2>2 DEF Holding
<1>4. /\ session'[p] = <<ours, theirs>> /\ session'[q] = session[q]
      /\ completed'[q] = completed[q]
  BY <1>1 DEF GoEncrypted, AkeInv, Past
<1>5. Completed(q)' = Completed(q)
  BY <1>4 DEF Completed
<1>6. \A s \in Completed(p)' : s \in Completed(p) \/ s = new
  <2> DEFINE n == Len(completed[p])
  <2>1. completed'[p] = Append(completed[p], new)
    BY DEF GoEncrypted, AkeInv, Past
  <2>2. /\ n \in Nat /\ DOMAIN completed[p] = 1..n /\ DOMAIN completed'[p] = 1..(n + 1)
        /\ completed'[p][n + 1] = new
        /\ \A i \in 1..n : completed'[p][i] = completed[p][i]
    BY <1>1, <2>1
  <2> HIDE DEF n, new
  <2> QED  BY <2>2 DEF Completed
<1>7. new \in Completed(p)'
  <2> DEFINE n == Len(completed[p])
  <2>1. completed'[p] = Append(completed[p], new)
    BY DEF GoEncrypted, AkeInv, Past
  <2>2. /\ n \in Nat /\ DOMAIN completed'[p] = 1..(n + 1) /\ completed'[p][n + 1] = new
    BY <1>1, <2>1
  <2> HIDE DEF n, new
  <2> QED  BY <2>2 DEF Completed
<1>8. <<ours, theirs>> \in Following(auth[p])
  BY DEF Following
<1>9. Following(auth'[p]) = {}
  BY DEF Following
<1>10. Pairs(p)' \subseteq Pairs(p) /\ Pairs(q)' \subseteq Pairs(q)
  <2>1. \A s \in Completed(p)' : <<s[1], s[2]>> \in Pairs(p)
    BY <1>6, <1>8 DEF Pairs
  <2>2. Pairs(p)' \subseteq Pairs(p)
    BY <1>2, <1>9, <2>1 DEF Pairs
  <2>3. Pairs(q)' \subseteq Pairs(q)
    BY <1>2, <1>5 DEF Pairs
  <2> QED  BY <2>2, <2>3
<1> HIDE DEF new
<1>11. Order'
  <2>1. Bears(m) => auth'[p].our_dh # NoKey /\ Own(m) = auth'[p].our_dh
    BY <1>3
  <2>2. auth'[p].our_dh \in {auth[p].our_dh, NoKey} /\ keys <= keys' /\ Order
    BY <1>1 DEF Joined
  <2> HIDE DEF ours
  <2> QED  BY <1>10, <2>1, <2>2, OrderKept
<1>12. Roles'
  <2>1. new[1] = ours /\ new[2] = theirs /\ new[3] = half
    BY DEF new
  <2>2. Unveiled(q)' \subseteq Unveiled(q)
    <3>1. ASSUME NEW s \in Completed(p)', s[3] = "second" PROVE <<s[2], s[1]>> \in Unveiled(q)
      <4>1. CASE s \in Completed(p)
        BY <1>1, <3>1, <4>1 DEF Unveiled
      <4>2. CASE s = new
        BY <2>1, <3>1, <4>2 DEF Unveiled
      <4> QED  BY <1>6, <3>1, <4>1, <4>2
    <3> QED  BY <1>1, <1>2, <3>1 DEF Unveiled
  <2>3. \A x \in Unveiled(p)' : x \in Unveiled(p)
    BY <1>2, <1>5 DEF Unveiled
  <2>4. \A s \in Completed(p)' :
            \/ s \in Completed(p)
            \/ /\ auth[p].authstate = "sig" /\ s[1] = auth[p].our_dh
               /\ s[2] = auth[p].their_pub /\ s[3] = "first"
            \/ auth[p].authstate = "revealsig" /\ s[1] = auth[p].our_dh
    BY <1>6, <2>1
  <2>5. keys <= keys' /\ Order /\ Roles
    BY <1>1 DEF Joined
  <2> HIDE DEF ours
  <2> QED  BY <1>5, <2>2, <2>3, <2>4, <2>5, RolesKept
<1>13. \A r \in Parties : Founded(r)'
  <2>1. Founded(p)'
    <3>1. <<session'[p][1], session'[p][2], half>> \in Completed(p)'
      BY <1>4, <1>7 DEF new
    <3>2. auth'[p].our_dh = session'[p][1]
      BY <1>4
    <3> QED  BY <3>1, <3>2 DEF Founded
  <2>2. Founded(q)'
    BY <1>4, <1>5 DEF Founded, Joined
  <2> QED  BY <1>1, <2>1, <2>2
<1>14. Together'
  <2>1. ASSUME Open(q) PROVE session[q] = <<theirs, ours>>
    BY <1>1, <2>1, CompletesTogether
  <2> QED  BY <1>1, <1>4, <2>1 DEF Together, Open
<1> QED  BY <1>11, <1>12, <1>13, <1>14 DEF Joined

\* The handlers: what each reads and sends.
LEMMA SenderKeys ==
  ASSUME AkeInv, NEW p \in Parties
  PROVE  /\ auth[p].authstate # "none" => auth[p].our_dh # NoKey
         /\ auth[p].authstate = "revealsig" =>
               /\ Bears(auth[p].lastauthmsg) /\ auth[p].lastauthmsg.type = "key"
               /\ Own(auth[p].lastauthmsg) = auth[p].our_dh
         /\ auth[p].authstate = "sig" =>
               /\ Bears(auth[p].lastauthmsg) /\ auth[p].lastauthmsg.type = "revealsig"
               /\ Own(auth[p].lastauthmsg) = auth[p].our_dh
               /\ auth[p].lastauthmsg.mac = <<auth[p].our_dh, auth[p].their_pub>>
<1>1. Resendable(auth[p]) /\ (auth[p].authstate # "none" => auth[p].our_dh \in Key)
  BY Partner
<1>2. auth[p].authstate # "none" => auth[p].our_dh # NoKey
  BY <1>1, KeyNumbers
<1> QED  BY <1>1, <1>2 DEF Resendable, Bears, Own, AkeMessage

LEMMA OneGoesOn ==
  ASSUME AkeInv, NEW p \in Parties, NEW b, auth' = [auth EXCEPT ![p] = b]
  PROVE  auth'[p] = b /\ auth'[Other(p)] = auth[Other(p)]
BY OtherParty DEF AkeInv, Engaged

LEMMA QueryJoined ==
  ASSUME AkeInv, AkeInv', Joined, NEW p \in Parties, HandleQuery(p)
  PROVE  Joined'
<1> DEFINE gx == keys + 1
           commit == AkeMessage("commit", gx, NoKeys)
           a == Auth("dhkey", gx, gx, gx, NoKey, commit)
<1>1. /\ flight[p] # <<>> /\ Generates /\ ConsumeAndSend(p, commit)
      /\ auth' = [auth EXCEPT ![p] = a]
      /\ UNCHANGED <<session, completed>>
  BY DEF HandleQuery, Received
<1>2. gx \in Key /\ gx # NoKey /\ keys <= keys' /\ keys' = gx
  BY <1>1, FreshKey, KeyNumbers DEF Generates
<1>3. commit \in AkeMsg /\ commit.type = "commit" /\ commit.key = gx
  BY <1>2, MessageType, NoKeysType
<1>4. a.authstate = "dhkey" /\ a.our_dh = gx
  BY DEF Auth
<1>5. Own(commit) = gx
  BY <1>3 DEF Own
<1> HIDE DEF a, commit
<1>6. auth'[p] = a /\ auth'[Other(p)] = auth[Other(p)]
  BY <1>1, OneGoesOn
<1>7. flight'[p] = Tail(flight[p]) /\ flight'[Other(p)] = Append(flight[Other(p)], commit)
  BY <1>1, <1>3, QueueMoves, OtherParty DEF AkeInv
<1>8. GoesOn(p, auth[p], auth'[p])
  BY <1>2, <1>4, <1>6 DEF GoesOn
<1>9. Other(p) \in Parties
  BY OtherParty
<1> HIDE DEF gx
<1> QED  BY <1>1, <1>2, <1>3, <1>4, <1>5, <1>6, <1>7, <1>8, <1>9, GoesOnKept

LEMMA CommitJoined ==
  ASSUME AkeInv, AkeInv', Joined, NEW p \in Parties, HandleCommit(p)
  PROVE  Joined'
<1> DEFINE gx == Head(flight[p]).key
           gy == keys + 1
           dhkey == AkeMessage("key", gy, NoKeys)
           a == Auth("revealsig", gy, NoKey, gx, NoKey, dhkey)
           b == [auth[p] EXCEPT !.encgx = gx]
<1>1. /\ flight[p] # <<>> /\ Head(flight[p]).type = "commit"
      /\ UNCHANGED <<session, completed>> /\ Other(p) \in Parties
  BY OtherParty DEF HandleCommit, Received
<1>2. Bears(Head(flight[p])) /\ Own(Head(flight[p])) = gx
  BY <1>1 DEF Bears, Own
<1>3. CASE /\ Generates /\ ConsumeAndSend(p, dhkey)
           /\ auth' = [auth EXCEPT ![p] = a]
  <2>1. gy \in Key /\ gy # NoKey /\ keys <= keys' /\ keys' = gy
    BY <1>3, FreshKey, KeyNumbers DEF Generates
  <2>2. dhkey \in AkeMsg /\ dhkey.type = "key" /\ dhkey.key = gy
    BY <2>1, MessageType, NoKeysType
  <2>3. a.authstate = "revealsig" /\ a.our_dh = gy /\ a.encgx = gx
    BY DEF Auth
  <2>4. Own(dhkey) = gy
    BY <2>2 DEF Own
  <2> HIDE DEF a, dhkey, gx
  <2>5. auth'[p] = a /\ auth'[Other(p)] = auth[Other(p)]
    BY <1>3, OneGoesOn
  <2>6. flight'[p] = Tail(flight[p]) /\ flight'[Other(p)] = Append(flight[Other(p)], dhkey)
    BY <1>1, <1>3, <2>2, QueueMoves DEF AkeInv
  <2>7. GoesOn(p, auth[p], auth'[p])
    BY <1>1, <1>2, <2>1, <2>3, <2>5, <2>6 DEF GoesOn, Reads
  <2> HIDE DEF gy
  <2> QED  BY <1>1, <2>1, <2>2, <2>3, <2>4, <2>5, <2>6, <2>7, GoesOnKept
<1>4. CASE /\ auth[p].authstate = "revealsig" /\ UNCHANGED keys
           /\ auth' = [auth EXCEPT ![p] = b]
           /\ ConsumeAndSend(p, auth[p].lastauthmsg)
  <2> DEFINE m == auth[p].lastauthmsg
  <2>1. b.authstate = "revealsig" /\ b.our_dh = auth[p].our_dh /\ b.encgx = gx
    BY <1>4, Partner DEF AuthInfo
  <2>2. /\ m \in AkeMsg /\ m.type = "key" /\ Own(m) = auth[p].our_dh
        /\ auth[p].our_dh # NoKey
    BY <1>4, Partner, SenderKeys
  <2>3. keys <= keys'
    BY <1>4, AkeBoundsAssumption DEF AkeInv, Rest
  <2> HIDE DEF b, gx, m
  <2>4. auth'[p] = b /\ auth'[Other(p)] = auth[Other(p)]
    BY <1>4, OneGoesOn
  <2>5. flight'[p] = Tail(flight[p]) /\ flight'[Other(p)] = Append(flight[Other(p)], m)
    BY <1>1, <1>4, <2>2, QueueMoves DEF AkeInv, m
  <2>6. GoesOn(p, auth[p], auth'[p])
    BY <1>1, <1>2, <1>4, <2>1, <2>4, <2>5 DEF GoesOn, Reads
  <2> QED  BY <1>1, <2>1, <2>2, <2>3, <2>4, <2>5, <2>6, GoesOnKept
<1> QED  BY <1>3, <1>4 DEF HandleCommit

LEMMA KeyJoined ==
  ASSUME AkeInv, AkeInv', Joined, NEW p \in Parties, HandleKey(p)
  PROVE  Joined'
<1> DEFINE gy == Head(flight[p]).key
           reveal == AkeMessage("revealsig", auth[p].r, <<auth[p].our_dh, gy>>)
           a == Auth("sig", auth[p].our_dh, auth[p].r, auth[p].encgx, gy, reveal)
<1>1. /\ flight[p] # <<>> /\ Head(flight[p]).type = "key"
      /\ UNCHANGED <<session, keys, completed>> /\ Other(p) \in Parties
  BY OtherParty DEF HandleKey, Received
<1>2. Bears(Head(flight[p])) /\ Own(Head(flight[p])) = gy
  BY <1>1 DEF Bears, Own
<1>3. gy \in Key
  BY <1>1, HeadFits DEF AkeInv, Fits
<1>4. keys <= keys'
  BY <1>1, AkeBoundsAssumption DEF AkeInv, Rest
<1>5. CASE /\ auth[p].authstate = "dhkey" /\ auth' = [auth EXCEPT ![p] = a]
           /\ ConsumeAndSend(p, reveal)
  <2>1. <<auth[p].our_dh, gy>> \in Pair
    BY <1>3, Partner DEF Pair
  <2>2. /\ reveal \in AkeMsg /\ reveal.type = "revealsig"
        /\ reveal.mac = <<auth[p].our_dh, gy>>
    BY <2>1, Partner, MessageType
  <2>3. a.authstate = "sig" /\ a.our_dh = auth[p].our_dh /\ a.their_pub = gy
    BY DEF Auth
  <2>4. Own(reveal) = auth[p].our_dh /\ auth[p].our_dh # NoKey
    BY <1>5, <2>2, SenderKeys DEF Own
  <2> HIDE DEF a, reveal, gy
  <2>5. auth'[p] = a /\ auth'[Other(p)] = auth[Other(p)]
    BY <1>5, OneGoesOn
  <2>6. flight'[p] = Tail(flight[p]) /\ flight'[Other(p)] = Append(flight[Other(p)], reveal)
    BY <1>1, <1>5, <2>2, QueueMoves DEF AkeInv
  <2>7. GoesOn(p, auth[p], auth'[p])
    BY <1>1, <1>2, <1>5, <2>3, <2>5, <2>6 DEF GoesOn, Reads
  <2> QED  BY <1>1, <1>4, <2>2, <2>3, <2>4, <2>5, <2>6, <2>7, GoesOnKept
<1>6. CASE /\ auth[p].authstate = "sig" /\ UNCHANGED auth
           /\ ConsumeAndSend(p, auth[p].lastauthmsg)
  <2> DEFINE m == auth[p].lastauthmsg
  <2>1. /\ m \in AkeMsg /\ Own(m) = auth[p].our_dh /\ auth[p].our_dh # NoKey
        /\ m.mac = <<auth[p].our_dh, auth[p].their_pub>>
    BY <1>6, Partner, SenderKeys
  <2> HIDE DEF m
  <2>2. flight'[p] = Tail(flight[p]) /\ flight'[Other(p)] = Append(flight[Other(p)], m)
    BY <1>1, <1>6, <2>1, QueueMoves DEF AkeInv, m
  <2>3. GoesOn(p, auth[p], auth'[p])
    BY <1>6 DEF GoesOn, Stays
  <2> QED  BY <1>1, <1>4, <1>6, <2>1, <2>2, <2>3, GoesOnKept
<1>7. CASE Consume(p) /\ UNCHANGED auth
  <2>1. flight'[p] = Tail(flight[p]) /\ flight'[Other(p)] = flight[Other(p)]
    BY <1>1, <1>7, QueueMoves DEF AkeInv
  <2>2. GoesOn(p, auth[p], auth'[p])
    BY <1>7 DEF GoesOn, Stays
  <2>3. NoMessage \in AkeMsg /\ ~Bears(NoMessage) /\ NoMessage.type = "none"
    BY NoKeysType DEF NoMessage, AkeMessage, Bears
  <2> QED  BY <1>1, <1>4, <1>7, <2>1, <2>2, <2>3, GoesOnKept
<1> QED  BY <1>5, <1>6, <1>7 DEF HandleKey

LEMMA RevealSigJoined ==
  ASSUME AkeInv, AkeInv', Joined, NEW p \in Parties, HandleRevealSig(p)
  PROVE  Joined'
<1> DEFINE m == Head(flight[p])
           a == [auth[p] EXCEPT !.r = m.key]
           signature == AkeMessage("signature", NoKey, <<a.our_dh, a.encgx>>)
           done == Auth("none", a.our_dh, a.r, a.encgx, a.encgx, signature)
           odd == [a EXCEPT !.their_pub = a.encgx]
<1>1. /\ flight[p] # <<>> /\ m \in AkeMsg /\ m.type = "revealsig"
      /\ m \in Members(flight[p])
      /\ UNCHANGED keys /\ Other(p) \in Parties /\ Other(Other(p)) = p
  BY HeadFits, TailMembers, OtherParty DEF HandleRevealSig, Received, AkeInv, Mail
<1>2. /\ a.authstate = auth[p].authstate /\ a.our_dh = auth[p].our_dh
      /\ a.encgx = auth[p].encgx /\ a.their_pub = auth[p].their_pub
      /\ odd.authstate = auth[p].authstate /\ odd.our_dh = auth[p].our_dh
      /\ odd.encgx = auth[p].encgx
  BY Partner DEF AuthInfo
<1>3. keys <= keys'
  BY <1>1, AkeBoundsAssumption DEF AkeInv, Rest
<1>4. CASE /\ a.authstate = "revealsig" /\ SamePair(m.mac, a.our_dh, a.encgx)
           /\ auth' = [auth EXCEPT ![p] = done]
           /\ GoEncrypted(p, a.our_dh, a.encgx, "second")
           /\ ConsumeAndSend(p, signature)
  <2>1. a.encgx \in Key /\ a.our_dh \in Key
    BY <1>2, <1>4, Partner DEF Holding
  <2>2. <<a.our_dh, a.encgx>> \in Pair /\ NoKey \in Key \cup {NoKey}
    BY <2>1 DEF Pair
  <2>3. /\ signature \in AkeMsg /\ signature.type = "signature"
        /\ signature.mac = <<a.our_dh, a.encgx>>
    BY <2>2, MessageType
  <2>4. Own(signature) = auth[p].our_dh
    BY <1>2, <2>3 DEF Own
  <2>5. done.authstate = "none" /\ done.our_dh = auth[p].our_dh
    BY <1>2 DEF Auth
  <2>6. <<auth[p].encgx, auth[p].our_dh>> \in Told(Other(p))
    BY <1>1, <1>2, <1>4 DEF Told, SamePair
  <2>7. GoEncrypted(p, auth[p].our_dh, auth[p].encgx, "second") /\ "second" \in Half
        /\ auth[p].authstate = "revealsig"
    BY <1>2, <1>4 DEF Half
  <2> HIDE DEF done, signature, a
  <2>8. auth'[p] = done /\ auth'[Other(p)] = auth[Other(p)]
    BY <1>4, OneGoesOn
  <2>9. flight'[p] = Tail(flight[p]) /\ flight'[Other(p)] = Append(flight[Other(p)], signature)
    BY <1>1, <1>4, <2>3, QueueMoves DEF AkeInv
  <2> HIDE DEF m, odd
  <2> QED  BY <1>1, <2>3, <2>4, <2>5, <2>6, <2>7, <2>8, <2>9, CompletionKept
<1>5. ASSUME Consume(p), UNCHANGED <<session, completed>>, NEW b,
             auth' = [auth EXCEPT ![p] = b], Stays(auth[p], b)
      PROVE  Joined'
  <2>1. flight'[p] = Tail(flight[p]) /\ flight'[Other(p)] = flight[Other(p)]
    BY <1>1, <1>5, QueueMoves DEF AkeInv
  <2>2. auth'[p] = b /\ auth'[Other(p)] = auth[Other(p)]
    BY <1>5, OneGoesOn
  <2>3. GoesOn(p, auth[p], auth'[p])
    BY <1>5, <2>2 DEF GoesOn
  <2>4. NoMessage \in AkeMsg /\ ~Bears(NoMessage) /\ NoMessage.type = "none"
    BY NoKeysType DEF NoMessage, AkeMessage, Bears
  <2> HIDE DEF m, a, done, odd, signature
  <2> QED  BY <1>1, <1>3, <1>5, <2>1, <2>2, <2>3, <2>4, GoesOnKept
<1>6. Stays(auth[p], a)
  BY <1>2 DEF Stays
<1>7. a.authstate = "revealsig" => Stays(auth[p], odd)
  BY <1>2 DEF Stays
<1> QED  BY <1>4, <1>5, <1>6, <1>7 DEF HandleRevealSig

LEMMA SignatureJoined ==
  ASSUME AkeInv, AkeInv', Joined, NEW p \in Parties, HandleSignature(p)
  PROVE  Joined'
<1> DEFINE ours == auth[p].our_dh
           theirs == auth[p].their_pub
           a == Auth("none", ours, auth[p].r, auth[p].encgx, theirs, NoMessage)
<1>1. /\ flight[p] # <<>> /\ Head(flight[p]).type = "signature" /\ Consume(p)
      /\ UNCHANGED keys /\ Other(p) \in Parties
  BY OtherParty DEF HandleSignature, Received
<1>2. keys <= keys'
  BY <1>1, AkeBoundsAssumption DEF AkeInv, Rest
<1>3. flight'[p] = Tail(flight[p]) /\ flight'[Other(p)] = flight[Other(p)]
  BY <1>1, QueueMoves DEF AkeInv
<1>4. NoMessage \in AkeMsg /\ ~Bears(NoMessage) /\ NoMessage.type = "none"
  BY NoKeysType DEF NoMessage, AkeMessage, Bears
<1>5. CASE /\ auth[p].authstate = "sig" /\ Head(flight[p]).mac = <<theirs, ours>>
           /\ auth' = [auth EXCEPT ![p] = a]
           /\ GoEncrypted(p, ours, theirs, "first")
  <2>1. a.authstate = "none" /\ a.our_dh = ours
    BY DEF Auth
  <2>2. <<theirs, ours, "second">> \in Completed(Other(p)) /\ "first" \in Half
    BY <1>1, <1>5, HeadFits DEF Fits, AkeInv, Half
  <2> HIDE DEF a
  <2>3. auth'[p] = a /\ auth'[Other(p)] = auth[Other(p)]
    BY <1>5, OneGoesOn
  <2> QED  BY <1>1, <1>3, <1>4, <1>5, <2>1, <2>2, <2>3, CompletionKept
<1>6. CASE UNCHANGED <<auth, session, completed>>
  <2>1. GoesOn(p, auth[p], auth'[p])
    BY <1>6 DEF GoesOn, Stays
  <2> QED  BY <1>1, <1>2, <1>3, <1>4, <1>6, <2>1, GoesOnKept
<1> QED  BY <1>5, <1>6 DEF HandleSignature, SamePair

LEMMA AskJoined ==
  ASSUME AkeInv, AkeInv', Joined, NEW p \in Parties, AskForSession(p)
  PROVE  Joined'
<1> DEFINE query == AkeMessage("query", NoKey, NoKeys)
<1>1. /\ flight' = [flight EXCEPT ![Other(p)] = Append(flight[Other(p)], query)]
      /\ UNCHANGED <<auth, session, keys, completed>>
      /\ Other(p) \in Parties /\ Other(p) # p
  BY OtherParty DEF AskForSession
<1>2. query \in AkeMsg /\ ~Bears(query) /\ query.type = "query"
  BY NoKeysType, MessageType DEF Bears
<1> HIDE DEF query
<1>3. flight'[p] = flight[p] /\ flight'[Other(p)] = Append(flight[Other(p)], query)
  BY <1>1 DEF AkeInv, Mail
<1>4. GoesOn(p, auth[p], auth'[p])
  BY <1>1 DEF GoesOn, Stays
<1>5. keys <= keys'
  BY <1>1, AkeBoundsAssumption DEF AkeInv, Rest
<1> QED  BY <1>1, <1>2, <1>3, <1>4, <1>5, GoesOnKept

LEMMA LoseJoined ==
  ASSUME AkeInv, AkeInv', Joined, NEW p \in Parties, LoseMessage(p)
  PROVE  Joined'
<1>1. /\ flight[p] # <<>> /\ Consume(p) /\ Other(p) \in Parties
      /\ UNCHANGED <<auth, session, keys, completed>>
  BY OtherParty DEF LoseMessage
<1>2. flight'[p] = Tail(flight[p]) /\ flight'[Other(p)] = flight[Other(p)]
  BY <1>1, QueueMoves DEF AkeInv
<1>3. GoesOn(p, auth[p], auth'[p])
  BY <1>1 DEF GoesOn, Stays
<1>4. keys <= keys'
  BY <1>1, AkeBoundsAssumption DEF AkeInv, Rest
<1>5. NoMessage \in AkeMsg /\ ~Bears(NoMessage) /\ NoMessage.type = "none"
  BY NoKeysType DEF NoMessage, AkeMessage, Bears
<1> QED  BY <1>1, <1>2, <1>3, <1>4, <1>5, GoesOnKept

\* What is forgotten leaves no conversation that could differ.
LEMMA ForgetJoined ==
  ASSUME AkeInv, AkeInv', Joined, NEW p \in Parties, EndSession(p) \/ RestartParty(p)
  PROVE  Joined'
<1> DEFINE q == Other(p)
<1>1. /\ session' = [session EXCEPT ![p] = NoKeys]
      /\ auth' = [auth EXCEPT ![p] = Cleared]
      /\ UNCHANGED <<flight, keys, completed>>
  BY DEF EndSession, RestartParty
<1>2. /\ q \in Parties /\ p # q /\ Other(q) = p /\ \A r \in Parties : r = p \/ r = q
  BY OtherParty
<1>3. Cleared.authstate = "none" /\ Cleared.our_dh = NoKey
  BY DEF Cleared, Auth
<1>4. auth'[p] = Cleared /\ auth'[q] = auth[q]
  BY <1>1, OneGoesOn
<1>5. session'[p] = NoKeys /\ session'[q] = session[q]
  BY <1>1, <1>2 DEF AkeInv, Rest
<1>6. \A r \in Parties : Completed(r)' = Completed(r) /\ Told(r)' = Told(r)
  BY <1>1 DEF Completed, Told, Members
<1>7. Pairs(p)' \subseteq Pairs(p) /\ Pairs(q)' \subseteq Pairs(q)
  BY <1>2, <1>3, <1>4, <1>6 DEF Pairs, Following
<1>8. Unveiled(p)' \subseteq Unveiled(p) /\ Unveiled(q)' \subseteq Unveiled(q)
  BY <1>2, <1>6 DEF Unveiled
<1>9. keys <= keys' /\ Order /\ Roles
  BY <1>1, AkeBoundsAssumption DEF AkeInv, Rest, Joined
<1>10. NoMessage \in AkeMsg /\ ~Bears(NoMessage)
  BY NoKeysType DEF NoMessage, AkeMessage, Bears
<1> HIDE DEF q
<1>11. Order'
  <2>1. auth'[p].our_dh \in {auth[p].our_dh, NoKey}
    BY <1>3, <1>4
  <2> QED  BY <1>1, <1>2, <1>4, <1>7, <1>9, <1>10, <2>1, OrderKept DEF q
<1>12. Roles'
  <2>1. auth'[p].authstate = "none"
    BY <1>3, <1>4
  <2>2. \A x \in Unveiled(p)' : x \in Unveiled(p)
    BY <1>8
  <2>3. \A s \in Completed(p)' : s \in Completed(p)
    BY <1>6
  <2> QED  BY <1>2, <1>4, <1>6, <1>8, <1>9, <2>1, <2>2, <2>3, RolesKept DEF q
<1>13. \A r \in Parties : Founded(r)'
  BY <1>2, <1>4, <1>5, <1>6 DEF Founded, Joined
<1>14. Together'
  BY <1>2, <1>5 DEF Together, Open
<1> QED  BY <1>11, <1>12, <1>13, <1>14 DEF Joined

LEMMA InitJoined == AkeInit => Joined
<1>1. SUFFICES ASSUME AkeInit PROVE Joined
  OBVIOUS
<1>2. /\ keys = 0
      /\ \A p \in Parties : /\ auth[p] = Cleared /\ completed[p] = <<>>
                            /\ flight[p] = <<>> /\ session[p] = NoKeys
  BY <1>1 DEF AkeInit
<1>3. Cleared.authstate = "none" /\ Cleared.our_dh = NoKey
  BY DEF Cleared, Auth
<1>4. \A p \in Parties : Completed(p) = {} /\ Members(flight[p]) = {}
  <2>1. DOMAIN <<>> = {}
    OBVIOUS
  <2> QED  BY <1>2, <2>1 DEF Completed, Members
<1>5. \A p \in Parties : Told(p) = {} /\ Following(auth[p]) = {}
  BY <1>2, <1>3, <1>4, OtherParty DEF Told, Following
<1>6. ASSUME NEW p \in Parties PROVE Pairs(p) = {} /\ Unveiled(p) = {}
  <2>1. Completed(p) = {} /\ Completed(Other(p)) = {}
    BY <1>4, OtherParty
  <2>2. Told(p) = {} /\ Following(auth[p]) = {}
    BY <1>5
  <2> QED  BY <2>1, <2>2 DEF Pairs, Unveiled
<1>7. 0 \in 0..keys
  BY <1>2
<1>8. Order
  <2>1. DOMAIN <<>> = {}
    OBVIOUS
  <2>2. \A p \in Parties : InOrder(flight[p])
    BY <1>2, <2>1 DEF InOrder
  <2>3. \A p \in Parties : auth[p].our_dh \in 0..keys
    BY <1>2, <1>3, <1>7 DEF NoKey
  <2> QED  BY <1>4, <1>6, <2>2, <2>3, OtherParty DEF Order, Newest, Monotone, Frontier
<1>9. Roles /\ (\A p \in Parties : Founded(p)) /\ Together
  BY <1>2, <1>6 DEF Roles, Role, Founded, Together, Open
<1> QED  BY <1>8, <1>9 DEF Joined

LEMMA JoinedKept == AkeInv /\ AkeInv' /\ Joined /\ [AkeNext]_akeVars => Joined'
<1>1. ASSUME Joined, UNCHANGED akeVars PROVE Joined'
  <2>1. \A p \in Parties : Completed(p)' = Completed(p) /\ Told(p)' = Told(p)
    BY <1>1 DEF akeVars, Completed, Told, Members
  <2>2. \A p \in Parties : Pairs(p)' = Pairs(p) /\ Unveiled(p)' = Unveiled(p)
    BY <1>1, <2>1, OtherParty DEF akeVars, Pairs, Unveiled
  <2>3. Order'
    BY <1>1, <2>2 DEF akeVars, Joined, Order, InOrder, Newest, Monotone, Frontier, Members
  <2>4. Roles'
    BY <1>1, <2>1, <2>2 DEF akeVars, Joined, Roles, Role
  <2>5. (\A p \in Parties : Founded(p)') /\ Together'
    BY <1>1, <2>1 DEF akeVars, Joined, Founded, Together, Open
  <2> QED  BY <2>3, <2>4, <2>5 DEF Joined
<1>2. ASSUME AkeInv, AkeInv', Joined, NEW p \in Parties,
             \/ AkeDeliver(p)
             \/ AskForSession(p) \/ EndSession(p) \/ RestartParty(p) \/ LoseMessage(p)
      PROVE  Joined'
  BY <1>2, QueryJoined, CommitJoined, KeyJoined, RevealSigJoined, SignatureJoined,
     AskJoined, ForgetJoined, LoseJoined DEF AkeDeliver
<1> QED  BY <1>1, <1>2 DEF AkeNext

\* The order of keys and messages, who opened an exchange, and that two open
\* conversations of parties that are in no exchange are the same one, hold
\* throughout ...
THEOREM JoinedInvariant == AkeSpec => [](AkeInv /\ Joined)
<1>1. AkeInit => AkeInv /\ Joined
  BY InitAke, InitJoined
<1>2. (AkeInv /\ Joined) /\ [AkeNext]_akeVars => (AkeInv /\ Joined)'
  BY AkeKept, JoinedKept
<1>3. QED
  BY <1>1, <1>2, PTL DEF AkeSpec

\* ... so that parties who both settle with a conversation open have the same
\* one, whatever was lost, crossed, ended or restarted.
THEOREM SettledAgree == AkeSpec => []SettledTogether
<1>1. Joined => SettledTogether
  <2>1. SUFFICES ASSUME Joined, Settled, NEW p \in Parties, NEW q \in Parties, p # q,
                        session[p] # NoKeys, session[q] # NoKeys
                 PROVE  session[p] = <<session[q][2], session[q][1]>>
    BY DEF SettledTogether
  <2>2. q = Other(p) /\ Open(p) /\ Open(q)
    BY <2>1, OtherParty DEF Settled, Open
  <2> QED  BY <2>1, <2>2 DEF Joined, Together
<1>2. QED
  BY <1>1, JoinedInvariant, PTL

-----------------------------------------------------------------------------
(* That an exchange nothing disturbs concludes.  One message is under way   *)
(* at any time, and both parties are where it finds them ready.            *)

Single(p, m) == flight[p] = <<m>> /\ flight[Other(p)] = <<>>
Leaves(p, m) == flight'[p] = <<m>> /\ flight'[Other(p)] = <<>>
Opens(p) == auth[p].authstate = "dhkey" /\ auth[p].r = auth[p].our_dh
Answers(q, p) == auth[q].authstate = "revealsig" /\ auth[q].encgx = auth[p].our_dh

\* p was asked, ...
Queried(p) == \E m \in AkeMsg : m.type = "query" /\ Single(p, m)
\* ... has sent its commit, ...
Committed(p) == \E m \in AkeMsg :
    /\ m.type = "commit" /\ m.key = auth[p].our_dh /\ Single(Other(p), m)
    /\ Opens(p)
\* ... is sent the key of the other, ...
Answered(p) == \E m \in AkeMsg :
    /\ m.type = "key" /\ m.key = auth[Other(p)].our_dh /\ Single(p, m)
    /\ Opens(p) /\ Answers(Other(p), p)
\* ... has revealed its own, ...
Opened(p) == \E m \in AkeMsg :
    /\ m.type = "revealsig" /\ m.key = auth[p].our_dh
    /\ m.mac = <<auth[p].our_dh, auth[Other(p)].our_dh>> /\ Single(Other(p), m)
    /\ auth[p].authstate = "sig" /\ auth[p].their_pub = auth[Other(p)].our_dh
    /\ Answers(Other(p), p)
\* ... and is sent the signature of the other, who is done.
Signed(p) == \E m \in AkeMsg :
    /\ m.type = "signature" /\ m.mac = <<auth[p].their_pub, auth[p].our_dh>>
    /\ Single(p, m)
    /\ auth[p].authstate = "sig"
    /\ auth[Other(p)].authstate = "none" /\ session[Other(p)] # NoKeys
Concluded == Quiet /\ \A p \in Parties : auth[p].authstate = "none" /\ session[p] # NoKeys

Underway == undisturbed =>
    \/ Concluded
    \/ \E p \in Parties :
          Queried(p) \/ Committed(p) \/ Answered(p) \/ Opened(p) \/ Signed(p)

LEMMA Alone ==
  ASSUME Mail, NEW x \in Parties, NEW m \in AkeMsg, Single(x, m),
         NEW p \in Parties, flight[p] # <<>>
  PROVE  /\ p = x /\ Head(flight[p]) = m
         /\ Consume(p) => Quiet'
         /\ \A n \in AkeMsg : ConsumeAndSend(p, n) => Leaves(Other(p), n)
<1>1. /\ Other(x) \in Parties /\ Other(x) # x /\ Other(Other(x)) = x
      /\ \A r \in Parties : r = x \/ r = Other(x)
  BY OtherParty
<1>2. p = x
  BY <1>1 DEF Single
<1>3. Head(<<m>>) = m /\ Tail(<<m>>) = <<>> /\ \A n \in AkeMsg : Append(<<>>, n) = <<n>>
  OBVIOUS
<1>4. Consume(p) => Quiet'
  BY <1>1, <1>2, <1>3, QueueMoves DEF Quiet, Single
<1>5. ASSUME NEW n \in AkeMsg, ConsumeAndSend(p, n) PROVE Leaves(Other(p), n)
  <2>1. flight'[p] = Tail(flight[p]) /\ flight'[Other(p)] = Append(flight[Other(p)], n)
    BY <1>1, <1>2, <1>5, QueueMoves DEF Single
  <2>2. flight[p] = <<m>> /\ flight[Other(p)] = <<>>
    BY <1>2 DEF Single
  <2> QED  BY <1>1, <1>2, <1>3, <2>1, <2>2 DEF Leaves
<1> QED  BY <1>2, <1>3, <1>4, <1>5 DEF Single

\* What is under way when a message is handled: whose it is, and why.
LEMMA Handled ==
  ASSUME AkeInv, Underway, undisturbed, NEW p \in Parties, flight[p] # <<>>
  PROVE  \E m \in AkeMsg :
           /\ Single(p, m) /\ Head(flight[p]) = m
           /\ \/ m.type = "query"
              \/ /\ m.type = "commit" /\ m.key = auth[Other(p)].our_dh /\ Opens(Other(p))
              \/ /\ m.type = "key" /\ m.key = auth[Other(p)].our_dh
                 /\ Opens(p) /\ Answers(Other(p), p)
              \/ /\ m.type = "revealsig" /\ m.key = auth[Other(p)].our_dh
                 /\ m.mac = <<auth[Other(p)].our_dh, auth[p].our_dh>>
                 /\ auth[Other(p)].authstate = "sig"
                 /\ auth[Other(p)].their_pub = auth[p].our_dh
                 /\ Answers(p, Other(p))
              \/ /\ m.type = "signature" /\ m.mac = <<auth[p].their_pub, auth[p].our_dh>>
                 /\ auth[p].authstate = "sig"
                 /\ auth[Other(p)].authstate = "none" /\ session[Other(p)] # NoKeys
<1>1. PICK x \in Parties :
          Queried(x) \/ Committed(x) \/ Answered(x) \/ Opened(x) \/ Signed(x)
  BY DEF Underway, Concluded, Quiet
<1>2. Mail /\ Other(x) \in Parties /\ Other(Other(x)) = x
  BY OtherParty DEF AkeInv
<1>3. CASE Queried(x)
  BY <1>2, <1>3, Alone DEF Queried
<1>4. CASE Committed(x)
  <2>1. PICK m \in AkeMsg :
            /\ m.type = "commit" /\ m.key = auth[x].our_dh /\ Single(Other(x), m)
            /\ Opens(x)
    BY <1>4 DEF Committed
  <2>2. p = Other(x) /\ Head(flight[p]) = m /\ Other(p) = x
    BY <1>2, <2>1, Alone
  <2> QED  BY <2>1, <2>2
<1>5. CASE Answered(x)
  BY <1>2, <1>5, Alone DEF Answered
<1>6. CASE Opened(x)
  <2>1. PICK m \in AkeMsg :
            /\ m.type = "revealsig" /\ m.key = auth[x].our_dh
            /\ m.mac = <<auth[x].our_dh, auth[Other(x)].our_dh>> /\ Single(Other(x), m)
            /\ auth[x].authstate = "sig" /\ auth[x].their_pub = auth[Other(x)].our_dh
            /\ Answers(Other(x), x)
    BY <1>6 DEF Opened
  <2>2. p = Other(x) /\ Head(flight[p]) = m /\ Other(p) = x
    BY <1>2, <2>1, Alone
  <2> QED  BY <2>1, <2>2
<1>7. CASE Signed(x)
  BY <1>2, <1>7, Alone DEF Signed
<1> QED  BY <1>1, <1>3, <1>4, <1>5, <1>6, <1>7

LEMMA QueryUnderway ==
  ASSUME AkeInv, Underway, NEW p \in Parties, HandleQuery(p)
  PROVE  Underway'
<1> DEFINE gx == keys + 1
           commit == AkeMessage("commit", gx, NoKeys)
           a == Auth("dhkey", gx, gx, gx, NoKey, commit)
<1>1. /\ flight[p] # <<>> /\ Generates /\ ConsumeAndSend(p, commit)
      /\ auth' = [auth EXCEPT ![p] = a] /\ undisturbed' = undisturbed
  BY DEF HandleQuery, Received
<1>2. gx \in Key
  BY <1>1, FreshKey
<1>3. commit \in AkeMsg /\ commit.type = "commit" /\ commit.key = gx
  BY <1>2, MessageType, NoKeysType
<1>4. a.authstate = "dhkey" /\ a.our_dh = gx /\ a.r = gx
  BY DEF Auth
<1> HIDE DEF a, commit, gx
<1>5. auth'[p] = a
  BY <1>1, OneGoesOn
<1>6. ASSUME undisturbed PROVE Committed(p)'
  <2>1. Leaves(Other(p), commit)
    BY <1>1, <1>3, <1>6, Handled, Alone DEF AkeInv
  <2> QED  BY <1>3, <1>4, <1>5, <2>1 DEF Committed, Opens, Single, Leaves
<1> QED  BY <1>1, <1>6 DEF Underway

LEMMA CommitUnderway ==
  ASSUME AkeInv, Underway, NEW p \in Parties, HandleCommit(p)
  PROVE  Underway'
<1> DEFINE q == Other(p)
           gx == Head(flight[p]).key
           gy == keys + 1
           dhkey == AkeMessage("key", gy, NoKeys)
           a == Auth("revealsig", gy, NoKey, gx, NoKey, dhkey)
           b == [auth[p] EXCEPT !.encgx = gx]
<1>1. /\ flight[p] # <<>> /\ Head(flight[p]).type = "commit"
      /\ undisturbed' = undisturbed
      /\ q \in Parties /\ Other(q) = p
  BY OtherParty DEF HandleCommit, Received
<1>2. ASSUME undisturbed PROVE gx = auth[q].our_dh /\ Opens(q)
  BY <1>1, <1>2, Handled
<1>4. ASSUME undisturbed, NEW m \in AkeMsg, ConsumeAndSend(p, m)
      PROVE  Leaves(q, m)
  BY <1>1, <1>4, Handled, Alone DEF AkeInv
<1>5. CASE /\ Generates /\ ConsumeAndSend(p, dhkey)
           /\ auth' = [auth EXCEPT ![p] = a]
  <2>1. gy \in Key
    BY <1>5, FreshKey
  <2>2. dhkey \in AkeMsg /\ dhkey.type = "key" /\ dhkey.key = gy
    BY <2>1, MessageType, NoKeysType
  <2>3. a.authstate = "revealsig" /\ a.our_dh = gy /\ a.encgx = gx
    BY DEF Auth
  <2> HIDE DEF a, dhkey, gx, gy
  <2>4. auth'[p] = a /\ auth'[q] = auth[q]
    BY <1>5, OneGoesOn
  <2>5. ASSUME undisturbed PROVE Answered(q)'
    <3>1. /\ Opens(q)' /\ Answers(p, q)'
      BY <1>2, <2>3, <2>4, <2>5 DEF Opens, Answers
    <3>2. Leaves(q, dhkey)
      BY <1>4, <1>5, <2>2, <2>5
    <3> QED  BY <1>1, <2>2, <2>3, <2>4, <3>1, <3>2 DEF Answered, Single, Leaves
  <2> QED  BY <1>1, <2>5 DEF Underway
<1>6. CASE /\ auth[p].authstate = "revealsig" /\ UNCHANGED keys
           /\ auth' = [auth EXCEPT ![p] = b]
           /\ ConsumeAndSend(p, auth[p].lastauthmsg)
  <2> DEFINE m == auth[p].lastauthmsg
  <2>1. b.authstate = "revealsig" /\ b.our_dh = auth[p].our_dh /\ b.encgx = gx
    BY <1>6, Partner DEF AuthInfo
  <2>2. m \in AkeMsg /\ m.type = "key" /\ m.key = auth[p].our_dh
    <3>1. m \in AkeMsg /\ m = AkeMessage("key", auth[p].our_dh, NoKeys)
      BY <1>6, Partner DEF Resendable
    <3> QED  BY <3>1 DEF AkeMessage
  <2> HIDE DEF b, gx, m
  <2>3. auth'[p] = b /\ auth'[q] = auth[q]
    BY <1>6, OneGoesOn
  <2>4. ASSUME undisturbed PROVE Answered(q)'
    <3>1. /\ Opens(q)' /\ Answers(p, q)'
      BY <1>2, <2>1, <2>3, <2>4 DEF Opens, Answers
    <3>2. Leaves(q, m)
      BY <1>4, <1>6, <2>2, <2>4 DEF m
    <3> QED  BY <1>1, <2>1, <2>2, <2>3, <3>1, <3>2 DEF Answered, Single, Leaves
  <2> QED  BY <1>1, <2>4 DEF Underway
<1> QED  BY <1>5, <1>6 DEF HandleCommit

LEMMA KeyUnderway ==
  ASSUME AkeInv, Underway, NEW p \in Parties, HandleKey(p)
  PROVE  Underway'
<1> DEFINE q == Other(p)
           gy == Head(flight[p]).key
           reveal == AkeMessage("revealsig", auth[p].r, <<auth[p].our_dh, gy>>)
           a == Auth("sig", auth[p].our_dh, auth[p].r, auth[p].encgx, gy, reveal)
<1>1. /\ flight[p] # <<>> /\ Head(flight[p]).type = "key"
      /\ undisturbed' = undisturbed
      /\ q \in Parties /\ Other(q) = p
  BY OtherParty DEF HandleKey, Received
<1>2. SUFFICES ASSUME undisturbed PROVE Underway'
  BY <1>1 DEF Underway
<1>3. gy = auth[q].our_dh /\ Opens(p) /\ Answers(q, p)
  BY <1>1, <1>2, Handled
<1>4. ASSUME NEW m \in AkeMsg, ConsumeAndSend(p, m) PROVE Leaves(q, m)
  BY <1>1, <1>2, <1>4, Handled, Alone DEF AkeInv
<1>5. auth' = [auth EXCEPT ![p] = a] /\ ConsumeAndSend(p, reveal)
  BY <1>3 DEF HandleKey, Opens
<1>6. gy \in Key
  BY <1>1, HeadFits DEF AkeInv, Fits
<1>7. <<auth[p].our_dh, gy>> \in Pair
  BY <1>6, Partner DEF Pair
<1>8. /\ reveal \in AkeMsg /\ reveal.type = "revealsig" /\ reveal.key = auth[p].r
      /\ reveal.mac = <<auth[p].our_dh, gy>>
  BY <1>7, Partner, MessageType
<1>9. a.authstate = "sig" /\ a.our_dh = auth[p].our_dh /\ a.their_pub = gy
  BY DEF Auth
<1> HIDE DEF a, reveal, gy
<1>10. auth'[p] = a /\ auth'[q] = auth[q]
  BY <1>5, OneGoesOn
<1>11. Answers(q, p)' /\ Leaves(q, reveal)
  BY <1>3, <1>4, <1>5, <1>8, <1>9, <1>10 DEF Answers
<1>12. Opened(p)'
  BY <1>3, <1>8, <1>9, <1>10, <1>11 DEF Opened, Opens, Single, Leaves
<1> QED  BY <1>12 DEF Underway

LEMMA RevealSigUnderway ==
  ASSUME AkeInv, Underway, NEW p \in Parties, HandleRevealSig(p)
  PROVE  Underway'
<1> DEFINE q == Other(p)
           m == Head(flight[p])
           a == [auth[p] EXCEPT !.r = m.key]
           signature == AkeMessage("signature", NoKey, <<a.our_dh, a.encgx>>)
           done == Auth("none", a.our_dh, a.r, a.encgx, a.encgx, signature)
<1>1. /\ flight[p] # <<>> /\ m.type = "revealsig" /\ undisturbed' = undisturbed
      /\ q \in Parties /\ Other(q) = p /\ p # q
  BY OtherParty DEF HandleRevealSig, Received
<1>2. SUFFICES ASSUME undisturbed PROVE Underway'
  BY <1>1 DEF Underway
<1>3. /\ m.key = auth[q].our_dh /\ m.mac = <<auth[q].our_dh, auth[p].our_dh>>
      /\ auth[q].authstate = "sig" /\ auth[q].their_pub = auth[p].our_dh
      /\ Answers(p, q)
  BY <1>1, <1>2, Handled
<1>4. ASSUME NEW n \in AkeMsg, ConsumeAndSend(p, n) PROVE Leaves(q, n)
  BY <1>1, <1>2, <1>4, Handled, Alone DEF AkeInv
<1>5. /\ a.authstate = "revealsig" /\ a.our_dh = auth[p].our_dh
      /\ a.encgx = auth[q].our_dh /\ a.r = auth[q].our_dh
  BY <1>3, Partner DEF AuthInfo, Answers
<1>6. /\ auth' = [auth EXCEPT ![p] = done] /\ ConsumeAndSend(p, signature)
      /\ GoEncrypted(p, a.our_dh, a.encgx, "second")
  <2>1. SamePair(m.mac, a.our_dh, a.encgx)
    BY <1>3, <1>5 DEF SamePair
  <2> QED  BY <1>5, <2>1 DEF HandleRevealSig
<1>7. a.encgx \in Key /\ a.our_dh \in Key
  <2>1. auth[p].authstate = "revealsig" /\ auth[p].encgx = a.encgx
    BY <1>3, <1>5 DEF Answers
  <2> QED  BY <1>5, <2>1, Partner DEF Holding
<1>8. <<a.our_dh, a.encgx>> \in Pair /\ NoKey \in Key \cup {NoKey}
  BY <1>7 DEF Pair
<1>9. /\ signature \in AkeMsg /\ signature.type = "signature"
      /\ signature.mac = <<a.our_dh, a.encgx>>
  BY <1>8, MessageType
<1>10. done.authstate = "none"
  BY DEF Auth
<1> HIDE DEF a, signature, done, m
<1>11. auth'[p] = done /\ auth'[q] = auth[q]
  BY <1>6, OneGoesOn
<1>12. session'[p] # NoKeys
  <2>1. session'[p] = <<a.our_dh, a.encgx>>
    BY <1>6 DEF GoEncrypted, AkeInv, Rest
  <2> QED  BY <1>7, <2>1, KeyNumbers DEF NoKeys
<1>13. Leaves(q, signature)
  BY <1>4, <1>6, <1>9
<1>14. Signed(q)'
  BY <1>1, <1>3, <1>5, <1>9, <1>10, <1>11, <1>12, <1>13 DEF Signed, Single, Leaves
<1> QED  BY <1>1, <1>14 DEF Underway

LEMMA SignatureUnderway ==
  ASSUME AkeInv, Underway, NEW p \in Parties, HandleSignature(p)
  PROVE  Underway'
<1> DEFINE q == Other(p)
           ours == auth[p].our_dh
           theirs == auth[p].their_pub
           a == Auth("none", ours, auth[p].r, auth[p].encgx, theirs, NoMessage)
<1>1. /\ flight[p] # <<>> /\ Head(flight[p]).type = "signature" /\ Consume(p)
      /\ undisturbed' = undisturbed
      /\ q \in Parties /\ p # q /\ \A r \in Parties : r = p \/ r = q
  BY OtherParty DEF HandleSignature, Received
<1>2. SUFFICES ASSUME undisturbed PROVE Underway'
  BY <1>1 DEF Underway
<1>3. /\ Head(flight[p]).mac = <<theirs, ours>> /\ auth[p].authstate = "sig"
      /\ auth[q].authstate = "none" /\ session[q] # NoKeys
  BY <1>1, <1>2, Handled
<1>4. Quiet'
  BY <1>1, <1>2, Handled, Alone DEF AkeInv
<1>5. auth' = [auth EXCEPT ![p] = a] /\ GoEncrypted(p, ours, theirs, "first")
  BY <1>3 DEF HandleSignature, SamePair
<1>6. a.authstate = "none"
  BY DEF Auth
<1>7. ours \in Key
  BY <1>3, Partner
<1> HIDE DEF a
<1>8. auth'[p] = a /\ auth'[q] = auth[q]
  BY <1>5, OneGoesOn
<1>9. session'[p] = <<ours, theirs>> /\ session'[q] = session[q]
  BY <1>1, <1>5 DEF GoEncrypted, AkeInv, Rest
<1>10. session'[p] # NoKeys
  BY <1>7, <1>9, KeyNumbers DEF NoKeys
<1>11. Concluded'
  BY <1>1, <1>3, <1>4, <1>6, <1>8, <1>9, <1>10 DEF Concluded
<1> QED  BY <1>11 DEF Underway

LEMMA AskUnderway ==
  ASSUME AkeInv, NEW p \in Parties, AskForSession(p)
  PROVE  Underway'
<1> DEFINE q == Other(p)
           query == AkeMessage("query", NoKey, NoKeys)
<1>1. /\ flight' = [flight EXCEPT ![q] = Append(flight[q], query)]
      /\ undisturbed' = Quiet
      /\ q \in Parties /\ Other(q) = p /\ p # q
  BY OtherParty DEF AskForSession
<1>2. query \in AkeMsg /\ query.type = "query"
  BY NoKeysType, MessageType
<1> HIDE DEF query
<1>3. Quiet => Leaves(q, query)
  <2>1. Append(<<>>, query) = <<query>>
    OBVIOUS
  <2> QED  BY <1>1, <2>1 DEF Quiet, Leaves, AkeInv, Mail
<1> QED  BY <1>1, <1>2, <1>3 DEF Underway, Queried, Single, Leaves

LEMMA UnderwayKept == AkeInv /\ Underway /\ [AkeNext]_akeVars => Underway'
<1>1. ASSUME Underway, UNCHANGED akeVars PROVE Underway'
  BY <1>1 DEF akeVars, Underway, Concluded, Quiet, Queried, Committed, Answered, Opened,
              Signed, Single, Opens, Answers
<1>2. ASSUME NEW p \in Parties, EndSession(p) \/ RestartParty(p) \/ LoseMessage(p)
      PROVE  Underway'
  BY <1>2 DEF EndSession, RestartParty, LoseMessage, Underway
<1>3. ASSUME AkeInv, Underway, NEW p \in Parties,
             \/ AkeDeliver(p)
             \/ AskForSession(p) \/ EndSession(p) \/ RestartParty(p) \/ LoseMessage(p)
      PROVE  Underway'
  BY <1>2, <1>3, QueryUnderway, CommitUnderway, KeyUnderway, RevealSigUnderway,
     SignatureUnderway, AskUnderway DEF AkeDeliver
<1> QED  BY <1>1, <1>3 DEF AkeNext

\* An exchange asked for with nothing in flight, from whatever state the
\* parties were left in, is the only one until it is disturbed, and ends with
\* a conversation on both sides when its messages have arrived.
THEOREM ExchangeHolds == AkeSpec => []ExchangeConcludes
<1>1. AkeInit => Underway
  BY DEF AkeInit, Underway
<1>2. Underway => ExchangeConcludes
  <2>1. SUFFICES ASSUME Underway, undisturbed, Quiet PROVE Concluded
    BY <2>1 DEF ExchangeConcludes, Concluded, Settled
  <2>2. ASSUME NEW p \in Parties, NEW m, Single(p, m) \/ Single(Other(p), m) PROVE FALSE
    <3>1. <<m>> # <<>>
      OBVIOUS
    <3> QED  BY <2>1, <2>2, <3>1, OtherParty DEF Quiet, Single
  <2> QED  BY <2>1, <2>2 DEF Underway, Queried, Committed, Answered, Opened, Signed
<1>3. QED
  BY <1>1, <1>2, UnderwayKept, AkeInvariant, PTL DEF AkeSpec

-----------------------------------------------------------------------------
(* The comparison of secrets.                                              *)
(*                                                                         *)
(* The argument goes by who drew an exponent (own) and what for: in answer *)
(* to which exponent of the other side, or to ask (re).  The history of    *)
(* the draws is not a variable; some history fits.                         *)

Draw == [Exponent -> Users]
Cause == [Exponent -> Exponent \cup {NoExponent}]

\* The bytes compared of what was typed.
Bytes(t) == IF t = Untyped THEN NoSecret ELSE Code(t)

\* e was drawn by p to ask, and f by the other in answer.
PairOfRun(own, re, p, e, f) ==
    /\ e \in 1..exponents /\ f \in 1..exponents
    /\ own[e] = p /\ own[f] = Contact(p)
    /\ re[e] = NoExponent /\ re[f] = e

\* Generators with the exponent of a side that waits for an answer are of an
\* answer to it.
GensOK(own, re, G) ==
    /\ G \subseteq 1..exponents
    /\ \A p \in Users : smp[p].nextExpected = 2 /\ smp[p].x \in G =>
          \E f \in G : G = {smp[p].x, f} /\ PairOfRun(own, re, p, smp[p].x, f)

\* One user has asked and the other has answered, and v is whether what they
\* typed is the same bytes.
Compared(own, p, G, v) ==
    \E a, b \in 1..exponents :
       /\ G = {a, b} /\ own[a] = p /\ own[b] = Contact(p)
       /\ Bytes(typed[p][a]) # NoSecret /\ Bytes(typed[Contact(p)][b]) # NoSecret
       /\ v = (Bytes(typed[p][a]) = Bytes(typed[Contact(p)][b]))
       /\ {typed[p][a].to, typed[Contact(p)][b].to} = {"ask", "answer"}

StateOK(own, re, p) ==
    LET s == smp[p]
        q == Contact(p)
    IN  /\ s.x # NoExponent => s.x \in 1..exponents /\ own[s.x] = p
        /\ GensOK(own, re, s.gens)
        /\ s.nextExpected = 2 => /\ s.x # NoExponent /\ re[s.x] = NoExponent
                                 /\ Bytes(typed[p][s.x]) = s.secret /\ s.secret # NoSecret
        /\ s.nextExpected = 3 => \A f \in s.gens :
              own[f] = p /\ re[f] # NoExponent /\ Bytes(typed[p][f]) # NoSecret => s.secret = Bytes(typed[p][f])
        /\ s.nextExpected = 4 => \E f \in s.gens :
              /\ s.gens = {s.x, f} /\ PairOfRun(own, re, p, s.x, f)
              /\ Bytes(typed[p][s.x]) # NoSecret /\ Bytes(typed[q][f]) # NoSecret
              /\ s.match = (Bytes(typed[p][s.x]) = Bytes(typed[q][f]))
        /\ s.prog # "ok" => Compared(own, p, s.gens, s.prog = "succeeded")
        /\ asked[p] => \A f \in s.gens \cup {s.x} :
              f # NoExponent /\ own[f] = p /\ re[f] # NoExponent => Bytes(typed[p][f]) = NoSecret

\* A message on its way to p.
MsgOK(own, re, p, m) ==
    LET q == Contact(p)
    IN  /\ GensOK(own, re, m.gens)
        /\ m.type = "smp1" => m.x \in 1..exponents /\ own[m.x] = q /\ re[m.x] = NoExponent
        /\ m.type = "smp2" =>
              /\ m.x \in 1..exponents /\ own[m.x] = q
              /\ ~(smp[q].nextExpected = 2 /\ smp[q].x = m.x)
              /\ re[m.x] # NoExponent => Bytes(typed[q][m.x]) = m.secret /\ m.secret # NoSecret
        /\ m.type = "smp3" => \E e, f \in m.gens :
              /\ m.gens = {e, f} /\ PairOfRun(own, re, q, e, f)
              /\ Bytes(typed[p][f]) # NoSecret
              /\ Bytes(typed[q][e]) = m.secret /\ m.secret # NoSecret

LineOK(own, re, p, w) ==
    w \in Seq(SMPMessage) /\ \A i \in DOMAIN w : MsgOK(own, re, p, w[i])

\* A user types for exponents of his own, to ask for one he drew to ask, and
\* has typed for each of these.
TypedOK(own, re) ==
    /\ \A p \in Users : \A x \in Exponent : Bytes(typed[p][x]) # NoSecret =>
          /\ x \in 1..exponents /\ own[x] = p
          /\ typed[p][x].to = IF re[x] = NoExponent THEN "ask" ELSE "answer"
    /\ \A p \in Users : \A x \in 1..exponents :
          own[x] = p /\ re[x] = NoExponent => Bytes(typed[p][x]) # NoSecret

VerdictsOK(own, p, w) ==
    \A i \in DOMAIN w : w[i].run # {} => Compared(own, p, w[i].run, w[i].verdict)

SmpTypes ==
    /\ smp \in [Users -> SMState]
    /\ asked \in [Users -> BOOLEAN] /\ trust \in [Users -> BOOLEAN]
    /\ line \in [Users -> Seq(SMPMessage)]
    /\ exponents \in 0..MaxExponents
    /\ told \in [Users -> Seq([run : SUBSET Exponent, verdict : BOOLEAN])]
    /\ typed \in [Users -> [Exponent -> Typing \cup {Untyped}]]
    /\ smooth \in BOOLEAN /\ crossed \in BOOLEAN

Explains(own, re) ==
    /\ TypedOK(own, re)
    /\ \A p \in Users : /\ StateOK(own, re, p) /\ LineOK(own, re, p, line[p])
                        /\ VerdictsOK(own, p, told[p])

SmpInv == SmpTypes /\ \E own \in Draw, re \in Cause : Explains(own, re)

-----------------------------------------------------------------------------

LEMMA ContactFacts ==
  ASSUME NEW p \in Users
  PROVE  /\ Contact(p) \in Users /\ Contact(p) # p /\ Contact(Contact(p)) = p
         /\ \A q \in Users : q = p \/ q = Contact(p)
<1>1. PICK a, b \in Users : a # b /\ Users = {a, b}
  BY UsersAssumption
<1>2. \A q \in Users : Contact(q) \in Users /\ Contact(q) # q
  <2>1. ASSUME NEW q \in Users PROVE \E r \in Users : r # q
    BY <1>1
  <2> QED  BY <2>1 DEF Contact
<1> QED  BY <1>1, <1>2

LEMMA ExponentFacts ==
  /\ \A x \in Exponent : x # NoExponent
  /\ SmpTypes => 1..exponents \subseteq Exponent /\ exponents \in Nat
<1>1. \A x \in Exponent : x # NoExponent
  BY SmpBoundsAssumption DEF Exponent, NoExponent
<1>2. ASSUME SmpTypes PROVE 1..exponents \subseteq Exponent /\ exponents \in Nat
  BY <1>2, SmpBoundsAssumption DEF SmpTypes, Exponent
<1> QED  BY <1>1, <1>2

LEMMA BytesFacts ==
  /\ Bytes(Untyped) = NoSecret
  /\ \A t \in Typing : Bytes(t) = Code(t) /\ t.to # "none"
  /\ \A text \in Secrets :
        /\ [to |-> "ask", text |-> text] \in Typing
        /\ Bytes([to |-> "ask", text |-> text]) = ToAscii[text]
        /\ ToAscii[text] \in Codes /\ ToAscii[text] # NoSecret
        /\ [to |-> "answer", text |-> text] \in Typing
        /\ Bytes([to |-> "answer", text |-> text]) = ToUtf8[text]
        /\ ToUtf8[text] \in Codes /\ ToUtf8[text] # NoSecret
<1>1. Bytes(Untyped) = NoSecret
  BY DEF Bytes
<1>2. ASSUME NEW t \in Typing PROVE Bytes(t) = Code(t) /\ t.to # "none"
  <2>1. t.to # "none" /\ Untyped.to = "none"
    BY DEF Typing, Untyped
  <2> QED  BY <2>1 DEF Bytes
<1>3. ASSUME NEW text \in Secrets, NEW to \in {"ask", "answer"},
             NEW t, t = [to |-> to, text |-> text]
      PROVE  /\ t \in Typing /\ Code(t) \in Codes
             /\ Code(t) = IF to = "ask" THEN ToAscii[text] ELSE ToUtf8[text]
  BY <1>3 DEF Typing, Code, Codes
<1>4. \A text \in Secrets : ToAscii[text] # NoSecret /\ ToUtf8[text] # NoSecret
  BY SecretsAssumption DEF NoSecret
<1>5. "ask" \in {"ask", "answer"} /\ "answer" \in {"ask", "answer"} /\ "ask" # "answer"
  OBVIOUS
<1> QED  BY <1>1, <1>2, <1>3, <1>4, <1>5

LEMMA BytesCompared ==
  \A t \in Typing \cup {Untyped} : Bytes(t) = NoSecret <=> t = Untyped
<1>1. ASSUME NEW t \in Typing PROVE Bytes(t) # NoSecret
  <2>1. t.text \in Secrets /\ Code(t) \in {ToAscii[t.text], ToUtf8[t.text]}
    BY DEF Typing, Code
  <2> QED  BY <2>1, BytesFacts
<1>2. \A t \in Typing : t # Untyped
  BY DEF Typing, Untyped
<1> QED  BY <1>1, <1>2, BytesFacts

\* What was drawn and typed stays, and a side begins to wait with an exponent
\* that is new.
Later(own, re, own2, re2) ==
    /\ exponents \in Nat /\ exponents' \in Nat /\ exponents <= exponents'
    /\ \A x \in 1..exponents : own2[x] = own[x] /\ re2[x] = re[x]
    /\ \A p \in Users : \A x \in 1..exponents :
          Bytes(typed[p][x]) # NoSecret => typed'[p][x] = typed[p][x]
    /\ \A p \in Users : smp'[p].nextExpected = 2 =>
          \/ smp[p].nextExpected = 2 /\ smp'[p].x = smp[p].x
          \/ smp'[p].x \notin 1..exponents

LEMMA PairLater ==
  ASSUME NEW own, NEW re, NEW own2, NEW re2, Later(own, re, own2, re2),
         NEW p \in Users, NEW e, NEW f, PairOfRun(own, re, p, e, f)
  PROVE  PairOfRun(own2, re2, p, e, f)'
<1>1. 1..exponents \subseteq 1..exponents'
  BY DEF Later
<1> QED  BY <1>1 DEF Later, PairOfRun

LEMMA GensLater ==
  ASSUME NEW own, NEW re, NEW own2, NEW re2, Later(own, re, own2, re2),
         NEW G, GensOK(own, re, G)
  PROVE  GensOK(own2, re2, G)'
<1>1. G \subseteq 1..exponents /\ 1..exponents \subseteq 1..exponents'
  BY DEF Later, GensOK
<1>2. ASSUME NEW p \in Users, NEW e \in G, smp'[p].nextExpected = 2, smp'[p].x = e
      PROVE  \E f \in G : G = {e, f} /\ PairOfRun(own2, re2, p, e, f)'
  <2>1. smp[p].nextExpected = 2 /\ smp[p].x = e
    BY <1>1, <1>2 DEF Later
  <2>2. PICK f \in G : G = {e, f} /\ PairOfRun(own, re, p, e, f)
    BY <2>1 DEF GensOK
  <2>3. PairOfRun(own2, re2, p, e, f)'
    BY <2>2, PairLater
  <2> QED  BY <2>2, <2>3
<1>3. \A p \in Users : smp'[p].nextExpected = 2 /\ smp'[p].x \in G =>
         \E f \in G : /\ G = {smp'[p].x, f} /\ smp'[p].x \in 1..exponents'
                      /\ f \in 1..exponents' /\ own2[smp'[p].x] = p /\ own2[f] = Contact(p)
                      /\ re2[smp'[p].x] = NoExponent /\ re2[f] = smp'[p].x
  <2> TAKE p \in Users
  <2> HAVE smp'[p].nextExpected = 2 /\ smp'[p].x \in G
  <2>1. PICK e \in G : smp'[p].x = e
    OBVIOUS
  <2>2. PICK f \in G : G = {e, f} /\ PairOfRun(own2, re2, p, e, f)'
    BY <1>2, <2>1
  <2> QED  BY <2>1, <2>2 DEF PairOfRun
<1> QED  BY <1>1, <1>3 DEF GensOK, PairOfRun

LEMMA ComparedLater ==
  ASSUME NEW own, NEW re, NEW own2, NEW re2, Later(own, re, own2, re2),
         NEW p \in Users, NEW G, NEW v, Compared(own, p, G, v)
  PROVE  Compared(own2, p, G, v)'
<1>1. PICK a, b \in 1..exponents :
         /\ G = {a, b} /\ own[a] = p /\ own[b] = Contact(p)
         /\ Bytes(typed[p][a]) # NoSecret /\ Bytes(typed[Contact(p)][b]) # NoSecret
         /\ v = (Bytes(typed[p][a]) = Bytes(typed[Contact(p)][b]))
         /\ {typed[p][a].to, typed[Contact(p)][b].to} = {"ask", "answer"}
  BY DEF Compared
<1>2. 1..exponents \subseteq 1..exponents' /\ Contact(p) \in Users
  BY ContactFacts DEF Later
<1>3. /\ own2[a] = own[a] /\ own2[b] = own[b] /\ typed'[p][a] = typed[p][a]
      /\ typed'[Contact(p)][b] = typed[Contact(p)][b]
  BY <1>1, <1>2 DEF Later
<1> QED  BY <1>1, <1>2, <1>3 DEF Compared

LEMMA MsgLater ==
  ASSUME NEW own, NEW re, NEW own2, NEW re2, Later(own, re, own2, re2),
         NEW p \in Users, NEW m, MsgOK(own, re, p, m)
  PROVE  MsgOK(own2, re2, p, m)'
<1> DEFINE q == Contact(p)
<1>1. q \in Users
  BY ContactFacts
<1> HIDE DEF q
<1>2. 1..exponents \subseteq 1..exponents'
  BY DEF Later
<1>3. GensOK(own2, re2, m.gens)'
  BY GensLater DEF MsgOK
<1>4. ASSUME m.type = "smp1"
      PROVE  m.x \in 1..exponents' /\ own2[m.x] = q /\ re2[m.x] = NoExponent
  <2>1. m.x \in 1..exponents /\ own[m.x] = q /\ re[m.x] = NoExponent
    BY <1>4 DEF MsgOK, q
  <2> QED  BY <1>2, <2>1 DEF Later
<1>5. ASSUME m.type = "smp2"
      PROVE  /\ m.x \in 1..exponents' /\ own2[m.x] = q
             /\ ~(smp'[q].nextExpected = 2 /\ smp'[q].x = m.x)
             /\ re2[m.x] # NoExponent => Bytes(typed'[q][m.x]) = m.secret /\ m.secret # NoSecret
  <2>1. /\ m.x \in 1..exponents /\ own[m.x] = q
        /\ ~(smp[q].nextExpected = 2 /\ smp[q].x = m.x)
        /\ re[m.x] # NoExponent => Bytes(typed[q][m.x]) = m.secret /\ m.secret # NoSecret
    BY <1>5 DEF MsgOK, q
  <2>2. own2[m.x] = own[m.x] /\ re2[m.x] = re[m.x]
    BY <2>1 DEF Later
  <2>3. ~(smp'[q].nextExpected = 2 /\ smp'[q].x = m.x)
    BY <1>1, <2>1 DEF Later
  <2>4. re2[m.x] # NoExponent => Bytes(typed'[q][m.x]) = m.secret /\ m.secret # NoSecret
    BY <1>1, <2>1, <2>2 DEF Later
  <2> QED  BY <1>2, <2>1, <2>2, <2>3, <2>4
<1>6. ASSUME m.type = "smp3"
      PROVE  \E e, f \in m.gens :
              /\ m.gens = {e, f} /\ PairOfRun(own2, re2, q, e, f)'
              /\ Bytes(typed'[p][f]) # NoSecret
              /\ Bytes(typed'[q][e]) = m.secret /\ m.secret # NoSecret
  <2>1. PICK e, f \in m.gens :
              /\ m.gens = {e, f} /\ PairOfRun(own, re, q, e, f)
              /\ Bytes(typed[p][f]) # NoSecret
              /\ Bytes(typed[q][e]) = m.secret /\ m.secret # NoSecret
    BY <1>6 DEF MsgOK, q
  <2>2. PairOfRun(own2, re2, q, e, f)'
    BY <1>1, <2>1, PairLater
  <2>3. e \in 1..exponents /\ f \in 1..exponents
    BY <2>1 DEF PairOfRun
  <2>4. Bytes(typed'[p][f]) = Bytes(typed[p][f]) /\ Bytes(typed'[q][e]) = Bytes(typed[q][e])
    BY <1>1, <2>1, <2>3 DEF Later
  <2> QED  BY <2>1, <2>2, <2>4
<1> QED  BY <1>3, <1>4, <1>5, <1>6 DEF MsgOK, q

LEMMA LineLater ==
  ASSUME NEW own, NEW re, NEW own2, NEW re2, Later(own, re, own2, re2),
         NEW p \in Users, NEW w, LineOK(own, re, p, w)
  PROVE  LineOK(own2, re2, p, w)'
  BY MsgLater DEF LineOK

\* The other side's state.
LEMMA StateLater ==
  ASSUME NEW own, NEW re, NEW own2, NEW re2, Later(own, re, own2, re2),
         NEW p \in Users, StateOK(own, re, p), smp'[p] = smp[p], asked'[p] = asked[p],
         typed'[p] = typed[p]
  PROVE  StateOK(own2, re2, p)'
<1> DEFINE q == Contact(p)
           s == smp[p]
<1>1. q \in Users
  BY ContactFacts
<1>2. PICK t : t = s
  OBVIOUS
<1> HIDE DEF q, s
<1>3. smp[p] = t /\ smp'[p] = t
  BY <1>2 DEF s
<1>4. 1..exponents \subseteq 1..exponents'
  BY DEF Later
<1>5. t.gens \subseteq 1..exponents
  BY <1>3 DEF StateOK, GensOK
<1>6. t.x # NoExponent => t.x \in 1..exponents' /\ own2[t.x] = p
  BY <1>3, <1>4 DEF StateOK, Later
<1>7. GensOK(own2, re2, t.gens)'
  BY <1>3, GensLater DEF StateOK
<1>8. t.nextExpected = 2 => /\ t.x # NoExponent /\ re2[t.x] = NoExponent
                            /\ Bytes(typed'[p][t.x]) = t.secret /\ t.secret # NoSecret
  BY <1>3 DEF StateOK, Later
<1>9. t.nextExpected = 3 => \A f \in t.gens :
              own2[f] = p /\ re2[f] # NoExponent /\ Bytes(typed'[p][f]) # NoSecret => t.secret = Bytes(typed'[p][f])
  BY <1>3, <1>5 DEF StateOK, Later
<1>10. ASSUME t.nextExpected = 4
       PROVE  \E f \in t.gens :
              /\ t.gens = {t.x, f} /\ PairOfRun(own2, re2, p, t.x, f)'
              /\ Bytes(typed'[p][t.x]) # NoSecret /\ Bytes(typed'[q][f]) # NoSecret
              /\ t.match = (Bytes(typed'[p][t.x]) = Bytes(typed'[q][f]))
  <2>1. PICK f \in t.gens :
              /\ t.gens = {t.x, f} /\ PairOfRun(own, re, p, t.x, f)
              /\ Bytes(typed[p][t.x]) # NoSecret /\ Bytes(typed[q][f]) # NoSecret
              /\ t.match = (Bytes(typed[p][t.x]) = Bytes(typed[q][f]))
    BY <1>3, <1>10 DEF StateOK, q
  <2>2. Bytes(typed'[q][f]) = Bytes(typed[q][f])
    BY <1>1, <1>5, <2>1 DEF Later
  <2> QED  BY <2>1, <2>2, PairLater
<1>11. t.prog # "ok" => Compared(own2, p, t.gens, t.prog = "succeeded")'
  BY <1>3, ComparedLater DEF StateOK
<1>12. asked[p] => \A f \in t.gens \cup {t.x} :
              f # NoExponent /\ own2[f] = p /\ re2[f] # NoExponent => Bytes(typed'[p][f]) = NoSecret
  <2>1. \A f \in t.gens \cup {t.x} : f # NoExponent => f \in 1..exponents
    BY <1>3, <1>5 DEF StateOK
  <2> QED  BY <1>3, <2>1 DEF StateOK, Later
<1> QED  BY <1>3, <1>6, <1>7, <1>8, <1>9, <1>10, <1>11, <1>12 DEF StateOK, q

LEMMA VerdictsLater ==
  ASSUME NEW own, NEW re, NEW own2, NEW re2, Later(own, re, own2, re2),
         NEW p \in Users, NEW w, VerdictsOK(own, p, w)
  PROVE  VerdictsOK(own2, p, w)'
  BY ComparedLater DEF VerdictsOK

-----------------------------------------------------------------------------

LEMMA LinesTaken ==
  ASSUME NEW own, NEW re, NEW own2, NEW re2, Later(own, re, own2, re2), SmpTypes,
         \A r \in Users : LineOK(own, re, r, line[r]),
         NEW p \in Users, line[p] # <<>>, Take(p)
  PROVE  /\ \A r \in Users : LineOK(own2, re2, r, line[r])'
         /\ line' \in [Users -> Seq(SMPMessage)]
<1>1. line \in [Users -> Seq(SMPMessage)]
  BY DEF SmpTypes
<1>2. line' = [line EXCEPT ![p] = Tail(@)]
  BY DEF Take
<1>3. ASSUME NEW r \in Users, NEW w, w = line'[r] PROVE LineOK(own2, re2, r, w)'
  <2>1. PICK v : v = line[r]
    OBVIOUS
  <2>2. v \in Seq(SMPMessage) /\ LineOK(own, re, r, v)
    BY <1>1, <2>1
  <2>3. LineOK(own2, re2, r, v)'
    BY <2>2, LineLater
  <2>4. CASE r = p
    <3>1. w = Tail(v) /\ v # <<>>
      BY <1>1, <1>2, <1>3, <2>1, <2>4
    <3>2. w \in Seq(SMPMessage) /\ \A i \in DOMAIN w : i + 1 \in DOMAIN v /\ w[i] = v[i + 1]
      BY <2>2, <3>1
    <3> QED  BY <2>3, <3>2 DEF LineOK
  <2>5. CASE r # p
    BY <1>1, <1>2, <1>3, <2>1, <2>3, <2>5
  <2> QED  BY <2>4, <2>5
<1>4. \A r \in Users : LineOK(own2, re2, r, line[r])'
  <2> TAKE r \in Users
  <2>1. PICK w : w = line'[r]
    OBVIOUS
  <2>2. LineOK(own2, re2, r, w)'
    BY <1>3, <2>1
  <2> QED  BY <2>1, <2>2 DEF LineOK
<1>5. Tail(line[p]) \in Seq(SMPMessage)
  BY <1>1
<1> QED  BY <1>1, <1>2, <1>4, <1>5

LEMMA LinesSent ==
  ASSUME NEW own, NEW re, NEW own2, NEW re2, Later(own, re, own2, re2), SmpTypes,
         \A r \in Users : LineOK(own, re, r, line[r]),
         NEW p \in Users, NEW m \in SMPMessage, MsgOK(own2, re2, Contact(p), m)', Send(p, m)
  PROVE  /\ \A r \in Users : LineOK(own2, re2, r, line[r])'
         /\ line' \in [Users -> Seq(SMPMessage)]
<1> DEFINE q == Contact(p)
<1>0. q \in Users /\ MsgOK(own2, re2, q, m)'
  BY ContactFacts
<1>1. line \in [Users -> Seq(SMPMessage)]
  BY DEF SmpTypes
<1>2. line' = [line EXCEPT ![q] = Append(@, m)]
  BY DEF Send
<1> HIDE DEF q
<1>3. ASSUME NEW r \in Users, NEW w, w = line'[r] PROVE LineOK(own2, re2, r, w)'
  <2>1. PICK v : v = line[r]
    OBVIOUS
  <2>2. v \in Seq(SMPMessage) /\ LineOK(own, re, r, v)
    BY <1>1, <2>1
  <2>3. LineOK(own2, re2, r, v)'
    BY <2>2, LineLater
  <2>4. CASE r = q
    <3>1. w = Append(v, m)
      BY <1>1, <1>2, <1>3, <2>1, <2>4
    <3>2. /\ w \in Seq(SMPMessage)
          /\ \A i \in DOMAIN w : (i \in DOMAIN v /\ w[i] = v[i]) \/ w[i] = m
      BY <2>2, <3>1
    <3> QED  BY <1>0, <2>3, <2>4, <3>2 DEF LineOK
  <2>5. CASE r # q
    BY <1>1, <1>2, <1>3, <2>1, <2>3, <2>5
  <2> QED  BY <2>4, <2>5
<1>4. \A r \in Users : LineOK(own2, re2, r, line[r])'
  <2> TAKE r \in Users
  <2>1. PICK w : w = line'[r]
    OBVIOUS
  <2>2. LineOK(own2, re2, r, w)'
    BY <1>3, <2>1
  <2> QED  BY <2>1, <2>2 DEF LineOK
<1>5. Append(line[q], m) \in Seq(SMPMessage)
  BY <1>0, <1>1
<1> QED  BY <1>1, <1>2, <1>4, <1>5

LEMMA LinesAnswered ==
  ASSUME NEW own, NEW re, NEW own2, NEW re2, Later(own, re, own2, re2), SmpTypes,
         \A r \in Users : LineOK(own, re, r, line[r]),
         NEW p \in Users, line[p] # <<>>,
         NEW m \in SMPMessage, MsgOK(own2, re2, Contact(p), m)', TakeAndSend(p, m)
  PROVE  /\ \A r \in Users : LineOK(own2, re2, r, line[r])'
         /\ line' \in [Users -> Seq(SMPMessage)]
<1> DEFINE q == Contact(p)
<1>0. q \in Users /\ MsgOK(own2, re2, q, m)' /\ \A r \in Users : r = p \/ r = q
  BY ContactFacts
<1>1. line \in [Users -> Seq(SMPMessage)]
  BY DEF SmpTypes
<1>2. line' = [r \in Users |-> IF r = p THEN Tail(line[p]) ELSE Append(line[r], m)]
  BY DEF TakeAndSend
<1> HIDE DEF q
<1>3. ASSUME NEW r \in Users, NEW w, w = line'[r]
      PROVE  LineOK(own2, re2, r, w)'
  <2>1. PICK v : v = line[r]
    OBVIOUS
  <2>2. v \in Seq(SMPMessage) /\ LineOK(own, re, r, v)
    BY <1>1, <2>1
  <2>3. LineOK(own2, re2, r, v)'
    BY <2>2, LineLater
  <2>4. CASE r = p
    <3>1. w = Tail(v) /\ v # <<>>
      BY <1>2, <1>3, <2>1, <2>4
    <3>2. w \in Seq(SMPMessage) /\ \A i \in DOMAIN w : i + 1 \in DOMAIN v /\ w[i] = v[i + 1]
      BY <2>2, <3>1
    <3> QED  BY <2>3, <3>2 DEF LineOK
  <2>5. CASE r # p
    <3>0. r = q
      BY <1>0, <2>5
    <3>1. w = Append(v, m)
      BY <1>2, <1>3, <2>1, <2>5
    <3>2. /\ w \in Seq(SMPMessage)
          /\ \A i \in DOMAIN w : (i \in DOMAIN v /\ w[i] = v[i]) \/ w[i] = m
      BY <2>2, <3>1
    <3> QED  BY <1>0, <2>3, <3>0, <3>2 DEF LineOK
  <2> QED  BY <2>4, <2>5
<1>4. \A r \in Users : LineOK(own2, re2, r, line[r])'
  <2> TAKE r \in Users
  <2>1. PICK w : w = line'[r]
    OBVIOUS
  <2>2. LineOK(own2, re2, r, w)'
    BY <1>3, <2>1
  <2> QED  BY <2>1, <2>2 DEF LineOK
<1>5. \A r \in Users : Append(line[r], m) \in Seq(SMPMessage)
  BY <1>1
<1>6. Tail(line[p]) \in Seq(SMPMessage)
  BY <1>1
<1> QED  BY <1>2, <1>4, <1>5, <1>6

\* A verdict that is told is of a comparison.
LEMMA VerdictTold ==
  ASSUME NEW own, NEW re, NEW own2, NEW re2, Later(own, re, own2, re2), SmpTypes,
         \A r \in Users : VerdictsOK(own, r, told[r]),
         NEW p \in Users, NEW s \in SMState, TellVerdict(p, s),
         s.prog # "ok" => Compared(own2, p, s.gens, s.prog = "succeeded")'
  PROVE  /\ \A r \in Users : VerdictsOK(own2, r, told[r])'
         /\ told' \in [Users -> Seq([run : SUBSET Exponent, verdict : BOOLEAN])]
<1> DEFINE Verdict == [run : SUBSET Exponent, verdict : BOOLEAN]
           t == [run |-> s.gens, verdict |-> s.prog = "succeeded"]
<1>1. told \in [Users -> Seq(Verdict)] /\ t \in Verdict
  BY DEF SmpTypes, SMState
<1>2. told' = [told EXCEPT ![p] = IF s.prog = "ok" THEN @ ELSE Append(@, t)]
  BY DEF TellVerdict
<1>3. t.run = s.gens /\ t.verdict = (s.prog = "succeeded")
  OBVIOUS
<1> HIDE DEF t, Verdict
<1>4. ASSUME NEW r \in Users, NEW w, w = told'[r] PROVE VerdictsOK(own2, r, w)'
  <2>1. PICK v : v = told[r]
    OBVIOUS
  <2>2. v \in Seq(Verdict) /\ VerdictsOK(own, r, v)
    BY <1>1, <2>1
  <2>3. VerdictsOK(own2, r, v)'
    BY <2>2, VerdictsLater
  <2>4. CASE r = p /\ s.prog # "ok"
    <3>1. w = Append(v, t)
      BY <1>1, <1>2, <1>4, <2>1, <2>4
    <3>2. \A i \in DOMAIN w : (i \in DOMAIN v /\ w[i] = v[i]) \/ w[i] = t
      BY <1>1, <2>2, <3>1
    <3>3. PICK v2 : v2 = (s.prog = "succeeded")
      OBVIOUS
    <3>4. PICK g : g = s.gens
      OBVIOUS
    <3>5. Compared(own2, p, g, v2)'
      BY <2>4, <3>3, <3>4 DEF Compared
    <3>6. t.run = g /\ t.verdict = v2
      BY <1>3, <3>3, <3>4
    <3> QED  BY <2>3, <2>4, <3>2, <3>5, <3>6 DEF VerdictsOK
  <2>5. CASE ~(r = p /\ s.prog # "ok")
    <3>1. w = v
      BY <1>1, <1>2, <1>4, <2>1, <2>5
    <3> QED  BY <2>3, <3>1
  <2> QED  BY <2>4, <2>5
<1>5. \A r \in Users : VerdictsOK(own2, r, told[r])'
  <2> TAKE r \in Users
  <2>1. PICK w : w = told'[r]
    OBVIOUS
  <2>2. VerdictsOK(own2, r, w)'
    BY <1>4, <2>1
  <2> QED  BY <2>1, <2>2 DEF VerdictsOK
<1>6. Append(told[p], t) \in Seq(Verdict)
  BY <1>1
<1> QED  BY <1>1, <1>2, <1>5, <1>6 DEF Verdict

LEMMA NothingTold ==
  ASSUME NEW own, NEW re, NEW own2, NEW re2, Later(own, re, own2, re2),
         \A r \in Users : VerdictsOK(own, r, told[r]), told' = told
  PROVE  \A r \in Users : VerdictsOK(own2, r, told[r])'
<1> TAKE r \in Users
<1>1. PICK w : w = told[r]
  OBVIOUS
<1>2. VerdictsOK(own2, r, w)'
  BY <1>1, VerdictsLater
<1> QED  BY <1>1, <1>2 DEF VerdictsOK

\* A step of one side, put together.
LEMMA Assembled ==
  ASSUME NEW own, NEW re, NEW own2 \in Draw, NEW re2 \in Cause,
         Later(own, re, own2, re2), Explains(own, re),
         NEW p \in Users, NEW q \in Users, q = Contact(p),
         smp'[q] = smp[q], asked'[q] = asked[q], typed'[q] = typed[q],
         SmpTypes', TypedOK(own2, re2)', StateOK(own2, re2, p)',
         \A r \in Users : LineOK(own2, re2, r, line[r])',
         \A r \in Users : VerdictsOK(own2, r, told[r])'
  PROVE  SmpInv'
<1>1. StateOK(own2, re2, q)'
  BY StateLater DEF Explains
<1>2. \A r \in Users : r = p \/ r = q
  BY ContactFacts
<1>3. \A r \in Users : StateOK(own2, re2, r)'
  BY <1>1, <1>2
<1>4. Explains(own2, re2)'
  BY <1>3 DEF Explains
<1> QED  BY <1>4 DEF SmpInv

-----------------------------------------------------------------------------

LEMMA Kept ==
  ASSUME NEW own, NEW re, exponents \in Nat, exponents' = exponents, typed' = typed,
         NEW p \in Users, NEW q \in Users, \A r \in Users : r = p \/ r = q,
         smp'[q] = smp[q],
         smp'[p].nextExpected = 2 => smp[p].nextExpected = 2 /\ smp'[p].x = smp[p].x
  PROVE  Later(own, re, own, re)
  BY DEF Later

LEMMA SmpTypeFacts ==
  ASSUME SmpTypes, NEW p \in Users
  PROVE  /\ smp[p] \in SMState /\ asked[p] \in BOOLEAN /\ line[p] \in Seq(SMPMessage)
         /\ line[p] # <<>> => Head(line[p]) \in SMPMessage /\ 1 \in DOMAIN line[p]
                              /\ Head(line[p]) = line[p][1]
  BY DEF SmpTypes

LEMMA HeadOK ==
  ASSUME NEW own, NEW re, SmpTypes, NEW p \in Users, LineOK(own, re, p, line[p]), line[p] # <<>>
  PROVE  MsgOK(own, re, p, Head(line[p]))
  BY SmpTypeFacts DEF LineOK

LEMMA FreshState ==
  /\ StateNew \in SMState /\ StateNew.x = NoExponent /\ StateNew.gens = {}
  /\ StateNew.nextExpected = 1 /\ StateNew.prog = "ok"
  BY DEF StateNew, SMState, NoExponent, NoSecret, Exponent

LEMMA FreshStateOK ==
  ASSUME NEW own, NEW re, NEW p \in Users, smp'[p] = StateNew
  PROVE  StateOK(own, re, p)'
<1>1. GensOK(own, re, StateNew.gens)'
  BY FreshState DEF GensOK
<1> QED  BY <1>1, FreshState DEF StateOK

LEMMA GoneStep ==
  ASSUME SmpTypes, NEW own \in Draw, NEW re \in Cause, Explains(own, re),
         NEW p \in Users, Gone(p)
  PROVE  SmpInv'
<1> DEFINE q == Contact(p)
<1>1. q \in Users /\ q # p /\ \A r \in Users : r = p \/ r = q
  BY ContactFacts
<1> HIDE DEF q
<1>2. smp'[p] = StateNew /\ smp'[q] = smp[q] /\ asked'[q] = asked[q] /\ typed'[q] = typed[q]
  BY <1>1 DEF Gone, SmpTypes
<1>3. Later(own, re, own, re)
  BY <1>1, <1>2, Kept, ExponentFacts, FreshState DEF Gone
<1>4. StateOK(own, re, p)'
  BY <1>2, FreshStateOK
<1>5. \A r \in Users : LineOK(own, re, r, line[r])'
  <2> TAKE r \in Users
  <2>1. PICK w : w = line'[r]
    OBVIOUS
  <2>2. CASE r = p
    <3>1. w = <<>>
      BY <2>1, <2>2 DEF Gone, SmpTypes
    <3>2. DOMAIN w = {} /\ w \in Seq(SMPMessage)
      BY <3>1
    <3> QED  BY <2>1, <3>2 DEF LineOK
  <2>3. CASE r # p
    <3>1. w = line[r]
      BY <2>1, <2>3 DEF Gone, SmpTypes
    <3>2. LineOK(own, re, r, w)'
      BY <1>3, <3>1, LineLater DEF Explains
    <3> QED  BY <2>1, <3>2 DEF LineOK
  <2> QED  BY <2>2, <2>3
<1>6. \A r \in Users : VerdictsOK(own, r, told[r])'
  BY <1>3, NothingTold DEF Explains, Gone
<1>7. SmpTypes'
  <2>1. <<>> \in Seq(SMPMessage)
    OBVIOUS
  <2>2. line' \in [Users -> Seq(SMPMessage)] /\ smp' \in [Users -> SMState]
    BY <2>1, FreshState DEF Gone, SmpTypes
  <2>3. asked' \in [Users -> BOOLEAN] /\ smooth' \in BOOLEAN
    BY DEF Gone, SmpTypes
  <2> QED  BY <2>2, <2>3 DEF Gone, SmpTypes
<1>8. TypedOK(own, re)'
  BY DEF TypedOK, Explains, Gone
<1> QED  BY <1>1, <1>2, <1>3, <1>4, <1>5, <1>6, <1>7, <1>8, Assembled DEF q

LEMMA LoseStep ==
  ASSUME SmpTypes, NEW own \in Draw, NEW re \in Cause, Explains(own, re),
         NEW p \in Users, LoseSMP(p)
  PROVE  SmpInv'
<1> DEFINE q == Contact(p)
<1>1. q \in Users /\ q # p /\ \A r \in Users : r = p \/ r = q
  BY ContactFacts
<1> HIDE DEF q
<1>2. smp' = smp /\ asked' = asked /\ typed' = typed /\ told' = told
  BY DEF LoseSMP
<1>3. Later(own, re, own, re)
  BY <1>1, <1>2, Kept, ExponentFacts DEF LoseSMP
<1>4. StateOK(own, re, p)'
  BY <1>2, <1>3, StateLater DEF Explains
<1>5. (\A r \in Users : LineOK(own, re, r, line[r])') /\ line' \in [Users -> Seq(SMPMessage)]
  BY <1>3, LinesTaken DEF Explains, LoseSMP
<1>6. \A r \in Users : VerdictsOK(own, r, told[r])'
  BY <1>2, <1>3, NothingTold DEF Explains
<1>7. SmpTypes'
  BY <1>5 DEF LoseSMP, SmpTypes
<1>8. TypedOK(own, re)'
  BY DEF TypedOK, Explains, LoseSMP
<1> QED  BY <1>1, <1>2, <1>3, <1>4, <1>5, <1>6, <1>7, <1>8, Assembled DEF q

\* A message that says the verdict of the state as it is, and frees it.
LEMMA AbortStep ==
  ASSUME SmpTypes, NEW own \in Draw, NEW re \in Cause, Explains(own, re),
         NEW p \in Users, HandleAbort(p)
  PROVE  SmpInv'
<1> DEFINE q == Contact(p)
<1>1. q \in Users /\ q # p /\ \A r \in Users : r = p \/ r = q
  BY ContactFacts
<1> HIDE DEF q
<1>2. smp'[p] = StateNew /\ smp'[q] = smp[q] /\ asked' = asked /\ typed' = typed
  BY <1>1 DEF HandleAbort, SmpTypes
<1>3. Later(own, re, own, re)
  BY <1>1, <1>2, Kept, ExponentFacts, FreshState DEF HandleAbort
<1>4. StateOK(own, re, p)'
  BY <1>2, FreshStateOK
<1>5. (\A r \in Users : LineOK(own, re, r, line[r])') /\ line' \in [Users -> Seq(SMPMessage)]
  BY <1>3, LinesTaken DEF Explains, HandleAbort, Incoming
<1>6. PICK s \in SMState : s = smp[p]
  BY SmpTypeFacts
<1>7. s.prog # "ok" => Compared(own, p, s.gens, s.prog = "succeeded")'
  BY <1>3, <1>6, ComparedLater DEF Explains, StateOK
<1>8. TellVerdict(p, s)
  BY <1>6 DEF HandleAbort
<1>9. /\ \A r \in Users : VerdictsOK(own, r, told[r])'
      /\ told' \in [Users -> Seq([run : SUBSET Exponent, verdict : BOOLEAN])]
  BY <1>3, <1>7, <1>8, VerdictTold DEF Explains
<1>10. SmpTypes'
  BY <1>5, <1>9, FreshState DEF HandleAbort, SmpTypes
<1>11. TypedOK(own, re)'
  BY DEF TypedOK, Explains, HandleAbort
<1> QED  BY <1>1, <1>2, <1>3, <1>4, <1>5, <1>9, <1>10, <1>11, Assembled DEF q

\* The first message of a comparison.
LEMMA AskStep ==
  ASSUME SmpTypes, NEW own \in Draw, NEW re \in Cause, Explains(own, re),
         NEW p \in Users, AskQuestion(p)
  PROVE  SmpInv'
<1> DEFINE q == Contact(p)
<1>1. q \in Users /\ q # p /\ \A r \in Users : r = p \/ r = q
  BY ContactFacts
<1>a. Contact(q) = p
  BY ContactFacts
<1>b. PICK x : x = exponents + 1
  OBVIOUS
<1>c. PICK own2 : own2 = [own EXCEPT ![x] = p]
  OBVIOUS
<1>d. PICK re2 : re2 = [re EXCEPT ![x] = NoExponent]
  OBVIOUS
<1>2. PICK text \in Secrets, question \in BOOLEAN :
        /\ smp' = [smp EXCEPT ![p] =
              [@ EXCEPT !.nextExpected = 2, !.prog = "ok", !.x = x,
                        !.secret = ToAscii[text], !.question = FALSE]]
        /\ typed' = [typed EXCEPT ![p][x] = [to |-> "ask", text |-> text]]
        /\ Send(p, SMP1(x, question))
        /\ crossed' = (crossed \/ ~Idle)
  BY <1>b DEF AskQuestion
<1>3. /\ x \in Exponent /\ x \notin 1..exponents /\ x \in 1..exponents' /\ x # NoExponent
      /\ exponents' = x /\ exponents \in Nat /\ x \in Nat /\ exponents < x
      /\ exponents' \in 0..MaxExponents /\ 1..exponents \subseteq Exponent
      /\ \A e \in 1..exponents : e # x
  BY <1>b, SmpBoundsAssumption, ExponentFacts DEF AskQuestion, Draws, SmpTypes, Exponent, NoExponent
<1>c2. PICK typing \in Typing : typing = [to |-> "ask", text |-> text]
  BY BytesFacts
<1>c3. PICK secret \in Codes : secret = ToAscii[text]
  BY BytesFacts
<1>4. secret # NoSecret /\ Bytes(typing) = secret /\ typing.to = "ask"
  BY <1>c2, <1>c3, BytesFacts
<1> HIDE DEF q
<1>5. /\ own2 \in Draw /\ own2[x] = p /\ \A e \in 1..exponents : own2[e] = own[e]
  BY <1>3, <1>c DEF Draw
<1>6. /\ re2 \in Cause /\ re2[x] = NoExponent /\ \A e \in 1..exponents : re2[e] = re[e]
  BY <1>3, <1>d DEF Cause, NoExponent
<1>7. PICK s \in SMState : s = smp[p]
  BY SmpTypeFacts
<1>8. PICK t : t = smp'[p]
  OBVIOUS
<1>9. /\ t \in SMState /\ t.nextExpected = 2 /\ t.prog = "ok" /\ t.x = x /\ t.secret = secret
      /\ t.gens = s.gens
  <2>1. t = [s EXCEPT !.nextExpected = 2, !.prog = "ok", !.x = x,
                       !.secret = secret, !.question = FALSE]
    BY <1>2, <1>7, <1>8, <1>c3 DEF SmpTypes
  <2>2. /\ t.nextExpected = 2 /\ t.prog = "ok" /\ t.x = x /\ t.secret = secret
        /\ t.gens = s.gens
    BY <1>7, <2>1 DEF SMState
  <2>3. 2 \in 1..4
    OBVIOUS
  <2>4. t \in SMState
    BY <1>3, <1>7, <2>1, <2>3 DEF SMState
  <2> QED  BY <2>2, <2>4
<1>10. smp'[q] = smp[q] /\ asked' = asked /\ typed'[q] = typed[q] /\ told' = told
       /\ smp' \in [Users -> SMState]
  BY <1>1, <1>2, <1>8, <1>9 DEF AskQuestion, SmpTypes
<1>11. /\ typed'[p][x] = typing /\ \A e \in 1..exponents : typed'[p][e] = typed[p][e]
       /\ typed' \in [Users -> [Exponent -> Typing \cup {Untyped}]]
  BY <1>2, <1>3, <1>c2 DEF SmpTypes
<1>12. Later(own, re, own2, re2)
  <2>1. \A r \in Users : \A e \in 1..exponents : typed'[r][e] = typed[r][e]
    BY <1>1, <1>10, <1>11
  <2>2. exponents <= exponents' /\ exponents' \in Nat
    BY <1>3
  <2>3. \A r \in Users : smp'[r].nextExpected = 2 =>
          \/ smp[r].nextExpected = 2 /\ smp'[r].x = smp[r].x
          \/ smp'[r].x \notin 1..exponents
    BY <1>1, <1>3, <1>8, <1>9, <1>10
  <2> QED  BY <1>3, <1>5, <1>6, <2>1, <2>2, <2>3 DEF Later
<1>13. s.gens \subseteq 1..exponents /\ GensOK(own, re, s.gens)
  BY <1>7 DEF Explains, StateOK, GensOK
<1>14. StateOK(own2, re2, p)'
  <2>1. GensOK(own2, re2, t.gens)'
    BY <1>9, <1>12, <1>13, GensLater
  <2>2. asked[p] => \A f \in t.gens \cup {t.x} :
           f # NoExponent /\ own2[f] = p /\ re2[f] # NoExponent => Bytes(typed'[p][f]) = NoSecret
    BY <1>5, <1>6, <1>7, <1>9, <1>11, <1>13 DEF Explains, StateOK
  <2>3. t.x # NoExponent /\ t.x \in 1..exponents' /\ own2[t.x] = p /\ re2[t.x] = NoExponent
        /\ Bytes(typed'[p][t.x]) = t.secret /\ t.secret # NoSecret
    BY <1>3, <1>4, <1>5, <1>6, <1>9, <1>11
  <2> QED  BY <1>8, <1>9, <1>10, <2>1, <2>2, <2>3 DEF StateOK
<1>15. PICK m : m = SMP1(x, question)
  OBVIOUS
<1>16. m \in SMPMessage /\ m.type = "smp1" /\ m.x = x /\ m.gens = {}
  BY <1>3, <1>15 DEF SMP1, SMPMessage
<1>17. MsgOK(own2, re2, q, m)'
  <2>1. GensOK(own2, re2, m.gens)'
    BY <1>16 DEF GensOK
  <2> QED  BY <1>a, <1>3, <1>5, <1>6, <1>16, <2>1 DEF MsgOK
<1>18. (\A r \in Users : LineOK(own2, re2, r, line[r])') /\ line' \in [Users -> Seq(SMPMessage)]
  BY <1>2, <1>12, <1>15, <1>16, <1>17, LinesSent DEF Explains, q
<1>19. \A r \in Users : VerdictsOK(own2, r, told[r])'
  BY <1>10, <1>12, NothingTold DEF Explains
<1>20. SmpTypes'
  <2>1. crossed' \in BOOLEAN
    BY <1>2 DEF SmpTypes
  <2> QED  BY <1>3, <1>10, <1>11, <1>18, <2>1 DEF AskQuestion, SmpTypes
<1>21. TypedOK(own2, re2)'
  <2>1. ASSUME NEW r \in Users, NEW e \in Exponent, Bytes(typed'[r][e]) # NoSecret
        PROVE  /\ e \in 1..exponents' /\ own2[e] = r
               /\ typed'[r][e].to = IF re2[e] = NoExponent THEN "ask" ELSE "answer"
    <3>1. CASE r = p /\ e = x
      BY <1>3, <1>4, <1>5, <1>6, <1>11, <3>1
    <3>2. CASE ~(r = p /\ e = x)
      <4>1. typed'[r][e] = typed[r][e]
        BY <1>2, <3>2 DEF SmpTypes
      <4>2. /\ e \in 1..exponents /\ own[e] = r
            /\ typed[r][e].to = IF re[e] = NoExponent THEN "ask" ELSE "answer"
        BY <2>1, <4>1 DEF Explains, TypedOK
      <4> QED  BY <1>3, <1>5, <1>6, <4>1, <4>2
    <3> QED  BY <3>1, <3>2
  <2>2. ASSUME NEW r \in Users, NEW e \in 1..exponents', own2[e] = r, re2[e] = NoExponent
        PROVE  Bytes(typed'[r][e]) # NoSecret
    <3>1. CASE e = x
      BY <1>4, <1>5, <1>11, <2>2, <3>1
    <3>2. CASE e # x
      <4>1. e \in 1..exponents
        BY <1>3, <1>b, <3>2
      <4>2. Bytes(typed[r][e]) # NoSecret
        BY <1>5, <1>6, <2>2, <4>1 DEF Explains, TypedOK
      <4>3. typed'[r][e] = typed[r][e]
        BY <1>1, <1>10, <1>11, <4>1
      <4> QED  BY <4>2, <4>3
    <3> QED  BY <3>1, <3>2
  <2> QED  BY <2>1, <2>2 DEF TypedOK
<1>22. SmpTypes' /\ own2 \in Draw /\ re2 \in Cause
  BY <1>5, <1>6, <1>20
<1> QED  BY <1>1, <1>10, <1>12, <1>14, <1>18, <1>19, <1>21, <1>22, Assembled DEF q

LEMMA AnswerStep ==
  ASSUME SmpTypes, NEW own \in Draw, NEW re \in Cause, Explains(own, re),
         NEW p \in Users, AnswerQuestion(p)
  PROVE  SmpInv'
<1> DEFINE q == Contact(p)
<1>1. q \in Users /\ q # p /\ \A r \in Users : r = p \/ r = q
  BY ContactFacts
<1>a. Contact(q) = p
  BY ContactFacts
<1> HIDE DEF q
<1>2. PICK s \in SMState : s = smp[p]
  BY SmpTypeFacts
<1>3. asked[p] /\ s.x # NoExponent
  BY <1>2 DEF AnswerQuestion
<1>b. PICK text \in Secrets :
        /\ smp' = [smp EXCEPT ![p] = [@ EXCEPT !.nextExpected = 3, !.secret = ToUtf8[text]]]
        /\ typed' = [typed EXCEPT ![p][s.x] =
                        IF @ = Untyped THEN [to |-> "answer", text |-> text] ELSE @]
        /\ Send(p, SMP2(s.x, s.gens, ToUtf8[text]))
  BY <1>2 DEF AnswerQuestion
<1>c. PICK typing \in Typing : typing = [to |-> "answer", text |-> text]
  BY BytesFacts
<1>d. PICK secret \in Codes : secret = ToUtf8[text]
  BY BytesFacts
<1>4. /\ smp' = [smp EXCEPT ![p] = [@ EXCEPT !.nextExpected = 3, !.secret = secret]]
      /\ typed' = [typed EXCEPT ![p][s.x] = IF @ = Untyped THEN typing ELSE @]
      /\ Send(p, SMP2(s.x, s.gens, secret))
  BY <1>b, <1>c, <1>d
<1>5. secret # NoSecret /\ Bytes(typing) = secret /\ typing.to = "answer"
  BY <1>c, <1>d, BytesFacts
<1>e. \A t \in Typing \cup {Untyped} : Bytes(t) = NoSecret <=> t = Untyped
  BY BytesCompared
<1>6. PICK x \in 1..exponents : x = s.x
  BY <1>2, <1>3 DEF Explains, StateOK
<1>7. own[x] = p /\ x \in Exponent
  BY <1>2, <1>3, <1>6, ExponentFacts DEF Explains, StateOK
<1>8. PICK t : t = smp'[p]
  OBVIOUS
<1>9. /\ t \in SMState /\ t.nextExpected = 3 /\ t.prog = s.prog /\ t.x = x /\ t.secret = secret
      /\ t.gens = s.gens
  <2>1. t = [s EXCEPT !.nextExpected = 3, !.secret = secret]
    BY <1>2, <1>4, <1>8 DEF SmpTypes
  <2>2. /\ t.nextExpected = 3 /\ t.prog = s.prog /\ t.x = x /\ t.secret = secret
        /\ t.gens = s.gens
    BY <1>2, <1>6, <2>1 DEF SMState
  <2>3. 3 \in 1..4
    OBVIOUS
  <2>4. t \in SMState
    BY <1>2, <2>1, <2>3 DEF SMState
  <2> QED  BY <2>2, <2>4
<1>10. smp'[q] = smp[q] /\ asked'[q] = asked[q] /\ ~asked'[p] /\ typed'[q] = typed[q] /\ told' = told
       /\ smp' \in [Users -> SMState] /\ asked' \in [Users -> BOOLEAN] /\ exponents' = exponents
  BY <1>1, <1>4, <1>8, <1>9 DEF AnswerQuestion, SmpTypes
<1>11. /\ typed'[p][x] = IF Bytes(typed[p][x]) = NoSecret THEN typing ELSE typed[p][x]
       /\ \A e \in Exponent \ {x} : typed'[p][e] = typed[p][e]
       /\ typed' \in [Users -> [Exponent -> Typing \cup {Untyped}]]
  <2>1. typed[p][x] \in Typing \cup {Untyped}
    BY <1>7 DEF SmpTypes
  <2>2. Bytes(typed[p][x]) = NoSecret <=> typed[p][x] = Untyped
    BY <1>e, <2>1
  <2> QED  BY <1>4, <1>6, <1>7, <2>2 DEF SmpTypes
<1>12. Later(own, re, own, re)
  <2>1. \A r \in Users : \A e \in 1..exponents : Bytes(typed[r][e]) # NoSecret => typed'[r][e] = typed[r][e]
    BY <1>1, <1>10, <1>11, ExponentFacts
  <2>2. \A r \in Users : smp'[r].nextExpected = 2 => smp[r].nextExpected = 2 /\ smp'[r].x = smp[r].x
    BY <1>1, <1>8, <1>9, <1>10
  <2> QED  BY <1>10, <2>1, <2>2, ExponentFacts DEF Later
<1>13. GensOK(own, re, s.gens) /\ s.gens \subseteq 1..exponents
  BY <1>2 DEF Explains, StateOK, GensOK
<1>14. GensOK(own, re, s.gens)'
  BY <1>12, <1>13, GensLater DEF GensOK
<1>15. \A f \in s.gens \cup {x} : own[f] = p /\ re[f] # NoExponent => Bytes(typed[p][f]) = NoSecret
  <2>1. \A f \in s.gens \cup {x} : f # NoExponent
    BY <1>7, <1>13, ExponentFacts
  <2> QED  BY <1>2, <1>3, <1>6, <2>1 DEF Explains, StateOK
<1>16. re[x] # NoExponent => Bytes(typed'[p][x]) = secret
  BY <1>5, <1>7, <1>11, <1>15
<1>17. StateOK(own, re, p)'
  <2>1. \A f \in s.gens :
          own[f] = p /\ re[f] # NoExponent /\ Bytes(typed'[p][f]) # NoSecret => secret = Bytes(typed'[p][f])
    <3> SUFFICES ASSUME NEW f \in s.gens, own[f] = p, re[f] # NoExponent, Bytes(typed'[p][f]) # NoSecret
                 PROVE  secret = Bytes(typed'[p][f])
      OBVIOUS
    <3>1. f = x
      BY <1>11, <1>13, <1>15, ExponentFacts
    <3> QED  BY <1>16, <3>1
  <2>2. s.prog # "ok" => Compared(own, p, s.gens, s.prog = "succeeded")'
    BY <1>2, <1>12, ComparedLater DEF Explains, StateOK
  <2>3. t.prog # "ok" => Compared(own, p, t.gens, t.prog = "succeeded")'
    BY <1>9, <2>2
  <2>4. GensOK(own, re, t.gens)'
    BY <1>9, <1>14
  <2> QED  BY <1>6, <1>7, <1>8, <1>9, <1>10, <2>1, <2>3, <2>4 DEF StateOK
<1>18. PICK m : m = SMP2(s.x, s.gens, secret)
  OBVIOUS
<1>19. m \in SMPMessage /\ m.type = "smp2" /\ m.x = x /\ m.gens = s.gens /\ m.secret = secret
  BY <1>6, <1>7, <1>18 DEF SMP2, SMPMessage, SMState
<1>20. MsgOK(own, re, q, m)'
  <2>1. GensOK(own, re, m.gens)'
    BY <1>14, <1>19
  <2> QED  BY <1>a, <1>5, <1>7, <1>6, <1>8, <1>9, <1>10, <1>16, <1>19, <2>1 DEF MsgOK
<1>21. (\A r \in Users : LineOK(own, re, r, line[r])') /\ line' \in [Users -> Seq(SMPMessage)]
  BY <1>4, <1>12, <1>18, <1>19, <1>20, LinesSent DEF Explains, q
<1>22. \A r \in Users : VerdictsOK(own, r, told[r])'
  BY <1>10, <1>12, NothingTold DEF Explains
<1>23. SmpTypes'
  BY <1>10, <1>11, <1>21 DEF AnswerQuestion, SmpTypes
<1>24. TypedOK(own, re)'
  <2>1. ASSUME NEW r \in Users, NEW e \in Exponent, Bytes(typed'[r][e]) # NoSecret
        PROVE  /\ e \in 1..exponents' /\ own[e] = r
               /\ typed'[r][e].to = IF re[e] = NoExponent THEN "ask" ELSE "answer"
    <3>1. CASE r = p /\ e = x /\ Bytes(typed[p][x]) = NoSecret
      <4>1. re[x] # NoExponent
        BY <1>6, <1>7, <3>1 DEF Explains, TypedOK
      <4> QED  BY <1>5, <1>6, <1>7, <1>10, <1>11, <3>1, <4>1
    <3>2. CASE ~(r = p /\ e = x /\ Bytes(typed[p][x]) = NoSecret)
      <4>1. typed'[r][e] = typed[r][e]
        BY <1>1, <1>10, <1>11, <3>2
      <4> QED  BY <1>10, <2>1, <4>1 DEF Explains, TypedOK
    <3> QED  BY <3>1, <3>2
  <2>2. ASSUME NEW r \in Users, NEW e \in 1..exponents', own[e] = r, re[e] = NoExponent
        PROVE  Bytes(typed'[r][e]) # NoSecret
    <3>1. Bytes(typed[r][e]) # NoSecret
      BY <1>10, <2>2 DEF Explains, TypedOK
    <3>2. typed'[r][e] = typed[r][e]
      BY <1>10, <1>12, <2>2, <3>1 DEF Later
    <3> QED  BY <3>1, <3>2
  <2> QED  BY <2>1, <2>2 DEF TypedOK
<1> QED  BY <1>1, <1>10, <1>12, <1>17, <1>21, <1>22, <1>23, <1>24, Assembled DEF q

LEMMA FirstStep ==
  ASSUME SmpTypes, NEW own \in Draw, NEW re \in Cause, Explains(own, re),
         NEW p \in Users, HandleSMP1(p)
  PROVE  SmpInv'
<1> DEFINE q == Contact(p)
<1>1. q \in Users /\ q # p /\ \A r \in Users : r = p \/ r = q
  BY ContactFacts
<1>a. Contact(q) = p
  BY ContactFacts
<1> HIDE DEF q
<1>2. PICK s \in SMState : s = smp[p]
  BY SmpTypeFacts
<1>3. PICK m \in SMPMessage : m = Head(line[p])
  BY SmpTypeFacts DEF HandleSMP1, Incoming
<1>4. line[p] # <<>> /\ m.type = "smp1" /\ MsgOK(own, re, p, m)
  BY <1>3, HeadOK DEF Explains, HandleSMP1, Incoming
<1>b. PICK x : x = exponents + 1
  OBVIOUS
<1>5. trust' = trust /\ typed' = typed /\ smooth' = smooth /\ crossed' = crossed
  BY DEF HandleSMP1
<1>6. m.x \in 1..exponents /\ own[m.x] = q /\ re[m.x] = NoExponent
  BY <1>4 DEF MsgOK, q
<1>7. ASSUME s.nextExpected = 1, Draws,
             smp' = [smp EXCEPT ![p] =
                    [@ EXCEPT !.prog = "ok", !.x = x, !.gens = {m.x, x},
                              !.question = m.question]],
             asked' = [asked EXCEPT ![p] = TRUE], Take(p), told' = told
      PROVE  SmpInv'
  <2>c. PICK own2 : own2 = [own EXCEPT ![x] = p]
    OBVIOUS
  <2>d. PICK re2 : re2 = [re EXCEPT ![x] = m.x]
    OBVIOUS
  <2>3. /\ x \in Exponent /\ x \notin 1..exponents /\ x \in 1..exponents' /\ x # NoExponent
        /\ exponents' = x /\ exponents \in Nat /\ x \in Nat /\ exponents < x
        /\ exponents' \in 0..MaxExponents /\ 1..exponents \subseteq Exponent
        /\ \A e \in 1..exponents : e # x
    BY <1>b, <1>7, SmpBoundsAssumption, ExponentFacts DEF Draws, SmpTypes, Exponent, NoExponent
  <2>4. m.x \in Exponent /\ m.x # NoExponent /\ m.x # x /\ m.x \in 1..exponents'
    BY <1>6, <2>3, ExponentFacts
  <2>5. /\ own2 \in Draw /\ own2[x] = p /\ \A e \in 1..exponents : own2[e] = own[e]
    BY <2>3, <2>c DEF Draw
  <2>6. /\ re2 \in Cause /\ re2[x] = m.x /\ \A e \in 1..exponents : re2[e] = re[e]
    BY <2>3, <2>4, <2>d DEF Cause
  <2>7. PICK t : t = smp'[p]
    OBVIOUS
  <2>8. /\ t \in SMState /\ t.nextExpected = 1 /\ t.prog = "ok" /\ t.x = x
        /\ t.gens = {m.x, x}
    <3>1. t = [s EXCEPT !.prog = "ok", !.x = x, !.gens = {m.x, x}, !.question = m.question]
      BY <1>2, <1>7, <2>7 DEF SmpTypes
    <3>2. t.nextExpected = 1 /\ t.prog = "ok" /\ t.x = x /\ t.gens = {m.x, x}
      BY <1>7, <3>1 DEF SMState
    <3>3. m.question \in BOOLEAN /\ {m.x, x} \in SUBSET Exponent
      BY <2>3, <2>4 DEF SMPMessage
    <3>4. t \in SMState
      BY <2>3, <3>1, <3>3 DEF SMState
    <3> QED  BY <3>2, <3>4
  <2>9. smp'[q] = smp[q] /\ asked'[q] = asked[q] /\ smp' \in [Users -> SMState]
        /\ asked' \in [Users -> BOOLEAN]
    BY <1>1, <1>7, <2>7, <2>8 DEF SmpTypes
  <2>10. Later(own, re, own2, re2)
    <3>1. exponents <= exponents' /\ exponents' \in Nat
      BY <2>3
    <3>2. \A r \in Users : smp'[r].nextExpected = 2 =>
            smp[r].nextExpected = 2 /\ smp'[r].x = smp[r].x
      BY <1>1, <2>7, <2>8, <2>9
    <3> QED  BY <1>5, <2>3, <2>5, <2>6, <3>1, <3>2 DEF Later
  <2>11. GensOK(own2, re2, {m.x, x})'
    <3>1. {m.x, x} \subseteq 1..exponents'
      BY <2>3, <2>4
    <3>2. ASSUME NEW r \in Users, smp'[r].nextExpected = 2, smp'[r].x \in {m.x, x}
          PROVE  r = q /\ smp'[r].x = m.x
      <4>1. r = q
        BY <1>1, <2>7, <2>8, <3>2
      <4>2. smp[q].x # NoExponent
        BY <1>1, <2>9, <3>2, <4>1 DEF Explains, StateOK
      <4>3. smp[q].x \in 1..exponents
        BY <1>1, <4>2 DEF Explains, StateOK
      <4> QED  BY <2>3, <2>9, <3>2, <4>1, <4>3
    <3>3. PairOfRun(own2, re2, q, m.x, x)'
      BY <1>a, <1>6, <2>3, <2>4, <2>5, <2>6 DEF PairOfRun
    <3>4. ASSUME NEW r \in Users, smp'[r].nextExpected = 2, smp'[r].x \in {m.x, x}
          PROVE  {m.x, x} = {smp'[r].x, x} /\ x \in {m.x, x}
      BY <3>2, <3>4
    <3> QED  BY <3>1, <3>2, <3>3, <3>4 DEF GensOK, PairOfRun
  <2>12. StateOK(own2, re2, p)'
    <3>1. GensOK(own2, re2, t.gens)'
      BY <2>8, <2>11
    <3>2. \A f \in t.gens \cup {t.x} :
             f # NoExponent /\ own2[f] = p /\ re2[f] # NoExponent => Bytes(typed'[p][f]) = NoSecret
      <4>1. Bytes(typed[p][x]) = NoSecret
        BY <2>3 DEF Explains, TypedOK
      <4>2. own2[m.x] # p
        BY <1>1, <1>6, <2>5
      <4> QED  BY <1>5, <2>8, <4>1, <4>2
    <3> QED  BY <2>3, <2>5, <2>7, <2>8, <3>1, <3>2 DEF StateOK
  <2>13. (\A r \in Users : LineOK(own2, re2, r, line[r])') /\ line' \in [Users -> Seq(SMPMessage)]
    BY <1>4, <1>7, <2>10, LinesTaken DEF Explains
  <2>14. \A r \in Users : VerdictsOK(own2, r, told[r])'
    BY <1>7, <2>10, NothingTold DEF Explains
  <2>15. SmpTypes'
    BY <1>5, <1>7, <2>3, <2>9, <2>13 DEF SmpTypes
  <2>16. TypedOK(own2, re2)'
    <3>1. ASSUME NEW r \in Users, NEW e \in Exponent, Bytes(typed'[r][e]) # NoSecret
          PROVE  /\ e \in 1..exponents' /\ own2[e] = r
                 /\ typed'[r][e].to = IF re2[e] = NoExponent THEN "ask" ELSE "answer"
      <4>1. /\ e \in 1..exponents /\ own[e] = r
            /\ typed[r][e].to = IF re[e] = NoExponent THEN "ask" ELSE "answer"
        BY <1>5, <3>1 DEF Explains, TypedOK
      <4> QED  BY <1>5, <2>3, <2>5, <2>6, <4>1
    <3>2. ASSUME NEW r \in Users, NEW e \in 1..exponents', own2[e] = r, re2[e] = NoExponent
          PROVE  Bytes(typed'[r][e]) # NoSecret
      <4>1. e \in 1..exponents
        BY <1>b, <2>3, <2>4, <2>6, <3>2
      <4> QED  BY <1>5, <2>5, <2>6, <3>2, <4>1 DEF Explains, TypedOK
    <3> QED  BY <3>1, <3>2 DEF TypedOK
  <2>17. typed'[q] = typed[q] /\ own2 \in Draw /\ re2 \in Cause
    BY <1>5, <2>5, <2>6
  <2> QED  BY <1>1, <2>9, <2>10, <2>12, <2>13, <2>14, <2>15, <2>16, <2>17, Assembled DEF q
<1>8. ASSUME smp' = [smp EXCEPT ![p] = StateNew],
             told' = [told EXCEPT ![p] = Append(@, [run |-> {}, verdict |-> FALSE])],
             TakeAndSend(p, SMPAbort), exponents' = exponents, asked' = asked
      PROVE  SmpInv'
  <2>1. smp'[p] = StateNew /\ smp'[q] = smp[q] /\ smp' \in [Users -> SMState]
    BY <1>1, <1>8, FreshState DEF SmpTypes
  <2>2. Later(own, re, own, re)
    BY <1>1, <1>5, <1>8, <2>1, Kept, ExponentFacts, FreshState
  <2>3. StateOK(own, re, p)'
    BY <2>1, FreshStateOK
  <2>4. PICK a : a = SMPAbort
    OBVIOUS
  <2>5. a \in SMPMessage /\ a.type = "abort" /\ a.gens = {}
    BY <2>4 DEF SMPAbort, SMPMessage
  <2>6. MsgOK(own, re, q, a)'
    BY <2>5 DEF MsgOK, GensOK
  <2>7. (\A r \in Users : LineOK(own, re, r, line[r])') /\ line' \in [Users -> Seq(SMPMessage)]
    BY <1>4, <1>8, <2>2, <2>4, <2>5, <2>6, LinesAnswered DEF Explains, q
  <2>8. PICK no : no = [run |-> {}, verdict |-> FALSE]
    OBVIOUS
  <2>9. no \in [run : SUBSET Exponent, verdict : BOOLEAN] /\ no.run = {}
    BY <2>8
  <2>10. told' \in [Users -> Seq([run : SUBSET Exponent, verdict : BOOLEAN])]
    <3>1. PICK V : V = [run : SUBSET Exponent, verdict : BOOLEAN]
      OBVIOUS
    <3>2. told \in [Users -> Seq(V)] /\ no \in V
      BY <2>9, <3>1 DEF SmpTypes
    <3>3. Append(told[p], no) \in Seq(V)
      BY <3>2
    <3>4. told' = [told EXCEPT ![p] = Append(@, no)]
      BY <1>8, <2>8
    <3>5. told' \in [Users -> Seq(V)]
      BY <3>2, <3>3, <3>4
    <3> QED  BY <3>1, <3>5
  <2>11. \A r \in Users : VerdictsOK(own, r, told[r])'
    <3> TAKE r \in Users
    <3>1. PICK v \in Seq([run : SUBSET Exponent, verdict : BOOLEAN]) : v = told[r]
      BY DEF SmpTypes
    <3>2. PICK w : w = told'[r]
      OBVIOUS
    <3>3. VerdictsOK(own, r, v)'
      BY <2>2, <3>1, VerdictsLater DEF Explains
    <3>4. w = v \/ w = Append(v, no)
      BY <1>8, <2>8, <3>1, <3>2 DEF SmpTypes
    <3>5. \A i \in DOMAIN w : (i \in DOMAIN v /\ w[i] = v[i]) \/ w[i] = no
      BY <2>9, <3>1, <3>4
    <3>6. VerdictsOK(own, r, w)'
      BY <2>9, <3>3, <3>5 DEF VerdictsOK
    <3> QED  BY <3>2, <3>6 DEF VerdictsOK
  <2>12. SmpTypes'
    BY <1>5, <1>8, <2>1, <2>7, <2>10 DEF SmpTypes
  <2>13. TypedOK(own, re)'
    BY <1>5, <1>8 DEF TypedOK, Explains
  <2> QED  BY <1>1, <1>5, <1>8, <2>1, <2>2, <2>3, <2>7, <2>11, <2>12, <2>13, Assembled DEF q
<1>9. CASE s.nextExpected = 1
  BY <1>2, <1>3, <1>7, <1>9, <1>b DEF HandleSMP1
<1>10. CASE s.nextExpected # 1
  BY <1>2, <1>8, <1>10 DEF HandleSMP1
<1> QED  BY <1>9, <1>10

\* A message that is ignored: the state stays, its verdict is told again.
LEMMA IgnoredStep ==
  ASSUME SmpTypes, NEW own \in Draw, NEW re \in Cause, Explains(own, re),
         NEW p \in Users, line[p] # <<>>, Take(p), TellVerdict(p, smp[p]),
         UNCHANGED <<smp, asked, trust, exponents, typed, smooth, crossed>>
  PROVE  SmpInv'
<1> DEFINE q == Contact(p)
<1>1. q \in Users /\ q # p /\ \A r \in Users : r = p \/ r = q
  BY ContactFacts
<1> HIDE DEF q
<1>2. smp' = smp /\ asked' = asked /\ typed' = typed /\ exponents' = exponents
  OBVIOUS
<1>3. Later(own, re, own, re)
  BY <1>1, <1>2, Kept, ExponentFacts
<1>4. StateOK(own, re, p)'
  BY <1>2, <1>3, StateLater DEF Explains
<1>5. (\A r \in Users : LineOK(own, re, r, line[r])') /\ line' \in [Users -> Seq(SMPMessage)]
  BY <1>3, LinesTaken DEF Explains
<1>6. PICK s \in SMState : s = smp[p]
  BY SmpTypeFacts
<1>7. s.prog # "ok" => Compared(own, p, s.gens, s.prog = "succeeded")'
  BY <1>3, <1>6, ComparedLater DEF Explains, StateOK
<1>8. /\ \A r \in Users : VerdictsOK(own, r, told[r])'
      /\ told' \in [Users -> Seq([run : SUBSET Exponent, verdict : BOOLEAN])]
  BY <1>3, <1>6, <1>7, VerdictTold DEF Explains
<1>9. SmpTypes'
  BY <1>5, <1>8 DEF SmpTypes
<1>10. TypedOK(own, re)'
  BY <1>2 DEF TypedOK, Explains
<1> QED  BY <1>1, <1>2, <1>3, <1>4, <1>5, <1>8, <1>9, <1>10, Assembled DEF q

LEMMA SecondStep ==
  ASSUME SmpTypes, NEW own \in Draw, NEW re \in Cause, Explains(own, re),
         NEW p \in Users, HandleSMP2(p)
  PROVE  SmpInv'
<1> DEFINE q == Contact(p)
<1>1. q \in Users /\ q # p /\ \A r \in Users : r = p \/ r = q
  BY ContactFacts
<1>a. Contact(q) = p
  BY ContactFacts
<1> HIDE DEF q
<1>2. PICK s \in SMState : s = smp[p]
  BY SmpTypeFacts
<1>3. PICK m \in SMPMessage : m = Head(line[p])
  BY SmpTypeFacts DEF HandleSMP2, Incoming
<1>4. line[p] # <<>> /\ m.type = "smp2" /\ MsgOK(own, re, p, m)
  BY <1>3, HeadOK DEF Explains, HandleSMP2, Incoming
<1>5. UNCHANGED <<asked, trust, exponents, typed, smooth, crossed>>
  BY DEF HandleSMP2
<1>6. PICK gens : gens = {s.x, m.x}
  OBVIOUS
<1>7. /\ m.x \in 1..exponents /\ own[m.x] = q
      /\ ~(smp[q].nextExpected = 2 /\ smp[q].x = m.x)
      /\ re[m.x] # NoExponent => Bytes(typed[q][m.x]) = m.secret /\ m.secret # NoSecret
  BY <1>4 DEF MsgOK, q
<1>8. ASSUME s.nextExpected = 2
      PROVE  /\ s.x \in 1..exponents /\ own[s.x] = p /\ re[s.x] = NoExponent /\ s.x # NoExponent
             /\ Bytes(typed[p][s.x]) = s.secret /\ s.secret # NoSecret
             /\ m.x \in Exponent /\ s.x \in Exponent /\ s.x # m.x
  BY <1>1, <1>2, <1>7, <1>8, ExponentFacts DEF Explains, StateOK
\* The new generators are not those of a question that waits.
<1>9. ASSUME NEW t, s.nextExpected = 2, smp'[p] = t, t.nextExpected # 2, smp'[q] = smp[q]
      PROVE  GensOK(own, re, gens)'
  <2>1. gens \subseteq 1..exponents'
    BY <1>5, <1>6, <1>7, <1>8, <1>9
  <2>2. ASSUME NEW r \in Users, smp'[r].nextExpected = 2, smp'[r].x \in gens PROVE FALSE
    <3>1. r = q
      BY <1>1, <1>9, <2>2
    <3>2. smp[q].nextExpected = 2 /\ smp[q].x = s.x
      BY <1>6, <1>7, <1>9, <2>2, <3>1
    <3>3. own[s.x] = q
      BY <1>1, <3>2 DEF Explains, StateOK
    <3> QED  BY <1>1, <1>8, <1>9, <3>3
  <2> QED  BY <2>1, <2>2 DEF GensOK
<1>10. ASSUME NEW t \in SMState, s.nextExpected = 2, t.gens = gens, t.x = s.x, asked[p]
       PROVE  \A f \in t.gens \cup {t.x} :
                 f # NoExponent /\ own[f] = p /\ re[f] # NoExponent => Bytes(typed[p][f]) = NoSecret
  BY <1>1, <1>6, <1>7, <1>8, <1>10
<1>11. ASSUME s.nextExpected = 2, m.gens = gens,
              smp' = [smp EXCEPT ![p] =
                    [s EXCEPT !.nextExpected = 4, !.prog = "ok", !.gens = gens,
                              !.match = (m.secret = s.secret)]],
              TakeAndSend(p, SMP3(gens, s.secret)), told' = told
       PROVE  SmpInv'
  <2>1. PICK t : t = smp'[p]
    OBVIOUS
  <2>2. /\ t \in SMState /\ t.nextExpected = 4 /\ t.prog = "ok" /\ t.gens = gens /\ t.x = s.x
        /\ t.match = (m.secret = s.secret)
    <3>1. t = [s EXCEPT !.nextExpected = 4, !.prog = "ok", !.gens = gens,
                        !.match = (m.secret = s.secret)]
      BY <1>11, <2>1 DEF SmpTypes
    <3>2. /\ t.nextExpected = 4 /\ t.prog = "ok" /\ t.gens = gens /\ t.x = s.x
          /\ t.match = (m.secret = s.secret)
      BY <3>1 DEF SMState
    <3>3. gens \in SUBSET Exponent
      BY <1>6, <1>8, <1>11
    <3>4. 4 \in 1..4 /\ "ok" \in {"ok", "failed", "succeeded"} /\ (m.secret = s.secret) \in BOOLEAN
      OBVIOUS
    <3>5. t \in SMState
      BY <1>2, <3>1, <3>3, <3>4 DEF SMState
    <3> QED  BY <3>2, <3>5
  <2>3. smp'[q] = smp[q] /\ smp' \in [Users -> SMState]
    BY <1>1, <1>11, <2>1, <2>2 DEF SmpTypes
  <2>4. Later(own, re, own, re)
    BY <1>1, <1>5, <2>1, <2>2, <2>3, Kept, ExponentFacts
  <2>5. PairOfRun(own, re, p, s.x, m.x)
    <3>1. PICK f \in m.gens : m.gens = {s.x, f} /\ PairOfRun(own, re, p, s.x, f)
      BY <1>2, <1>4, <1>6, <1>11 DEF MsgOK, GensOK
    <3>2. f # s.x
      BY <1>1, <1>8, <1>11, <3>1 DEF PairOfRun, q
    <3>3. f = m.x
      BY <1>6, <1>11, <3>1, <3>2
    <3> QED  BY <3>1, <3>3
  <2>6. Bytes(typed[q][m.x]) = m.secret /\ m.secret # NoSecret
    <3>1. re[m.x] # NoExponent
      BY <1>8, <1>11, <2>5 DEF PairOfRun
    <3> QED  BY <1>7, <3>1
  <2>7. GensOK(own, re, gens)'
    <3>1. t.nextExpected # 2 /\ smp'[p] = t
      BY <2>1, <2>2
    <3> QED  BY <1>9, <1>11, <2>3, <3>1
  <2>8. PairOfRun(own, re, p, t.x, m.x)'
    BY <2>2, <2>4, <2>5, PairLater
  <2>9. StateOK(own, re, p)'
    <3>1. GensOK(own, re, t.gens)'
      BY <2>2, <2>7
    <3>2. \E f \in t.gens : /\ t.gens = {t.x, f} /\ PairOfRun(own, re, p, t.x, f)'
              /\ Bytes(typed'[p][t.x]) # NoSecret /\ Bytes(typed'[q][f]) # NoSecret
              /\ t.match = (Bytes(typed'[p][t.x]) = Bytes(typed'[q][f]))
      <4>1. m.x \in t.gens /\ t.gens = {t.x, m.x}
        BY <1>6, <2>2
      <4>2. Bytes(typed'[p][t.x]) = s.secret /\ Bytes(typed'[q][m.x]) = m.secret /\ s.secret # NoSecret
        BY <1>5, <1>8, <1>11, <2>2, <2>6
      <4>3. t.match = (Bytes(typed'[p][t.x]) = Bytes(typed'[q][m.x]))
        BY <2>2, <4>2
      <4> QED  BY <2>6, <2>8, <4>1, <4>2, <4>3
    <3>3. t.x \in 1..exponents' /\ own[t.x] = p
      BY <1>5, <1>8, <1>11, <2>2
    <3>4. asked'[p] => \A f \in t.gens \cup {t.x} :
             f # NoExponent /\ own[f] = p /\ re[f] # NoExponent => Bytes(typed'[p][f]) = NoSecret
      BY <1>5, <1>10, <1>11, <2>2
    <3> QED  BY <2>1, <2>2, <3>1, <3>2, <3>3, <3>4 DEF StateOK, q
  <2>10. PICK n : n = SMP3(gens, s.secret)
    OBVIOUS
  <2>11. n \in SMPMessage /\ n.type = "smp3" /\ n.gens = gens /\ n.secret = s.secret
    <3>1. gens \in SUBSET Exponent
      BY <1>6, <1>8, <1>11
    <3> QED  BY <2>10, <3>1 DEF SMP3, SMPMessage, SMState
  <2>12. MsgOK(own, re, q, n)'
    <3>1. PairOfRun(own, re, p, s.x, m.x)'
      BY <2>4, <2>5, PairLater
    <3>2. Bytes(typed'[q][m.x]) # NoSecret /\ Bytes(typed'[p][s.x]) = n.secret /\ n.secret # NoSecret
      BY <1>5, <1>8, <1>11, <2>6, <2>11
    <3>3. s.x \in n.gens /\ m.x \in n.gens /\ n.gens = {s.x, m.x}
      BY <1>6, <2>11
    <3>4. GensOK(own, re, n.gens)'
      BY <2>7, <2>11
    <3>5. PICK a \in n.gens : a = s.x
      BY <3>3
    <3>6. PICK b \in n.gens : b = m.x
      BY <3>3
    <3>7. n.gens = {a, b} /\ PairOfRun(own, re, p, a, b)' /\ Bytes(typed'[q][b]) # NoSecret
          /\ Bytes(typed'[p][a]) = n.secret /\ n.secret # NoSecret
      BY <3>1, <3>2, <3>3, <3>5, <3>6
    <3> QED  BY <1>a, <2>11, <3>4, <3>7 DEF MsgOK
  <2>13. (\A r \in Users : LineOK(own, re, r, line[r])') /\ line' \in [Users -> Seq(SMPMessage)]
    BY <1>4, <1>11, <2>4, <2>10, <2>11, <2>12, LinesAnswered DEF Explains, q
  <2>14. \A r \in Users : VerdictsOK(own, r, told[r])'
    BY <1>11, <2>4, NothingTold DEF Explains
  <2>15. SmpTypes'
    BY <1>5, <1>11, <2>3, <2>13 DEF SmpTypes
  <2>16. TypedOK(own, re)'
    BY <1>5 DEF TypedOK, Explains
  <2> QED  BY <1>1, <1>5, <2>3, <2>4, <2>9, <2>13, <2>14, <2>15, <2>16, Assembled DEF q
<1>12. ASSUME s.nextExpected = 2,
              smp' = [smp EXCEPT ![p] =
                    [s EXCEPT !.nextExpected = 1, !.prog = "ok", !.gens = gens]],
              Take(p), told' = told
       PROVE  SmpInv'
  <2>1. PICK t : t = smp'[p]
    OBVIOUS
  <2>2. t \in SMState /\ t.nextExpected = 1 /\ t.prog = "ok" /\ t.gens = gens /\ t.x = s.x
    <3>1. t = [s EXCEPT !.nextExpected = 1, !.prog = "ok", !.gens = gens]
      BY <1>12, <2>1 DEF SmpTypes
    <3>2. t.nextExpected = 1 /\ t.prog = "ok" /\ t.gens = gens /\ t.x = s.x
      BY <3>1 DEF SMState
    <3>3. gens \in SUBSET Exponent
      BY <1>6, <1>8, <1>12
    <3>4. 1 \in 1..4 /\ "ok" \in {"ok", "failed", "succeeded"} /\ (m.secret = s.secret) \in BOOLEAN
      OBVIOUS
    <3>5. t \in SMState
      BY <1>2, <3>1, <3>3, <3>4 DEF SMState
    <3> QED  BY <3>2, <3>5
  <2>3. smp'[q] = smp[q] /\ smp' \in [Users -> SMState]
    BY <1>1, <1>12, <2>1, <2>2 DEF SmpTypes
  <2>4. Later(own, re, own, re)
    BY <1>1, <1>5, <2>1, <2>2, <2>3, Kept, ExponentFacts
  <2>5. GensOK(own, re, gens)'
    <3>1. t.nextExpected # 2 /\ smp'[p] = t
      BY <2>1, <2>2
    <3> QED  BY <1>9, <1>12, <2>3, <3>1
  <2>6. StateOK(own, re, p)'
    <3>1. GensOK(own, re, t.gens)'
      BY <2>2, <2>5
    <3>2. t.x \in 1..exponents' /\ own[t.x] = p
      BY <1>5, <1>8, <1>12, <2>2
    <3>3. asked'[p] => \A f \in t.gens \cup {t.x} :
             f # NoExponent /\ own[f] = p /\ re[f] # NoExponent => Bytes(typed'[p][f]) = NoSecret
      BY <1>5, <1>10, <1>12, <2>2
    <3> QED  BY <2>1, <2>2, <3>1, <3>2, <3>3 DEF StateOK
  <2>7. (\A r \in Users : LineOK(own, re, r, line[r])') /\ line' \in [Users -> Seq(SMPMessage)]
    BY <1>4, <1>12, <2>4, LinesTaken DEF Explains
  <2>8. \A r \in Users : VerdictsOK(own, r, told[r])'
    BY <1>12, <2>4, NothingTold DEF Explains
  <2>9. SmpTypes'
    BY <1>5, <1>12, <2>3, <2>7 DEF SmpTypes
  <2>10. TypedOK(own, re)'
    BY <1>5 DEF TypedOK, Explains
  <2> QED  BY <1>1, <1>5, <2>3, <2>4, <2>6, <2>7, <2>8, <2>9, <2>10, Assembled DEF q
<1>13. CASE s.nextExpected = 2 /\ m.gens = gens
  BY <1>2, <1>3, <1>6, <1>11, <1>13 DEF HandleSMP2
<1>14. CASE s.nextExpected = 2 /\ m.gens # gens
  BY <1>2, <1>3, <1>6, <1>12, <1>14 DEF HandleSMP2
<1>15. CASE s.nextExpected # 2
  BY <1>2, <1>4, <1>5, <1>15, IgnoredStep DEF HandleSMP2
<1> QED  BY <1>13, <1>14, <1>15

\* A side that ends a comparison: the generators stay, and a verdict is that
\* of a comparison.
LEMMA EndedState ==
  ASSUME SmpTypes, NEW own \in Draw, NEW re \in Cause, Explains(own, re), Later(own, re, own, re),
         NEW p \in Users, NEW s \in SMState, s = smp[p], NEW t, smp'[p] = t,
         t.nextExpected = 1, t.x = s.x, t.gens = s.gens,
         t.prog # "ok" => Compared(own, p, s.gens, t.prog = "succeeded"),
         asked' = asked, typed' = typed, exponents' = exponents
  PROVE  /\ StateOK(own, re, p)'
         /\ t.prog # "ok" => Compared(own, p, t.gens, t.prog = "succeeded")'
<1>1. GensOK(own, re, s.gens)'
  BY GensLater DEF Explains, StateOK
<1>2. GensOK(own, re, t.gens)'
  BY <1>1
<1>3. t.prog # "ok" => Compared(own, p, t.gens, t.prog = "succeeded")'
  BY ComparedLater
<1>4. t.x # NoExponent => t.x \in 1..exponents' /\ own[t.x] = p
  BY DEF Explains, StateOK
<1>5. asked'[p] => \A f \in t.gens \cup {t.x} :
         f # NoExponent /\ own[f] = p /\ re[f] # NoExponent => Bytes(typed'[p][f]) = NoSecret
  BY DEF Explains, StateOK
<1> QED  BY <1>2, <1>3, <1>4, <1>5 DEF StateOK

LEMMA ThirdStep ==
  ASSUME SmpTypes, NEW own \in Draw, NEW re \in Cause, Explains(own, re),
         NEW p \in Users, HandleSMP3(p)
  PROVE  SmpInv'
<1> DEFINE q == Contact(p)
<1>1. q \in Users /\ q # p /\ \A r \in Users : r = p \/ r = q
  BY ContactFacts
<1>a. Contact(q) = p
  BY ContactFacts
<1> HIDE DEF q
<1>2. PICK s \in SMState : s = smp[p]
  BY SmpTypeFacts
<1>3. PICK m \in SMPMessage : m = Head(line[p])
  BY SmpTypeFacts DEF HandleSMP3, Incoming
<1>4. line[p] # <<>> /\ m.type = "smp3" /\ MsgOK(own, re, p, m)
  BY <1>3, HeadOK DEF Explains, HandleSMP3, Incoming
<1>5. UNCHANGED <<asked, exponents, typed, smooth, crossed>>
  BY DEF HandleSMP3
<1>6. PICK convinced \in BOOLEAN : convinced = (m.gens = s.gens)
  OBVIOUS
<1>7. PICK same \in BOOLEAN : same = (m.secret = s.secret)
  OBVIOUS
<1>8. PICK t : t = [s EXCEPT !.nextExpected = 1,
                          !.match = IF convinced THEN same ELSE @,
                          !.prog = IF ~convinced THEN "ok"
                                   ELSE IF same THEN "succeeded" ELSE "failed"]
  OBVIOUS
<1>9. /\ t \in SMState /\ t.nextExpected = 1 /\ t.x = s.x /\ t.gens = s.gens
      /\ t.prog = IF ~convinced THEN "ok" ELSE IF same THEN "succeeded" ELSE "failed"
  <2>1. /\ t.nextExpected = 1 /\ t.x = s.x /\ t.gens = s.gens
        /\ t.prog = IF ~convinced THEN "ok" ELSE IF same THEN "succeeded" ELSE "failed"
    BY <1>8 DEF SMState
  <2>2. 1 \in 1..4 /\ t.prog \in {"ok", "failed", "succeeded"}
    BY <2>1
  <2>3. (IF convinced THEN same ELSE s.match) \in BOOLEAN
    BY DEF SMState
  <2>4. t \in SMState
    BY <1>8, <2>1, <2>2, <2>3 DEF SMState
  <2> QED  BY <2>1, <2>4
<1>10. ASSUME s.nextExpected = 3, smp' = [smp EXCEPT ![p] = t],
              trust' = [trust EXCEPT ![p] = IF s.question THEN @ ELSE t.prog = "succeeded"],
              IF convinced THEN TakeAndSend(p, SMP4(s.gens)) ELSE Take(p),
              TellVerdict(p, t)
       PROVE  SmpInv'
  <2>1. smp'[p] = t /\ smp'[q] = smp[q] /\ smp' \in [Users -> SMState]
    BY <1>1, <1>9, <1>10 DEF SmpTypes
  <2>2. Later(own, re, own, re)
    BY <1>1, <1>5, <1>9, <2>1, Kept, ExponentFacts
  <2>3. ASSUME convinced PROVE Compared(own, p, s.gens, t.prog = "succeeded")
    <3>1. PICK e, f \in m.gens :
              /\ m.gens = {e, f} /\ PairOfRun(own, re, q, e, f)
              /\ Bytes(typed[p][f]) # NoSecret
              /\ Bytes(typed[q][e]) = m.secret /\ m.secret # NoSecret
      BY <1>4 DEF MsgOK, q
    <3>2. /\ e \in 1..exponents /\ f \in 1..exponents /\ own[e] = q /\ own[f] = p
          /\ re[f] = e
      BY <1>a, <3>1 DEF PairOfRun
    <3>3. re[f] # NoExponent
      BY <3>2, ExponentFacts
    <3>4. f \in s.gens /\ s.gens = {f, e}
      BY <1>6, <2>3, <3>1
    <3>5. s.secret = Bytes(typed[p][f])
      BY <1>2, <1>10, <3>1, <3>2, <3>3, <3>4 DEF Explains, StateOK
    <3>6. (t.prog = "succeeded") = (Bytes(typed[p][f]) = Bytes(typed[q][e]))
      BY <1>7, <1>9, <2>3, <3>1, <3>5
    <3>7. typed[p][f].to = "answer" /\ typed[q][e].to = "ask"
      BY <1>1, <3>1, <3>2, <3>3, ExponentFacts DEF Explains, TypedOK, PairOfRun
    <3> QED  BY <3>1, <3>2, <3>4, <3>6, <3>7 DEF Compared, q
  <2>4. t.prog # "ok" => Compared(own, p, s.gens, t.prog = "succeeded")
    BY <1>9, <2>3
  <2>5. /\ StateOK(own, re, p)'
        /\ t.prog # "ok" => Compared(own, p, t.gens, t.prog = "succeeded")'
    BY <1>2, <1>5, <1>9, <2>1, <2>2, <2>4, EndedState
  <2>6. (\A r \in Users : LineOK(own, re, r, line[r])') /\ line' \in [Users -> Seq(SMPMessage)]
    <3>1. CASE convinced
      <4>1. PICK n : n = SMP4(s.gens)
        OBVIOUS
      <4>2. n \in SMPMessage /\ n.type = "smp4" /\ n.gens = s.gens
        BY <4>1 DEF SMP4, SMPMessage, SMState
      <4>3. GensOK(own, re, n.gens)
        BY <1>2, <4>2 DEF Explains, StateOK
      <4>4. GensOK(own, re, n.gens)'
        BY <2>2, <4>3, GensLater
      <4>5. MsgOK(own, re, q, n)'
        BY <4>2, <4>4 DEF MsgOK
      <4> QED  BY <1>4, <1>10, <2>2, <3>1, <4>1, <4>2, <4>5, LinesAnswered DEF Explains, q
    <3>2. CASE ~convinced
      BY <1>4, <1>10, <2>2, <3>2, LinesTaken DEF Explains
    <3> QED  BY <3>1, <3>2
  <2>7. /\ \A r \in Users : VerdictsOK(own, r, told[r])'
        /\ told' \in [Users -> Seq([run : SUBSET Exponent, verdict : BOOLEAN])]
    BY <1>9, <1>10, <2>2, <2>5, VerdictTold DEF Explains
  <2>8. SmpTypes'
    <3>1. trust' \in [Users -> BOOLEAN]
      BY <1>10 DEF SmpTypes
    <3> QED  BY <1>5, <2>1, <2>6, <2>7, <3>1 DEF SmpTypes
  <2>9. TypedOK(own, re)'
    BY <1>5 DEF TypedOK, Explains
  <2> QED  BY <1>1, <1>5, <2>1, <2>2, <2>5, <2>6, <2>7, <2>8, <2>9, Assembled DEF q
<1>11. CASE s.nextExpected = 3
  BY <1>2, <1>3, <1>6, <1>7, <1>8, <1>10, <1>11 DEF HandleSMP3
<1>12. CASE s.nextExpected # 3
  BY <1>2, <1>4, <1>5, <1>12, IgnoredStep DEF HandleSMP3
<1> QED  BY <1>11, <1>12

LEMMA FourthStep ==
  ASSUME SmpTypes, NEW own \in Draw, NEW re \in Cause, Explains(own, re),
         NEW p \in Users, HandleSMP4(p)
  PROVE  SmpInv'
<1> DEFINE q == Contact(p)
<1>1. q \in Users /\ q # p /\ \A r \in Users : r = p \/ r = q
  BY ContactFacts
<1>a. Contact(q) = p
  BY ContactFacts
<1> HIDE DEF q
<1>2. PICK s \in SMState : s = smp[p]
  BY SmpTypeFacts
<1>3. PICK m \in SMPMessage : m = Head(line[p])
  BY SmpTypeFacts DEF HandleSMP4, Incoming
<1>4. line[p] # <<>> /\ m.type = "smp4" /\ MsgOK(own, re, p, m)
  BY <1>3, HeadOK DEF Explains, HandleSMP4, Incoming
<1>5. UNCHANGED <<asked, exponents, typed, smooth, crossed>> /\ Take(p)
  BY DEF HandleSMP4
<1>6. PICK t : t = [s EXCEPT !.nextExpected = 1,
                          !.prog = IF m.gens # s.gens THEN "ok"
                                   ELSE IF s.match THEN "succeeded" ELSE "failed"]
  OBVIOUS
<1>7. /\ t \in SMState /\ t.nextExpected = 1 /\ t.x = s.x /\ t.gens = s.gens
      /\ t.prog = IF m.gens # s.gens THEN "ok" ELSE IF s.match THEN "succeeded" ELSE "failed"
  <2>1. /\ t.nextExpected = 1 /\ t.x = s.x /\ t.gens = s.gens
        /\ t.prog = IF m.gens # s.gens THEN "ok" ELSE IF s.match THEN "succeeded" ELSE "failed"
    BY <1>6 DEF SMState
  <2>2. 1 \in 1..4 /\ t.prog \in {"ok", "failed", "succeeded"}
    BY <2>1
  <2>3. t \in SMState
    BY <1>6, <2>1, <2>2 DEF SMState
  <2> QED  BY <2>1, <2>3
<1>8. ASSUME s.nextExpected = 4, smp' = [smp EXCEPT ![p] = t],
             trust' = [trust EXCEPT ![p] = t.prog = "succeeded"], TellVerdict(p, t)
      PROVE  SmpInv'
  <2>1. smp'[p] = t /\ smp'[q] = smp[q] /\ smp' \in [Users -> SMState]
    BY <1>1, <1>7, <1>8 DEF SmpTypes
  <2>2. Later(own, re, own, re)
    BY <1>1, <1>5, <1>7, <2>1, Kept, ExponentFacts
  <2>3. ASSUME t.prog # "ok" PROVE Compared(own, p, s.gens, t.prog = "succeeded")
    <3>1. PICK f \in s.gens : /\ s.gens = {s.x, f} /\ PairOfRun(own, re, p, s.x, f)
              /\ Bytes(typed[p][s.x]) # NoSecret /\ Bytes(typed[q][f]) # NoSecret
              /\ s.match = (Bytes(typed[p][s.x]) = Bytes(typed[q][f]))
      BY <1>2, <1>8 DEF Explains, StateOK, q
    <3>2. (t.prog = "succeeded") = s.match
      BY <1>7, <2>3 DEF SMState
    <3>3. re[f] # NoExponent /\ s.x \in Exponent /\ f \in Exponent /\ own[f] = q
          /\ own[s.x] = p /\ re[s.x] = NoExponent
      BY <3>1, ExponentFacts DEF PairOfRun, q
    <3>4. typed[p][s.x].to = "ask" /\ typed[q][f].to = "answer"
      BY <1>1, <3>1, <3>3 DEF Explains, TypedOK
    <3> QED  BY <3>1, <3>2, <3>4 DEF Compared, PairOfRun, q
  <2>4. /\ StateOK(own, re, p)'
        /\ t.prog # "ok" => Compared(own, p, t.gens, t.prog = "succeeded")'
    BY <1>2, <1>5, <1>7, <2>1, <2>2, <2>3, EndedState
  <2>5. (\A r \in Users : LineOK(own, re, r, line[r])') /\ line' \in [Users -> Seq(SMPMessage)]
    BY <1>4, <1>5, <2>2, LinesTaken DEF Explains
  <2>6. /\ \A r \in Users : VerdictsOK(own, r, told[r])'
        /\ told' \in [Users -> Seq([run : SUBSET Exponent, verdict : BOOLEAN])]
    BY <1>7, <1>8, <2>2, <2>4, VerdictTold DEF Explains
  <2>7. SmpTypes'
    <3>1. trust' \in [Users -> BOOLEAN]
      BY <1>8 DEF SmpTypes
    <3> QED  BY <1>5, <2>1, <2>5, <2>6, <3>1 DEF SmpTypes
  <2>8. TypedOK(own, re)'
    BY <1>5 DEF TypedOK, Explains
  <2> QED  BY <1>1, <1>5, <2>1, <2>2, <2>4, <2>5, <2>6, <2>7, <2>8, Assembled DEF q
<1>9. CASE s.nextExpected = 4
  BY <1>2, <1>3, <1>6, <1>8, <1>9 DEF HandleSMP4
<1>10. CASE s.nextExpected # 4
  BY <1>2, <1>4, <1>5, <1>10, IgnoredStep DEF HandleSMP4
<1> QED  BY <1>9, <1>10

LEMMA SmpInitial == SmpInit => SmpInv
<1> SUFFICES ASSUME SmpInit PROVE SmpInv
  OBVIOUS
<1>1. PICK p0 \in Users : TRUE
  BY UsersAssumption
<1>2. PICK own : own = [x \in Exponent |-> p0]
  OBVIOUS
<1>3. PICK re : re = [x \in Exponent |-> NoExponent]
  OBVIOUS
<1>4. own \in Draw /\ re \in Cause
  BY <1>2, <1>3 DEF Draw, Cause
<1>5. <<>> \in Seq(SMPMessage) /\ <<>> \in Seq([run : SUBSET Exponent, verdict : BOOLEAN])
  OBVIOUS
<1>6. DOMAIN <<>> = {}
  OBVIOUS
<1>7. SmpTypes
  <2>1. 0 \in 0..MaxExponents
    BY SmpBoundsAssumption
  <2>2. typed \in [Users -> [Exponent -> Typing \cup {Untyped}]]
    BY DEF SmpInit
  <2> QED  BY <1>5, <2>1, <2>2, FreshState DEF SmpInit, SmpTypes
<1>8. TypedOK(own, re)
  <2>1. exponents = 0 /\ 1..0 = {}
    BY DEF SmpInit
  <2>2. \A p \in Users : \A x \in Exponent : Bytes(typed[p][x]) = NoSecret
    BY BytesFacts DEF SmpInit
  <2> QED  BY <2>1, <2>2 DEF TypedOK
<1>9. \A p \in Users : StateOK(own, re, p)
  <2> TAKE p \in Users
  <2>1. smp[p] = StateNew /\ ~asked[p]
    BY DEF SmpInit
  <2>2. GensOK(own, re, StateNew.gens)
    BY FreshState DEF GensOK
  <2> QED  BY <2>1, <2>2, FreshState DEF StateOK
<1>10. \A p \in Users : LineOK(own, re, p, line[p]) /\ VerdictsOK(own, p, told[p])
  BY <1>5, <1>6 DEF SmpInit, LineOK, VerdictsOK
<1> QED  BY <1>4, <1>7, <1>8, <1>9, <1>10 DEF SmpInv, Explains

LEMMA SmpStutter == SmpInv /\ UNCHANGED smpVars => SmpInv'
<1> SUFFICES ASSUME SmpInv, UNCHANGED smpVars PROVE SmpInv'
  OBVIOUS
<1>1. PICK own \in Draw, re \in Cause : Explains(own, re)
  BY DEF SmpInv
<1>2. SmpTypes'
  BY DEF SmpInv, SmpTypes, smpVars
<1>b. Later(own, re, own, re)
  BY ExponentFacts DEF SmpInv, Later, smpVars
<1>3. \A p \in Users : StateOK(own, re, p)'
  <2>1. smp' = smp /\ asked' = asked /\ typed' = typed
    BY DEF smpVars
  <2> QED  BY <1>1, <1>b, <2>1, StateLater DEF Explains
<1>4. \A p \in Users : LineOK(own, re, p, line[p])'
  BY <1>1 DEF Explains, LineOK, MsgOK, GensOK, PairOfRun, smpVars
<1>5. TypedOK(own, re)'
  BY <1>1 DEF Explains, TypedOK, smpVars
<1>6. \A p \in Users : VerdictsOK(own, p, told[p])'
  <2>1. told' = told
    BY DEF smpVars
  <2> QED  BY <1>1, <1>b, <2>1, VerdictsLater DEF Explains, VerdictsOK
<1>7. Explains(own, re)'
  BY <1>3, <1>4, <1>5, <1>6 DEF Explains
<1> QED  BY <1>2, <1>7 DEF SmpInv

LEMMA SmpStep == SmpInv /\ [SmpNext]_smpVars => SmpInv'
<1> SUFFICES ASSUME SmpInv, [SmpNext]_smpVars PROVE SmpInv'
  OBVIOUS
<1>1. SmpTypes
  BY DEF SmpInv
<1>2. PICK own \in Draw, re \in Cause : Explains(own, re)
  BY DEF SmpInv
<1>3. CASE UNCHANGED smpVars
  BY <1>3, SmpStutter
<1>4. CASE SmpNext
  <2>1. PICK p \in Users :
          \/ AskQuestion(p) \/ AnswerQuestion(p) \/ AnswerTooLate(p)
          \/ HandleSMP1(p) \/ HandleSMP2(p) \/ HandleSMP3(p) \/ HandleSMP4(p)
          \/ HandleAbort(p)
          \/ RestartUser(p) \/ LoseSMP(p)
    BY <1>4 DEF SmpNext
  <2>2. CASE AskQuestion(p)
    BY <1>1, <1>2, <2>2, AskStep
  <2>3. CASE AnswerQuestion(p)
    BY <1>1, <1>2, <2>3, AnswerStep
  <2>4. CASE AnswerTooLate(p) \/ RestartUser(p)
    BY <1>1, <1>2, <2>4, GoneStep DEF AnswerTooLate, RestartUser
  <2>5. CASE HandleSMP1(p)
    BY <1>1, <1>2, <2>5, FirstStep
  <2>6. CASE HandleSMP2(p)
    BY <1>1, <1>2, <2>6, SecondStep
  <2>7. CASE HandleSMP3(p)
    BY <1>1, <1>2, <2>7, ThirdStep
  <2>8. CASE HandleSMP4(p)
    BY <1>1, <1>2, <2>8, FourthStep
  <2>9. CASE HandleAbort(p)
    BY <1>1, <1>2, <2>9, AbortStep
  <2>10. CASE LoseSMP(p)
    BY <1>1, <1>2, <2>10, LoseStep
  <2> QED  BY <2>1, <2>2, <2>3, <2>4, <2>5, <2>6, <2>7, <2>8, <2>9, <2>10
<1> QED  BY <1>3, <1>4

\* The history of the draws explains every state of the comparison: who
\* waits for whose answer, and what each verdict was about.
THEOREM SmpInvariant == SmpSpec => []SmpInv
BY SmpInitial, SmpStep, PTL DEF SmpSpec

\* The state of the comparison is type correct, and who waits for the last
\* message holds the generators his own exponent is part of.
THEOREM SmpTypeCorrect == SmpSpec => []SmpTypeOK
<1>1. SmpInv => SmpTypeOK
  <2> SUFFICES ASSUME SmpInv PROVE SmpTypeOK
    OBVIOUS
  <2>1. SmpTypes
    BY DEF SmpInv
  <2>2. PICK own \in Draw, re \in Cause : Explains(own, re)
    BY DEF SmpInv
  <2>3. \A p \in Users : smp[p].nextExpected = 4 => smp[p].x \in smp[p].gens
    BY <2>2 DEF Explains, StateOK
  <2> QED  BY <2>1, <2>3 DEF SmpTypes, SmpTypeOK
<1> QED  BY <1>1, SmpInvariant, PTL

\* A verdict the user is told on a comparison is whether the bytes of what
\* one user typed to ask are those of what the other typed to answer, and so
\* whether they typed the same when both typed ASCII, whatever was asked,
\* stopped, lost or restarted in between; so two users told of one comparison
\* are told the same.
THEOREM VerdictsAreTrue == SmpSpec => []VerdictIsTrue
<1>1. SmpInv => VerdictIsTrue
  <2> SUFFICES ASSUME SmpInv, NEW p \in Users, NEW i \in DOMAIN told[p], told[p][i].run # {}
               PROVE  \E x, y \in told[p][i].run :
                        LET mine == typed[p][x]
                            others == typed[Contact(p)][y]
                        IN  /\ {mine.to, others.to} = {"ask", "answer"}
                            /\ told[p][i].verdict = (Code(mine) = Code(others))
                            /\ {mine.text, others.text} \subseteq Ascii
                                  => told[p][i].verdict = (mine.text = others.text)
    BY DEF VerdictIsTrue
  <2>1. SmpTypes
    BY DEF SmpInv
  <2>2. PICK own \in Draw, re \in Cause : Explains(own, re)
    BY DEF SmpInv
  <2>3. PICK t : t = told[p][i]
    OBVIOUS
  <2>4. Compared(own, p, t.run, t.verdict)
    BY <2>2, <2>3 DEF Explains, VerdictsOK
  <2>5. PICK a, b \in 1..exponents :
           /\ t.run = {a, b} /\ own[a] = p /\ own[b] = Contact(p)
           /\ Bytes(typed[p][a]) # NoSecret /\ Bytes(typed[Contact(p)][b]) # NoSecret
           /\ t.verdict = (Bytes(typed[p][a]) = Bytes(typed[Contact(p)][b]))
           /\ {typed[p][a].to, typed[Contact(p)][b].to} = {"ask", "answer"}
    BY <2>4 DEF Compared
  <2>6. a \in Exponent /\ b \in Exponent /\ Contact(p) \in Users
    BY <2>1, ExponentFacts, ContactFacts
  <2>7. PICK mine \in Typing : mine = typed[p][a]
    BY <2>1, <2>5, <2>6, BytesCompared DEF SmpTypes
  <2>8. PICK others \in Typing : others = typed[Contact(p)][b]
    BY <2>1, <2>5, <2>6, BytesCompared DEF SmpTypes
  <2>9. t.verdict = (Code(mine) = Code(others))
    BY <2>5, <2>7, <2>8, BytesFacts
  <2>10. ASSUME {mine.text, others.text} \subseteq Ascii
         PROVE  t.verdict = (mine.text = others.text)
    <3>1. \A u \in Typing : u.text \in Ascii => Code(u) = ToUtf8[u.text] /\ u.text \in Secrets
      BY DEF Typing, Ascii, Code
    <3>2. Code(mine) = ToUtf8[mine.text] /\ Code(others) = ToUtf8[others.text]
      BY <2>10, <3>1
    <3>3. Code(mine) = Code(others) <=> mine.text = others.text
      BY <3>1, <3>2, <2>10, SecretsAssumption
    <3> QED  BY <2>9, <3>3
  <2>11. {mine.to, others.to} = {"ask", "answer"}
    BY <2>5, <2>7, <2>8
  <2> QED  BY <2>3, <2>5, <2>7, <2>8, <2>9, <2>10, <2>11
<1> QED  BY <1>1, SmpInvariant, PTL

-----------------------------------------------------------------------------
(* Comparisons that do not cross go through six phases, one message or one *)
(* open question at a time.                                                *)

OnlyMessage(r, type) == Len(line[r]) = 1 /\ line[r][1].type = type
Owes(r, n) == 2 * Len(told[r]) + n = exponents

Resting(p, q) ==
    /\ line[p] = <<>> /\ line[q] = <<>> /\ ~asked[q]
    /\ smp[p].nextExpected = 1 /\ smp[q].nextExpected = 1
    /\ Owes(p, 0) /\ Owes(q, 0)
Asking(p, q) ==
    /\ line[p] = <<>> /\ OnlyMessage(q, "smp1") /\ line[q][1].x = smp[p].x /\ ~asked[q]
    /\ smp[p].nextExpected = 2 /\ smp[q].nextExpected = 1
    /\ Owes(p, 1) /\ Owes(q, 1)
Considering(p, q) ==
    /\ line[p] = <<>> /\ line[q] = <<>> /\ asked[q] /\ smp[q].gens = {smp[p].x, smp[q].x}
    /\ smp[p].nextExpected = 2 /\ smp[q].nextExpected = 1
    /\ Owes(p, 2) /\ Owes(q, 2)
Answering(p, q) ==
    /\ OnlyMessage(p, "smp2") /\ line[q] = <<>> /\ ~asked[q]
    /\ smp[q].gens = {smp[p].x, smp[q].x}
    /\ line[p][1].x = smp[q].x /\ line[p][1].gens = smp[q].gens
    /\ smp[p].nextExpected = 2 /\ smp[q].nextExpected = 3
    /\ Owes(p, 2) /\ Owes(q, 2)
Opening(p, q) ==
    /\ line[p] = <<>> /\ OnlyMessage(q, "smp3") /\ ~asked[q]
    /\ line[q][1].gens = smp[q].gens /\ smp[p].gens = smp[q].gens
    /\ smp[p].nextExpected = 4 /\ smp[q].nextExpected = 3
    /\ Owes(p, 2) /\ Owes(q, 2)
Closing(p, q) ==
    /\ OnlyMessage(p, "smp4") /\ line[q] = <<>> /\ ~asked[q]
    /\ line[p][1].gens = smp[p].gens
    /\ smp[p].nextExpected = 4 /\ smp[q].nextExpected = 1
    /\ Owes(p, 2) /\ Owes(q, 0)

InPhase(p, q) ==
    /\ ~asked[p]
    /\ \/ Resting(p, q) \/ Asking(p, q) \/ Considering(p, q)
       \/ Answering(p, q) \/ Opening(p, q) \/ Closing(p, q)

SmpFlow ==
    smooth /\ ~crossed => \E p, q \in Users : Users = {p, q} /\ p # q /\ InPhase(p, q)

LEMMA OneMessage ==
  ASSUME SmpTypes, NEW r \in Users, NEW type, OnlyMessage(r, type)
  PROVE  line[r] # <<>> /\ Head(line[r]) = line[r][1] /\ Tail(line[r]) = <<>>
         /\ Head(line[r]).type = type
<1>1. PICK w \in Seq(SMPMessage) : w = line[r]
  BY DEF SmpTypes
<1>2. Len(w) = 1 /\ w[1].type = type
  BY <1>1 DEF OnlyMessage
<1>3. w # <<>> /\ Head(w) = w[1]
  BY <1>1, <1>2
<1>4. PICK v : v = Tail(w)
  OBVIOUS
<1>a. v \in Seq(SMPMessage) /\ Len(v) = Len(w) - 1
  BY <1>2, <1>3, <1>4
<1>5. v = <<>>
  <2>1. Len(v) = 0
    BY <1>2, <1>a
  <2> QED  BY <1>a, <2>1
<1> QED  BY <1>1, <1>2, <1>3, <1>4, <1>5

LEMMA FirstMessage ==
  ASSUME NEW m
  PROVE  Len(Append(<<>>, m)) = 1 /\ Append(<<>>, m)[1] = m
  OBVIOUS

\* What a step of r does to the two lines.
LEMMA Took ==
  ASSUME SmpTypes, NEW r \in Users, NEW c \in Users, c # r, Take(r)
  PROVE  line'[r] = Tail(line[r]) /\ line'[c] = line[c]
  BY DEF Take, SmpTypes

LEMMA Sent ==
  ASSUME SmpTypes, NEW r \in Users, NEW c \in Users, c # r, Contact(r) = c, NEW m, Send(r, m)
  PROVE  line'[c] = Append(line[c], m) /\ line'[r] = line[r]
  BY DEF Send, SmpTypes

LEMMA Exchanged ==
  ASSUME SmpTypes, NEW r \in Users, NEW c \in Users, c # r, NEW m, TakeAndSend(r, m)
  PROVE  line'[c] = Append(line[c], m) /\ line'[r] = Tail(line[r])
  BY DEF TakeAndSend, SmpTypes

LEMMA ToldOnce ==
  ASSUME SmpTypes, NEW r \in Users, NEW c \in Users, c # r, NEW s, s.prog # "ok", TellVerdict(r, s)
  PROVE  Len(told'[r]) = Len(told[r]) + 1 /\ told'[c] = told[c]
<1>1. PICK V : V = [run : SUBSET Exponent, verdict : BOOLEAN]
  OBVIOUS
<1>2. PICK v : v = [run |-> s.gens, verdict |-> s.prog = "succeeded"]
  OBVIOUS
<1>3. told \in [Users -> Seq(V)]
  BY <1>1 DEF SmpTypes
<1>4. told' = [told EXCEPT ![r] = Append(@, v)]
  BY <1>2 DEF TellVerdict
<1>5. told'[r] = Append(told[r], v) /\ told'[c] = told[c] /\ told[r] \in Seq(V)
  BY <1>3, <1>4
<1>6. Len(Append(told[r], v)) = Len(told[r]) + 1
  BY <1>5
<1> QED  BY <1>5, <1>6

LEMMA CountFacts ==
  ASSUME SmpTypes, NEW r \in Users
  PROVE  exponents \in Nat /\ Len(told[r]) \in Nat
<1>1. PICK V : V = [run : SUBSET Exponent, verdict : BOOLEAN]
  OBVIOUS
<1>2. told[r] \in Seq(V)
  BY <1>1 DEF SmpTypes
<1> QED  BY <1>2, ExponentFacts

\* Two users who compare, and one of them who takes a step.
InTurn(p, q) == p \in Users /\ q \in Users /\ Users = {p, q} /\ p # q /\ InPhase(p, q)

LEMMA AskFlows ==
  ASSUME SmpTypes, NEW p, NEW q, InTurn(p, q), NEW r \in Users, AskQuestion(r), ~crossed'
  PROVE  \E p2, q2 \in Users : InTurn(p2, q2)'
<1>1. PICK c \in Users : c # r /\ Contact(r) = c /\ Users = {r, c}
  BY ContactFacts DEF InTurn
<1>2. Idle
  BY DEF AskQuestion
<1>3. /\ line[r] = <<>> /\ line[c] = <<>> /\ ~asked[r] /\ ~asked[c]
      /\ smp[r].nextExpected = 1 /\ smp[c].nextExpected = 1
  BY <1>2 DEF Idle, Silent
<1>4. Resting(p, q)
  <2>1. <<>> \in Seq(SMPMessage) /\ Len(<<>>) = 0
    OBVIOUS
  <2>2. \A u \in Users : Len(line[u]) = 0 /\ smp[u].nextExpected = 1
    BY <1>2, <2>1 DEF Idle, Silent
  <2> QED  BY <2>2 DEF InTurn, InPhase, Asking, Considering, Answering, Opening, Closing, OnlyMessage
<1>5. Owes(r, 0) /\ Owes(c, 0)
  BY <1>4 DEF Resting, InTurn
<1>6. PICK x \in Nat : x = exponents + 1
  BY ExponentFacts
<1>7. PICK text \in Secrets, question \in BOOLEAN :
        /\ smp' = [smp EXCEPT ![r] =
              [@ EXCEPT !.nextExpected = 2, !.prog = "ok", !.x = x,
                        !.secret = ToAscii[text], !.question = FALSE]]
        /\ Send(r, SMP1(x, question))
  BY <1>6 DEF AskQuestion
<1>8. smp'[r].nextExpected = 2 /\ smp'[r].x = x /\ smp'[c] = smp[c]
  BY <1>1, <1>7 DEF SmpTypes, SMState
<1>9. PICK m : m = SMP1(x, question)
  OBVIOUS
<1>10. m.type = "smp1" /\ m.x = x
  BY <1>9 DEF SMP1
<1>11. line'[c] = Append(<<>>, m) /\ line'[r] = <<>>
  BY <1>1, <1>3, <1>7, <1>9, Sent
<1>12. Len(line'[c]) = 1 /\ line'[c][1] = m
  BY <1>11, FirstMessage
<1>13. asked' = asked /\ told' = told /\ exponents' = exponents + 1
  BY DEF AskQuestion, Draws
<1>14. Owes(r, 1)' /\ Owes(c, 1)'
  BY <1>5, <1>13, CountFacts DEF Owes
<1>15. Asking(r, c)'
  BY <1>3, <1>8, <1>10, <1>11, <1>12, <1>13, <1>14 DEF Asking, OnlyMessage
<1> QED  BY <1>1, <1>3, <1>13, <1>15 DEF InTurn, InPhase

LEMMA AnswerFlows ==
  ASSUME SmpTypes, NEW p, NEW q, InTurn(p, q), NEW r \in Users, AnswerQuestion(r)
  PROVE  \E p2, q2 \in Users : InTurn(p2, q2)'
<1>1. asked[r]
  BY DEF AnswerQuestion
<1>2. r = q /\ Considering(p, q)
  BY <1>1 DEF InTurn, InPhase, Resting, Asking, Considering, Answering, Opening, Closing
<1>3. Contact(q) = p /\ p \in Users /\ q \in Users /\ p # q
  BY ContactFacts DEF InTurn
<1>4. PICK text \in Secrets :
        /\ smp' = [smp EXCEPT ![q] = [@ EXCEPT !.nextExpected = 3, !.secret = ToUtf8[text]]]
        /\ Send(q, SMP2(smp[q].x, smp[q].gens, ToUtf8[text]))
  BY <1>2 DEF AnswerQuestion
<1>5. smp'[q].nextExpected = 3 /\ smp'[q].x = smp[q].x /\ smp'[q].gens = smp[q].gens
      /\ smp'[p] = smp[p]
  BY <1>3, <1>4 DEF SmpTypes, SMState
<1>6. PICK m : m = SMP2(smp[q].x, smp[q].gens, ToUtf8[text])
  OBVIOUS
<1>7. m.type = "smp2" /\ m.x = smp[q].x /\ m.gens = smp[q].gens
  BY <1>6 DEF SMP2
<1>8. line'[p] = Append(<<>>, m) /\ line'[q] = <<>>
  BY <1>2, <1>3, <1>4, <1>6, Sent DEF Considering
<1>9. Len(line'[p]) = 1 /\ line'[p][1] = m
  BY <1>8, FirstMessage
<1>10. told' = told /\ exponents' = exponents /\ ~asked'[q] /\ asked'[p] = asked[p]
  BY <1>2, <1>3 DEF AnswerQuestion, SmpTypes
<1>11. Owes(p, 2)' /\ Owes(q, 2)'
  BY <1>2, <1>10 DEF Owes, Considering
<1>12. Answering(p, q)'
  BY <1>2, <1>5, <1>7, <1>8, <1>9, <1>10, <1>11 DEF Answering, Considering, OnlyMessage
<1> QED  BY <1>3, <1>10, <1>12 DEF InTurn, InPhase

\* The phase a message arrives in, and at whom.
LEMMA ArrivesInPhase ==
  ASSUME SmpTypes, NEW p, NEW q, InTurn(p, q), NEW r \in Users, NEW type, Incoming(r, type)
  PROVE  /\ type = "smp1" => r = q /\ Asking(p, q)
         /\ type = "smp2" => r = p /\ Answering(p, q)
         /\ type = "smp3" => r = q /\ Opening(p, q)
         /\ type = "smp4" => r = p /\ Closing(p, q)
         /\ type # "abort"
<1>1. line[r] # <<>> /\ Head(line[r]).type = type
  BY DEF Incoming
<1>2. r = p \/ r = q
  BY DEF InTurn
<1>3. CASE Resting(p, q)
  BY <1>1, <1>2, <1>3 DEF Resting
<1>4. CASE Asking(p, q)
  BY <1>1, <1>2, <1>4, OneMessage DEF Asking
<1>5. CASE Considering(p, q)
  BY <1>1, <1>2, <1>5 DEF Considering
<1>6. CASE Answering(p, q)
  BY <1>1, <1>2, <1>6, OneMessage DEF Answering
<1>7. CASE Opening(p, q)
  BY <1>1, <1>2, <1>7, OneMessage DEF Opening
<1>8. CASE Closing(p, q)
  BY <1>1, <1>2, <1>8, OneMessage DEF Closing
<1> QED  BY <1>3, <1>4, <1>5, <1>6, <1>7, <1>8 DEF InTurn, InPhase

LEMMA FirstFlows ==
  ASSUME SmpTypes, NEW p, NEW q, InTurn(p, q), NEW r \in Users, HandleSMP1(r)
  PROVE  \E p2, q2 \in Users : InTurn(p2, q2)'
<1>1. r = q /\ Asking(p, q)
  BY ArrivesInPhase DEF HandleSMP1
<1>2. p \in Users /\ q \in Users /\ p # q
  BY DEF InTurn
<1>3. PICK m : m = Head(line[q])
  OBVIOUS
<1>4. m.x = smp[p].x /\ Tail(line[q]) = <<>>
  BY <1>1, <1>2, <1>3, OneMessage DEF Asking
<1>5. /\ exponents' = exponents + 1
      /\ smp' = [smp EXCEPT ![q] =
                    [@ EXCEPT !.prog = "ok", !.x = exponents + 1, !.gens = {m.x, exponents + 1},
                              !.question = m.question]]
      /\ asked' = [asked EXCEPT ![q] = TRUE]
      /\ Take(q)
      /\ told' = told
  BY <1>1, <1>3 DEF HandleSMP1, Asking, Draws
<1>6. /\ smp'[q].nextExpected = 1 /\ smp'[q].gens = {smp[p].x, smp'[q].x} /\ smp'[p] = smp[p]
  BY <1>1, <1>2, <1>4, <1>5 DEF SmpTypes, SMState, Asking
<1>7. line'[q] = <<>> /\ line'[p] = line[p]
  BY <1>2, <1>4, <1>5, Took
<1>8. asked'[q] /\ asked'[p] = asked[p]
  BY <1>2, <1>5 DEF SmpTypes
<1>9. Owes(p, 2)' /\ Owes(q, 2)'
  BY <1>1, <1>2, <1>5, CountFacts DEF Owes, Asking
<1>10. Considering(p, q)'
  BY <1>1, <1>6, <1>7, <1>8, <1>9 DEF Considering, Asking
<1> QED  BY <1>2, <1>8, <1>10 DEF InTurn, InPhase

LEMMA SecondFlows ==
  ASSUME SmpTypes, NEW p, NEW q, InTurn(p, q), NEW r \in Users, HandleSMP2(r)
  PROVE  \E p2, q2 \in Users : InTurn(p2, q2)'
<1>1. r = p /\ Answering(p, q)
  BY ArrivesInPhase DEF HandleSMP2
<1>2. p \in Users /\ q \in Users /\ p # q
  BY DEF InTurn
<1>3. PICK m : m = Head(line[p])
  OBVIOUS
<1>4. PICK gens : gens = {smp[p].x, m.x}
  OBVIOUS
<1>5. m.x = smp[q].x /\ m.gens = gens /\ gens = smp[q].gens /\ Tail(line[p]) = <<>>
  BY <1>1, <1>2, <1>3, <1>4, OneMessage DEF Answering
<1>6. /\ smp' = [smp EXCEPT ![p] =
                    [smp[p] EXCEPT !.nextExpected = 4, !.prog = "ok", !.gens = gens,
                              !.match = (m.secret = smp[p].secret)]]
      /\ TakeAndSend(p, SMP3(gens, smp[p].secret))
      /\ told' = told
  BY <1>1, <1>3, <1>4, <1>5 DEF HandleSMP2, Answering
<1>7. smp'[p].nextExpected = 4 /\ smp'[p].gens = gens /\ smp'[q] = smp[q]
  BY <1>2, <1>6 DEF SmpTypes, SMState
<1>8. PICK n : n = SMP3(gens, smp[p].secret)
  OBVIOUS
<1>9. n.type = "smp3" /\ n.gens = gens
  BY <1>8 DEF SMP3
<1>10. line'[q] = Append(<<>>, n) /\ line'[p] = <<>>
  <2>1. TakeAndSend(p, n) /\ q # p /\ line[q] = <<>>
    BY <1>1, <1>2, <1>6, <1>8 DEF Answering
  <2>2. line'[q] = Append(line[q], n) /\ line'[p] = Tail(line[p])
    BY <1>2, <2>1, Exchanged
  <2> QED  BY <1>5, <2>1, <2>2
<1>11. Len(line'[q]) = 1 /\ line'[q][1] = n
  BY <1>10, FirstMessage
<1>12. asked' = asked /\ exponents' = exponents
  BY DEF HandleSMP2
<1>13. Owes(p, 2)' /\ Owes(q, 2)'
  BY <1>1, <1>6, <1>12 DEF Owes, Answering
<1>14. Opening(p, q)'
  BY <1>1, <1>5, <1>7, <1>9, <1>10, <1>11, <1>12, <1>13 DEF Opening, Answering, OnlyMessage
<1> QED  BY <1>2, <1>12, <1>14 DEF InTurn, InPhase

LEMMA ThirdFlows ==
  ASSUME SmpTypes, NEW p, NEW q, InTurn(p, q), NEW r \in Users, HandleSMP3(r)
  PROVE  \E p2, q2 \in Users : InTurn(p2, q2)'
<1>1. r = q /\ Opening(p, q)
  BY ArrivesInPhase DEF HandleSMP3
<1>2. p \in Users /\ q \in Users /\ p # q
  BY DEF InTurn
<1>3. PICK m : m = Head(line[q])
  OBVIOUS
<1>4. PICK s \in SMState : s = smp[q]
  BY <1>2, SmpTypeFacts
<1>5. m.gens = s.gens /\ smp[p].gens = s.gens /\ s.nextExpected = 3 /\ Tail(line[q]) = <<>>
  BY <1>1, <1>2, <1>3, <1>4, OneMessage DEF Opening
<1>6. PICK t : t = [s EXCEPT !.nextExpected = 1, !.match = (m.secret = s.secret),
                          !.prog = IF m.secret = s.secret THEN "succeeded" ELSE "failed"]
  OBVIOUS
<1>7. /\ smp' = [smp EXCEPT ![q] = t]
      /\ TakeAndSend(q, SMP4(s.gens))
      /\ TellVerdict(q, t)
  BY <1>1, <1>3, <1>4, <1>5, <1>6 DEF HandleSMP3
<1>8. t.nextExpected = 1 /\ t.prog # "ok" /\ smp'[q] = t /\ smp'[p] = smp[p]
  BY <1>2, <1>6, <1>7 DEF SmpTypes, SMState
<1>9. PICK n : n = SMP4(s.gens)
  OBVIOUS
<1>10. n.type = "smp4" /\ n.gens = s.gens
  BY <1>9 DEF SMP4
<1>11. line'[p] = Append(<<>>, n) /\ line'[q] = <<>>
  BY <1>1, <1>2, <1>5, <1>7, <1>9, Exchanged DEF Opening
<1>12. Len(line'[p]) = 1 /\ line'[p][1] = n
  BY <1>11, FirstMessage
<1>13. asked' = asked /\ exponents' = exponents
  BY DEF HandleSMP3
<1>14. Len(told'[q]) = Len(told[q]) + 1 /\ told'[p] = told[p]
  BY <1>2, <1>7, <1>8, ToldOnce
<1>15. Owes(p, 2)' /\ Owes(q, 0)'
  <2>1. Len(told[q]) \in Nat /\ exponents \in Nat
    BY <1>2, CountFacts
  <2>2. 2 * Len(told[q]) + 2 = exponents /\ 2 * Len(told[p]) + 2 = exponents
    BY <1>1 DEF Owes, Opening
  <2>3. 2 * (Len(told[q]) + 1) + 0 = exponents
    BY <2>1, <2>2
  <2> QED  BY <1>13, <1>14, <2>2, <2>3 DEF Owes
<1>16. Closing(p, q)'
  BY <1>1, <1>5, <1>8, <1>10, <1>11, <1>12, <1>13, <1>15 DEF Closing, Opening, OnlyMessage
<1> QED  BY <1>2, <1>13, <1>16 DEF InTurn, InPhase

LEMMA FourthFlows ==
  ASSUME SmpTypes, NEW p, NEW q, InTurn(p, q), NEW r \in Users, HandleSMP4(r)
  PROVE  \E p2, q2 \in Users : InTurn(p2, q2)'
<1>1. r = p /\ Closing(p, q)
  BY ArrivesInPhase DEF HandleSMP4
<1>2. p \in Users /\ q \in Users /\ p # q
  BY DEF InTurn
<1>3. PICK m : m = Head(line[p])
  OBVIOUS
<1>4. PICK s \in SMState : s = smp[p]
  BY <1>2, SmpTypeFacts
<1>5. m.gens = s.gens /\ s.nextExpected = 4 /\ Tail(line[p]) = <<>>
  BY <1>1, <1>2, <1>3, <1>4, OneMessage DEF Closing
<1>6. PICK t : t = [s EXCEPT !.nextExpected = 1,
                          !.prog = IF s.match THEN "succeeded" ELSE "failed"]
  OBVIOUS
<1>7. smp' = [smp EXCEPT ![p] = t] /\ TellVerdict(p, t) /\ Take(p)
  BY <1>1, <1>3, <1>4, <1>5, <1>6 DEF HandleSMP4
<1>8. t.nextExpected = 1 /\ t.prog # "ok" /\ smp'[p] = t /\ smp'[q] = smp[q]
  BY <1>2, <1>6, <1>7 DEF SmpTypes, SMState
<1>9. line'[p] = <<>> /\ line'[q] = line[q]
  BY <1>2, <1>5, <1>7, Took
<1>10. asked' = asked /\ exponents' = exponents
  BY DEF HandleSMP4
<1>11. Len(told'[p]) = Len(told[p]) + 1 /\ told'[q] = told[q]
  BY <1>2, <1>7, <1>8, ToldOnce
<1>12. Owes(p, 0)' /\ Owes(q, 0)'
  <2>1. Len(told[p]) \in Nat /\ exponents \in Nat
    BY <1>2, CountFacts
  <2>2. 2 * Len(told[p]) + 2 = exponents /\ 2 * Len(told[q]) + 0 = exponents
    BY <1>1 DEF Owes, Closing
  <2>3. 2 * (Len(told[p]) + 1) + 0 = exponents
    BY <2>1, <2>2
  <2> QED  BY <1>10, <1>11, <2>2, <2>3 DEF Owes
<1>13. Resting(p, q)'
  BY <1>1, <1>8, <1>9, <1>10, <1>12 DEF Closing, Resting
<1> QED  BY <1>2, <1>10, <1>13 DEF InTurn, InPhase

LEMMA FlowStep == SmpInv /\ SmpFlow /\ [SmpNext]_smpVars => SmpFlow'
<1> SUFFICES ASSUME SmpInv, SmpFlow, [SmpNext]_smpVars, smooth', ~crossed' PROVE SmpFlow'
  BY DEF SmpFlow
<1>1. SmpTypes
  BY DEF SmpInv
<1>2. CASE UNCHANGED smpVars
  BY <1>2 DEF SmpFlow, InPhase, Resting, Asking, Considering, Answering, Opening, Closing,
              OnlyMessage, Owes, smpVars
<1>3. CASE SmpNext
  <2>1. PICK r \in Users :
          \/ AskQuestion(r) \/ AnswerQuestion(r) \/ AnswerTooLate(r)
          \/ HandleSMP1(r) \/ HandleSMP2(r) \/ HandleSMP3(r) \/ HandleSMP4(r)
          \/ HandleAbort(r)
          \/ RestartUser(r) \/ LoseSMP(r)
    BY <1>3 DEF SmpNext
  <2>2. ~AnswerTooLate(r) /\ ~RestartUser(r) /\ ~LoseSMP(r)
    <3>1. Gone(r) => ~smooth'
      BY DEF Gone
    <3>2. LoseSMP(r) => ~smooth'
      BY DEF LoseSMP
    <3>3. (AnswerTooLate(r) => Gone(r)) /\ (RestartUser(r) => Gone(r))
      BY DEF AnswerTooLate, RestartUser
    <3>4. smooth'
      OBVIOUS
    <3>5. ~Gone(r) /\ ~LoseSMP(r)
      BY <3>1, <3>2, <3>4
    <3> QED  BY <3>3, <3>5
  <2>3. smooth /\ ~crossed
    <3>1. AskQuestion(r) => smooth /\ ~crossed
      BY DEF AskQuestion
    <3>2. AnswerQuestion(r) => smooth /\ ~crossed
      BY DEF AnswerQuestion
    <3>3. HandleSMP1(r) \/ HandleSMP2(r) => smooth /\ ~crossed
      <4>1. HandleSMP1(r) => UNCHANGED <<smooth, crossed>>
        BY DEF HandleSMP1
      <4>2. HandleSMP2(r) => UNCHANGED <<smooth, crossed>>
        BY DEF HandleSMP2
      <4> QED  BY <4>1, <4>2
    <3>4. HandleSMP3(r) \/ HandleSMP4(r) => smooth /\ ~crossed
      <4>1. HandleSMP3(r) => UNCHANGED <<smooth, crossed>>
        BY DEF HandleSMP3
      <4>2. HandleSMP4(r) => UNCHANGED <<smooth, crossed>>
        BY DEF HandleSMP4
      <4> QED  BY <4>1, <4>2
    <3>5. HandleAbort(r) => smooth /\ ~crossed
      BY DEF HandleAbort
    <3> QED  BY <2>1, <2>2, <3>1, <3>2, <3>3, <3>4, <3>5
  <2>4. PICK p, q \in Users : InTurn(p, q)
    BY <2>3 DEF SmpFlow, InTurn
  <2>5. ~HandleAbort(r)
    BY <1>1, <2>4, ArrivesInPhase DEF HandleAbort
  <2>6. \E p2, q2 \in Users : InTurn(p2, q2)'
    BY <1>1, <2>1, <2>2, <2>4, <2>5, AskFlows, AnswerFlows, FirstFlows, SecondFlows,
       ThirdFlows, FourthFlows
  <2> QED  BY <2>6 DEF InTurn, SmpFlow
<1> QED  BY <1>2, <1>3

LEMMA FlowInitial == SmpInit => SmpFlow
<1> SUFFICES ASSUME SmpInit PROVE SmpFlow
  OBVIOUS
<1>1. PICK p, q \in Users : p # q /\ Users = {p, q}
  BY UsersAssumption
<1>2. Len(<<>>) = 0
  OBVIOUS
<1>3. Owes(p, 0) /\ Owes(q, 0)
  BY <1>2 DEF SmpInit, Owes
<1>4. Resting(p, q) /\ ~asked[p]
  BY <1>3, FreshState DEF SmpInit, Resting
<1> QED  BY <1>1, <1>4 DEF SmpFlow, InPhase

\* Comparisons of which none is started during another, with nothing lost and
\* nobody restarted: once the lines are empty and the questions answered,
\* both users have been told one verdict for each and wait for nothing.
THEOREM ComparisonsConclude == SmpSpec => []SmpConcludes
<1>1. SmpInv /\ SmpFlow => SmpConcludes
  <2> SUFFICES ASSUME SmpInv, SmpFlow, smooth /\ ~crossed /\ Silent, \A p \in Users : ~asked[p],
                      NEW u \in Users
               PROVE  smp[u].nextExpected = 1 /\ 2 * Len(told[u]) = exponents
    BY DEF SmpConcludes
  <2>1. PICK p, q \in Users : Users = {p, q} /\ p # q /\ InPhase(p, q)
    BY DEF SmpFlow
  <2>2. SmpTypes /\ Len(<<>>) = 0
    BY DEF SmpInv
  <2>3. Resting(p, q)
    BY <2>1, <2>2 DEF Silent, InPhase, Asking, Considering, Answering, Opening, Closing, OnlyMessage
  <2> QED  BY <2>1, <2>2, <2>3, CountFacts DEF Resting, Owes
<1>2. SmpSpec => []SmpFlow
  BY SmpInvariant, FlowInitial, FlowStep, PTL DEF SmpSpec
<1> QED  BY <1>1, <1>2, SmpInvariant, PTL

-----------------------------------------------------------------------------
(* The texts that leave.                                                  *)

\* What the user interface has down as secure, the glue has too, or the
\* contact has ended it: then libotr itself holds texts back.
SecureHasGround ==
    \A c \in uiSecure : ui /\ (c \in g_encrypted \/ msgstate[c] = "finished")

\* Ids are given in order.
IdsGiven ==
    /\ \A i \in DOMAIN m_MessageBuffer : m_MessageBuffer[i].id <= sends
    /\ \A w \in wire : ~w.resent => w.msg.id <= sends

-----------------------------------------------------------------------------
(* Types.                                                                  *)

\* What send_message passes on is a message with the same id and contact.
LEMMA LeavingIsMessage ==
    ASSUME NEW m \in Message, NEW broken \in BOOLEAN
    PROVE  /\ Leaving(m, broken) \in Message
           /\ Leaving(m, broken).id = m.id
           /\ Leaving(m, broken).to = m.to
<1>1. CASE Ended(m)
  <2>1. Leaving(m, broken)
           = [id |-> m.id, to |-> m.to, body |-> Empty, layers |-> 0]
    BY <1>1 DEF Leaving, Ended, Seals
  <2>. QED  BY <2>1 DEF Message
<1>2. CASE ~Ended(m) /\ Seals(m, broken)
  BY <1>2 DEF Leaving, Message
<1>3. CASE ~Ended(m) /\ ~Seals(m, broken)
  BY <1>3 DEF Leaving, Message
<1>. QED  BY <1>1, <1>2, <1>3

\* send_message keeps the types and leaves the message state alone.
LEMMA SendTypes ==
    ASSUME OutTypeOK, NEW m \in Message, NEW broken \in BOOLEAN,
           NEW rest \in Seq(Message), SendMessage(m, broken, rest)
    PROVE  /\ m_MessageBuffer' \in Seq(Message)
           /\ wire' \subseteq Written
           /\ g_encrypted' \subseteq Contacts /\ uiSecure' \subseteq Contacts
           /\ lastmessage' \in [Contacts -> Message \cup {None}]
           /\ may_retransmit' \subseteq Contacts
           /\ msgstate' = msgstate /\ ui' = ui
           /\ \A c \in Contacts :
                 lastmessage'[c] # None \/ c \in may_retransmit'
                    => msgstate[c] = "encrypted"
<1>. USE DEF OutTypeOK
<1>1. msgstate' = msgstate /\ ui' = ui
  BY DEF SendMessage
<1>2. CASE Refuse(m)
  BY <1>1, <1>2 DEF Refuse, GoneUnsecure
<1>3. CASE Forward(m, broken, rest)
  <2>1. m.to \in Contacts
    BY DEF Message
  <2>. DEFINE out == Leaving(m, broken)
  <2>2. out \in Message
    BY LeavingIsMessage
  <2>. HIDE DEF out
  <2>3. SendXMPPMessageTo(out, rest)
    BY <1>3 DEF Forward, out
  <2>4. m_MessageBuffer' \in Seq(Message)
    <3>1. Append(m_MessageBuffer, out) \in Seq(Message)
      BY <2>2
    <3>2. m_MessageBuffer' \in
             {rest, m_MessageBuffer, Append(m_MessageBuffer, out)}
      BY <2>3 DEF SendXMPPMessageTo
    <3>. QED  BY <3>1, <3>2
  <2>5. wire' \subseteq Written
    <3>1. [msg |-> out, resent |-> FALSE] \in Written
      BY <2>2 DEF Written
    <3>2. wire' = wire \/ wire' = wire \cup {[msg |-> out, resent |-> FALSE]}
      BY <2>3 DEF SendXMPPMessageTo
    <3>. QED  BY <3>1, <3>2
  <2>6. g_encrypted' \subseteq Contacts /\ uiSecure' \subseteq Contacts
    BY <1>3 DEF Forward
  <2>7. CASE Seals(m, broken)
    <3>1. /\ lastmessage' = [lastmessage EXCEPT ![m.to] = m]
          /\ may_retransmit' = may_retransmit \ {m.to}
      BY <1>3, <2>7 DEF Forward
    <3>2. msgstate[m.to] = "encrypted"
      BY <2>7 DEF Seals
    <3>. QED  BY <1>1, <2>1, <2>4, <2>5, <2>6, <3>1, <3>2
  <2>8. CASE ~Seals(m, broken)
    <3>1. lastmessage' = lastmessage /\ may_retransmit' = may_retransmit
      BY <1>3, <2>8 DEF Forward
    <3>. QED  BY <1>1, <2>4, <2>5, <2>6, <3>1
  <2>. QED  BY <2>7, <2>8
<1>. QED  BY <1>2, <1>3 DEF SendMessage

\* No conversation is private, and no text kept: at the start, and after the
\* end of the process.
LEMMA NothingKept ==
    /\ [c \in Contacts |-> "plaintext"]
          \in [Contacts -> {"plaintext", "encrypted", "finished"}]
    /\ [c \in Contacts |-> None] \in [Contacts -> Message \cup {None}]
    /\ <<>> \in Seq(Message)
OBVIOUS

LEMMA TypeInit == Init => OutTypeOK
<1>. SUFFICES ASSUME Init PROVE OutTypeOK
  OBVIOUS
<1>1. /\ m_MessageBuffer \in Seq(Message)
      /\ msgstate \in [Contacts -> {"plaintext", "encrypted", "finished"}]
      /\ lastmessage \in [Contacts -> Message \cup {None}]
  BY NothingKept DEF Init
<1>2. \A c \in Contacts : lastmessage[c] = None /\ c \notin may_retransmit
  BY DEF Init
<1>3. sends \in Nat /\ wire \subseteq Written
  BY DEF Init
<1>. QED  BY <1>1, <1>2, <1>3 DEF Init, OutTypeOK

LEMMA TypeNext == OutTypeOK /\ [Next]_vars => OutTypeOK'
<1>. SUFFICES ASSUME OutTypeOK, [Next]_vars PROVE OutTypeOK'
  OBVIOUS
<1>. USE DEF OutTypeOK
<1>1. ASSUME NEW c \in Contacts, NEW text \in Texts, UiSends(c, text)
      PROVE  OutTypeOK'
  <2>. DEFINE m == [id |-> sends + 1, to |-> c, body |-> text, layers |-> 0]
  <2>1. m \in Message
    BY DEF Message
  <2>2. PICK broken \in BOOLEAN : SendMessage(m, broken, m_MessageBuffer)
    BY <1>1 DEF UiSends
  <2>. HIDE DEF m
  <2>3. sends' \in Nat
    BY <1>1 DEF UiSends
  <2>. QED  BY <1>1, <2>1, <2>2, <2>3, SendTypes DEF UiSends, connVars
<1>2. ASSUME NEW c \in Contacts, UiStarts(c) PROVE OutTypeOK'
  <2>. DEFINE m == [id |-> 0, to |-> c, body |-> Query, layers |-> 0]
  <2>1. m \in Message
    BY DEF Message
  <2>2. SendMessage(m, FALSE, m_MessageBuffer)
    BY <1>2 DEF UiStarts
  <2>. HIDE DEF m
  <2>. QED  BY <1>2, <2>1, <2>2, SendTypes DEF UiStarts, connVars
<1>3. ASSUME NEW c \in Contacts,
             UiStops(c) \/ ReceivePlain(c) \/ PeerEnds(c)
      PROVE  OutTypeOK'
  <2>1. ASSUME NEW state \in {"plaintext", "finished"}, ForceState(c, state)
        PROVE  /\ msgstate' \in
                    [Contacts -> {"plaintext", "encrypted", "finished"}]
               /\ lastmessage' \in [Contacts -> Message \cup {None}]
               /\ may_retransmit' \subseteq Contacts
               /\ \A d \in Contacts :
                     lastmessage'[d] # None \/ d \in may_retransmit'
                        => msgstate'[d] = "encrypted"
    BY <2>1 DEF ForceState
  <2>2. CASE UiStops(c)
    BY <2>1, <2>2 DEF UiStops, connVars
  <2>3. CASE ReceivePlain(c)
    BY <2>1, <2>3 DEF ReceivePlain, connVars, GoneUnsecure
  <2>4. CASE PeerEnds(c)
    BY <2>1, <2>4 DEF PeerEnds, connVars, uiVars
  <2>. QED  BY <1>3, <2>2, <2>3, <2>4
<1>4. ASSUME NEW c \in Contacts,
             UiAsksStatus(c) \/ ReceiveSealed(c) \/ ReceiveError(c)
      PROVE  OutTypeOK'
  <2>1. CASE UiAsksStatus(c)
    BY <2>1 DEF UiAsksStatus, connVars, otrVars, GoneSecure, GoneUnsecure
  <2>2. CASE ReceiveSealed(c)
    BY <2>2 DEF ReceiveSealed, connVars, uiVars
  <2>3. CASE ReceiveError(c)
    BY <2>3 DEF ReceiveError, connVars, uiVars
  <2>. QED  BY <1>4, <2>1, <2>2, <2>3
<1>5. ASSUME NEW c \in Contacts, NEW newPrint \in BOOLEAN,
             NEW recent \in BOOLEAN, GoneEncrypted(c, newPrint, recent)
      PROVE  OutTypeOK'
  <2>1. /\ msgstate' = [msgstate EXCEPT ![c] = "encrypted"]
        /\ lastmessage' = lastmessage
        /\ may_retransmit' \subseteq may_retransmit
    BY <1>5 DEF GoneEncrypted
  <2>2. g_encrypted' \subseteq Contacts /\ uiSecure' \subseteq Contacts
    BY <1>5 DEF GoneEncrypted, GoneSecure
  <2>3. wire' \subseteq Written
    <3>1. CASE wire' = wire
      BY <3>1
    <3>2. CASE wire' # wire
      <4>1. /\ lastmessage[c] # None
            /\ wire' = wire \cup
                 {[msg |-> [lastmessage[c] EXCEPT !.layers = @ + 1],
                   resent |-> TRUE]}
        BY <1>5, <3>2 DEF GoneEncrypted
      <4>2. lastmessage[c] \in Message
        BY <4>1
      <4>3. [lastmessage[c] EXCEPT !.layers = @ + 1] \in Message
        BY <4>2 DEF Message
      <4>. DEFINE sent == [lastmessage[c] EXCEPT !.layers = @ + 1]
      <4>4. [msg |-> sent, resent |-> TRUE] \in Written
        BY <4>3 DEF Written
      <4>. QED  BY <4>1, <4>4
    <3>. QED  BY <3>1, <3>2
  <2>4. UNCHANGED <<connVars, loop, m_MessageBuffer, ui, sends>>
    BY <1>5 DEF GoneEncrypted
  <2>. QED  BY <2>1, <2>2, <2>3, <2>4 DEF connVars
<1>6. CASE UiConnects \/ UiLeaves
  BY <1>6 DEF UiConnects, UiLeaves, connVars, otrVars
<1>7. CASE Connection
  BY <1>7 DEF Connection, StreamOpens, SessionStarts, StreamDrops,
              RosterArrives, RosterReceived, otrVars, uiVars
<1>8. ASSUME NEW readable \in BOOLEAN, UiAsksContacts(readable)
      PROVE  OutTypeOK'
  BY <1>8 DEF UiAsksContacts, RosterReceived, otrVars, uiVars
<1>9. CASE Flush
  <2>1. CASE FlushDone
    BY <1>9, <2>1 DEF Flush, FlushDone, otrVars, uiVars, connVars
  <2>2. CASE FlushFirst
    <3>1. /\ Head(m_MessageBuffer) \in Message
          /\ Tail(m_MessageBuffer) \in Seq(Message)
      BY <2>2 DEF FlushFirst
    <3>2. PICK broken \in BOOLEAN :
             SendMessage(Head(m_MessageBuffer), broken, Tail(m_MessageBuffer))
      BY <2>2 DEF FlushFirst
    <3>3. UNCHANGED <<connVars, sends, loop>>
      BY <1>9, <2>2 DEF Flush, FlushFirst
    <3>. QED  BY <3>1, <3>2, <3>3, SendTypes DEF connVars
  <2>. QED  BY <1>9, <2>1, <2>2 DEF Flush
<1>10. CASE Dies
  BY <1>10, NothingKept DEF Dies
<1>11. CASE Starts
  BY <1>11 DEF Starts, otrVars, uiVars
<1>12. CASE UNCHANGED vars
  BY <1>12 DEF vars, connVars, otrVars, uiVars
<1>. QED
  BY <1>1, <1>2, <1>3, <1>4, <1>5, <1>6, <1>7, <1>8, <1>9, <1>10, <1>11, <1>12
     DEF Next, UiRequests, Receives

\* The types of the outgoing side; and what libotr keeps to send again
\* belongs to a private conversation that still goes on.
THEOREM OutTypeCorrect == Spec => []OutTypeOK
<1>. QED  BY TypeInit, TypeNext, PTL DEF Spec

-----------------------------------------------------------------------------
(* What secures a text.                                                    *)

\* send_message takes a contact off the glue's set only by telling the user
\* interface, or where the conversation is finished.
LEMMA SendSecure ==
    ASSUME NEW m, NEW broken, NEW rest, SendMessage(m, broken, rest),
           SecureHasGround
    PROVE  SecureHasGround'
<1>1. msgstate' = msgstate /\ ui' = ui
  BY DEF SendMessage
<1>2. CASE Refuse(m)
  BY <1>1, <1>2 DEF Refuse, GoneUnsecure, SecureHasGround
<1>3. CASE Forward(m, broken, rest)
  <2>1. uiSecure' = uiSecure
    BY <1>3 DEF Forward
  <2>2. CASE Ended(m)
    <3>1. g_encrypted' = g_encrypted \ {m.to} /\ msgstate[m.to] = "finished"
      BY <1>3, <2>2 DEF Forward, Ended
    <3>. QED  BY <1>1, <2>1, <3>1 DEF SecureHasGround
  <2>3. CASE ~Ended(m)
    <3>1. g_encrypted' = g_encrypted
      BY <1>3, <2>3 DEF Forward
    <3>. QED  BY <1>1, <2>1, <3>1 DEF SecureHasGround
  <2>. QED  BY <2>2, <2>3
<1>. QED  BY <1>2, <1>3 DEF SendMessage

\* Only three actions call send_message; the rest write nothing or resend.
LEMMA SendCases ==
    ASSUME OutTypeOK, [Next]_vars
    PROVE  \/ /\ \E m \in Message, broken \in BOOLEAN,
                    rest \in {m_MessageBuffer, Tail(m_MessageBuffer)} :
                    /\ SendMessage(m, broken, rest)
                    /\ \/ /\ rest = m_MessageBuffer
                          /\ \/ m.id = sends + 1 /\ sends' = sends + 1
                             \/ m.id = 0 /\ sends' = sends
                       \/ /\ rest = Tail(m_MessageBuffer)
                          /\ m_MessageBuffer # <<>>
                          /\ m = Head(m_MessageBuffer)
                          /\ loop = "flush"
                          /\ sends' = sends
              /\ UNCHANGED <<connVars, loop>>
           \/ /\ wire' = wire
              /\ m_MessageBuffer' = m_MessageBuffer
              /\ sends' = sends
           \/ Dies
           \/ \E c \in Contacts, newPrint, recent \in BOOLEAN :
                 GoneEncrypted(c, newPrint, recent)
<1>1. ASSUME NEW c \in Contacts, NEW text \in Texts, UiSends(c, text)
      PROVE  \E m \in Message, broken \in BOOLEAN :
                /\ SendMessage(m, broken, m_MessageBuffer)
                /\ m.id = sends + 1 /\ sends' = sends + 1
                /\ UNCHANGED <<connVars, loop>>
  <2>. DEFINE m == [id |-> sends + 1, to |-> c, body |-> text, layers |-> 0]
  <2>1. m \in Message /\ m.id = sends + 1
    BY DEF Message, OutTypeOK
  <2>2. PICK broken \in BOOLEAN : SendMessage(m, broken, m_MessageBuffer)
    BY <1>1 DEF UiSends
  <2>. HIDE DEF m
  <2>3. sends' = sends + 1 /\ UNCHANGED <<connVars, loop>>
    BY <1>1 DEF UiSends
  <2>. QED  BY <2>1, <2>2, <2>3
<1>2. ASSUME NEW c \in Contacts, UiStarts(c)
      PROVE  \E m \in Message, broken \in BOOLEAN :
                /\ SendMessage(m, broken, m_MessageBuffer)
                /\ m.id = 0 /\ sends' = sends
                /\ UNCHANGED <<connVars, loop>>
  <2>. DEFINE m == [id |-> 0, to |-> c, body |-> Query, layers |-> 0]
  <2>1. m \in Message /\ m.id = 0
    BY DEF Message
  <2>2. SendMessage(m, FALSE, m_MessageBuffer)
    BY <1>2 DEF UiStarts
  <2>. HIDE DEF m
  <2>3. sends' = sends /\ UNCHANGED <<connVars, loop>>
    BY <1>2 DEF UiStarts
  <2>. QED  BY <2>1, <2>2, <2>3
<1>3. ASSUME Flush, FlushFirst
      PROVE  \E m \in Message, broken \in BOOLEAN :
                /\ SendMessage(m, broken, Tail(m_MessageBuffer))
                /\ m_MessageBuffer # <<>> /\ m = Head(m_MessageBuffer)
                /\ loop = "flush" /\ sends' = sends
                /\ UNCHANGED <<connVars, loop>>
  <2>1. m_MessageBuffer # <<>> /\ m_MessageBuffer \in Seq(Message)
    BY <1>3 DEF FlushFirst, OutTypeOK
  <2>2. Head(m_MessageBuffer) \in Message
    BY <2>1
  <2>3. PICK broken \in BOOLEAN :
           SendMessage(Head(m_MessageBuffer), broken, Tail(m_MessageBuffer))
    BY <1>3 DEF FlushFirst
  <2>4. loop = "flush" /\ sends' = sends /\ UNCHANGED <<connVars, loop>>
    BY <1>3 DEF Flush, FlushFirst
  <2>. QED  BY <2>1, <2>2, <2>3, <2>4
<1>4. ASSUME \/ \E c \in Contacts :
                   \/ UiStops(c) \/ UiAsksStatus(c) \/ ReceiveSealed(c)
                   \/ ReceiveError(c) \/ ReceivePlain(c) \/ PeerEnds(c)
             \/ UiConnects \/ UiLeaves \/ Connection \/ Starts
             \/ UNCHANGED vars
             \/ \E readable \in BOOLEAN : UiAsksContacts(readable)
             \/ Flush /\ FlushDone
      PROVE  UNCHANGED <<wire, m_MessageBuffer, sends>>
  BY <1>4
     DEF UiStops, UiAsksStatus, ReceiveSealed, ReceiveError, ReceivePlain,
         PeerEnds, UiConnects, UiLeaves, Connection, StreamOpens,
         SessionStarts, StreamDrops, RosterArrives, RosterReceived, Starts,
         UiAsksContacts, Flush, FlushDone, vars
<1>. QED
  BY <1>1, <1>2, <1>3, <1>4 DEF Next, UiRequests, Receives, Flush

LEMMA SecureNext ==
    OutTypeOK /\ SecureHasGround /\ [Next]_vars => SecureHasGround'
<1>. SUFFICES ASSUME OutTypeOK, SecureHasGround, [Next]_vars
              PROVE  SecureHasGround'
  OBVIOUS
<1>1. ASSUME NEW c \in Contacts, NEW text \in Texts, UiSends(c, text)
      PROVE  SecureHasGround'
  BY <1>1, SendSecure DEF UiSends
<1>2. ASSUME NEW c \in Contacts, UiStarts(c) PROVE SecureHasGround'
  BY <1>2, SendSecure DEF UiStarts
<1>3. CASE Flush
  <2>1. CASE FlushDone
    BY <1>3, <2>1 DEF Flush, FlushDone, SecureHasGround, otrVars, uiVars
  <2>2. CASE FlushFirst
    BY <2>2, SendSecure DEF FlushFirst
  <2>. QED  BY <1>3, <2>1, <2>2 DEF Flush
<1>4. ASSUME NEW c \in Contacts, UiStops(c) PROVE SecureHasGround'
  <2>1. /\ msgstate' = [msgstate EXCEPT ![c] = "plaintext"]
        /\ uiSecure' = uiSecure \ {c}
        /\ g_encrypted' = g_encrypted /\ ui' = ui
    BY <1>4 DEF UiStops, ForceState
  <2>. QED  BY <2>1 DEF SecureHasGround, OutTypeOK
<1>5. ASSUME NEW c \in Contacts, ReceivePlain(c) PROVE SecureHasGround'
  <2>1. /\ msgstate' = [msgstate EXCEPT ![c] = "plaintext"]
        /\ uiSecure' = uiSecure \ {c}
        /\ g_encrypted' = g_encrypted \ {c} /\ ui' = ui
    BY <1>5 DEF ReceivePlain, ForceState, GoneUnsecure
  <2>. QED  BY <2>1 DEF SecureHasGround, OutTypeOK
<1>6. ASSUME NEW c \in Contacts, PeerEnds(c) PROVE SecureHasGround'
  <2>1. /\ msgstate' = [msgstate EXCEPT ![c] = "finished"]
        /\ uiSecure' = uiSecure /\ g_encrypted' = g_encrypted /\ ui' = ui
    BY <1>6 DEF PeerEnds, ForceState, uiVars
  <2>. QED  BY <2>1 DEF SecureHasGround, OutTypeOK
<1>7. ASSUME NEW c \in Contacts, UiAsksStatus(c) PROVE SecureHasGround'
  BY <1>7 DEF UiAsksStatus, Asked, SecureHasGround, GoneSecure, GoneUnsecure,
              otrVars
<1>8. ASSUME NEW c \in Contacts, ReceiveSealed(c) \/ ReceiveError(c)
      PROVE  SecureHasGround'
  BY <1>8 DEF ReceiveSealed, ReceiveError, SecureHasGround, uiVars
<1>9. ASSUME NEW c \in Contacts, NEW newPrint \in BOOLEAN,
             NEW recent \in BOOLEAN, GoneEncrypted(c, newPrint, recent)
      PROVE  SecureHasGround'
  <2>1. msgstate' = [msgstate EXCEPT ![c] = "encrypted"] /\ ui' = ui
    BY <1>9 DEF GoneEncrypted
  <2>2. CASE newPrint \/ msgstate[c] # "encrypted"
    <3>1. g_encrypted' = g_encrypted \cup {c} /\ GoneSecure(c)
      BY <1>9, <2>2 DEF GoneEncrypted
    <3>. QED  BY <2>1, <3>1 DEF GoneSecure, SecureHasGround, OutTypeOK
  <2>3. CASE ~newPrint /\ msgstate[c] = "encrypted"
    <3>1. g_encrypted' = g_encrypted /\ uiSecure' = uiSecure
      BY <1>9, <2>3 DEF GoneEncrypted
    <3>. QED  BY <2>1, <2>3, <3>1 DEF SecureHasGround, OutTypeOK
  <2>. QED  BY <2>2, <2>3
<1>10. CASE UiConnects \/ UiLeaves \/ Dies
  BY <1>10 DEF UiConnects, UiLeaves, Dies, SecureHasGround, otrVars
<1>11. CASE \/ Connection \/ Starts \/ UNCHANGED vars
            \/ \E readable \in BOOLEAN : UiAsksContacts(readable)
  BY <1>11 DEF Connection, StreamOpens, SessionStarts, StreamDrops,
               RosterArrives, RosterReceived, Starts, UiAsksContacts,
               otrVars, uiVars, vars, SecureHasGround
<1>. QED
  BY <1>1, <1>2, <1>3, <1>4, <1>5, <1>6, <1>7, <1>8, <1>9, <1>10, <1>11
     DEF Next, UiRequests, Receives

\* A text libotr keeps has been sealed once more when it is sent again, and a
\* text of the user leaves send_message in clear only if neither the glue nor
\* libotr takes the conversation for private.
LEMMA ClearStep ==
    ASSUME OutTypeOK, SecureHasGround, [Next]_vars,
           NEW w \in wire' \ wire, w.msg.layers = 0, w.msg.body \in Texts
    PROVE  w.msg.to \notin uiSecure
<1>1. ASSUME NEW m \in Message, NEW broken \in BOOLEAN, NEW rest,
             SendMessage(m, broken, rest)
      PROVE  w.msg.to \notin uiSecure
  <2>1. Forward(m, broken, rest) /\ ~Refused(m, broken)
    BY <1>1 DEF SendMessage, Refuse
  <2>2. w = [msg |-> Leaving(m, broken), resent |-> FALSE]
    BY <2>1 DEF Forward, SendXMPPMessageTo
  <2>3. w.msg = Leaving(m, broken)
    BY <2>2
  <2>4. ~Ended(m)
    <3>1. SUFFICES ASSUME Ended(m) PROVE FALSE
      OBVIOUS
    <3>2. Leaving(m, broken)
             = [id |-> m.id, to |-> m.to, body |-> Empty, layers |-> 0]
      BY <3>1 DEF Leaving, Ended, Seals
    <3>. QED  BY <2>3, <3>2, TextsAssumption
  <2>5. ~Seals(m, broken)
    <3>1. SUFFICES ASSUME Seals(m, broken) PROVE FALSE
      OBVIOUS
    <3>2. Leaving(m, broken) = [m EXCEPT !.layers = @ + 1]
      BY <2>4, <3>1 DEF Leaving
    <3>3. Leaving(m, broken).layers = m.layers + 1
      BY <3>2 DEF Message
    <3>4. m.layers \in Nat
      BY DEF Message
    <3>. QED  BY <2>3, <3>3, <3>4
  <2>6. Leaving(m, broken) = m
    BY <2>4, <2>5 DEF Leaving
  <2>7. w.msg = m
    BY <2>3, <2>6
  <2>8. ~IsQuery(m)
    BY <2>7, TextsAssumption DEF IsQuery
  <2>9. m.to \notin g_encrypted /\ msgstate[m.to] # "finished"
    BY <2>1, <2>4, <2>5, <2>8 DEF Refused, Ended
  <2>. QED  BY <2>7, <2>9 DEF SecureHasGround
<1>2. ASSUME NEW c \in Contacts, NEW newPrint \in BOOLEAN,
             NEW recent \in BOOLEAN, GoneEncrypted(c, newPrint, recent)
      PROVE  FALSE
  <2>1. /\ lastmessage[c] # None
        /\ w = [msg |-> [lastmessage[c] EXCEPT !.layers = @ + 1],
                resent |-> TRUE]
    BY <1>2 DEF GoneEncrypted
  <2>2. lastmessage[c] \in Message
    BY <2>1 DEF OutTypeOK
  <2>3. w.msg.layers = lastmessage[c].layers + 1
    BY <2>1, <2>2 DEF Message
  <2>4. lastmessage[c].layers \in Nat
    BY <2>2 DEF Message
  <2>. QED  BY <2>3, <2>4
<1>3. wire' # wire
  OBVIOUS
<1>4. ~Dies
  BY <1>3 DEF Dies
<1>. QED  BY <1>1, <1>2, <1>3, <1>4, SendCases

\* While the user interface has a conversation down as secure, none of the
\* texts typed in it leaves in clear, whatever the contact, the connection
\* and the cache do meanwhile.
THEOREM SecretSafe == Spec => SecureMeansSecret
<1>1. Init => SecureHasGround
  BY DEF Init, SecureHasGround
<1>2. OutTypeOK /\ SecureHasGround /\ [Next]_vars
         => [\A w \in wire' \ wire :
                w.msg.layers = 0 /\ w.msg.body \in Texts
                   => w.msg.to \notin uiSecure]_vars
  BY ClearStep
<1>. QED
  BY <1>1, <1>2, TypeInit, TypeNext, SecureNext, PTL
     DEF Spec, SecureMeansSecret

-----------------------------------------------------------------------------
(* The way of a text through the cache.                                    *)

\* OneWayOut but for a loop without a socket.
CachedOnce ==
    \A i \in DOMAIN m_MessageBuffer :
       LET id == m_MessageBuffer[i].id
       IN  id # 0 =>
           /\ \A j \in DOMAIN m_MessageBuffer :
                 m_MessageBuffer[j].id = id => j = i
           /\ \A w \in wire : w.msg.id = id => w.resent

\* What send_message does to the cache and to what was written: nothing, or
\* one of them takes what it passes on.
LEMMA SendMoves ==
    ASSUME OutTypeOK, NEW m \in Message, NEW broken \in BOOLEAN, NEW rest,
           SendMessage(m, broken, rest)
    PROVE  \E out \in Message :
              /\ out.id = m.id /\ out.to = m.to
              /\ \/ /\ stream # "off"
                    /\ wire' = wire \cup {[msg |-> out, resent |-> FALSE]}
                    /\ m_MessageBuffer' = rest
                 \/ /\ stream = "off" /\ wire' = wire
                    /\ m_MessageBuffer' = Append(m_MessageBuffer, out)
                 \/ wire' = wire /\ m_MessageBuffer' = m_MessageBuffer
<1>. DEFINE out == Leaving(m, broken)
<1>1. out \in Message /\ out.id = m.id /\ out.to = m.to
  BY LeavingIsMessage
<1>. HIDE DEF out
<1>2. CASE Refuse(m)
  BY <1>1, <1>2 DEF Refuse
<1>3. CASE Forward(m, broken, rest)
  <2>1. SendXMPPMessageTo(out, rest)
    BY <1>3 DEF Forward, out
  <2>2. \/ /\ stream # "off"
           /\ wire' = wire \cup {[msg |-> out, resent |-> FALSE]}
           /\ m_MessageBuffer' = rest
        \/ /\ stream = "off" /\ wire' = wire
           /\ m_MessageBuffer' = Append(m_MessageBuffer, out)
        \/ wire' = wire /\ m_MessageBuffer' = m_MessageBuffer
    BY <2>1 DEF SendXMPPMessageTo
  <2>. QED  BY <1>1, <2>2
<1>. QED  BY <1>2, <1>3 DEF SendMessage

\* A cached message leaves the cache by being written, or with the process.
LEMMA KeptStep ==
    ASSUME OutTypeOK, [Next]_vars, NEW i \in DOMAIN m_MessageBuffer
    PROVE  \/ ~alive'
           \/ \E j \in DOMAIN m_MessageBuffer' :
                 m_MessageBuffer'[j] = m_MessageBuffer[i]
           \/ \E w \in wire' : /\ w.msg.id = m_MessageBuffer[i].id
                               /\ w.msg.to = m_MessageBuffer[i].to
<1>1. ASSUME NEW m \in Message, NEW broken \in BOOLEAN,
             NEW rest \in {m_MessageBuffer, Tail(m_MessageBuffer)},
             SendMessage(m, broken, rest),
             \/ rest = m_MessageBuffer
             \/ m_MessageBuffer # <<>> /\ m = Head(m_MessageBuffer)
      PROVE  \/ \E j \in DOMAIN m_MessageBuffer' :
                   m_MessageBuffer'[j] = m_MessageBuffer[i]
             \/ \E w \in wire' : /\ w.msg.id = m_MessageBuffer[i].id
                                 /\ w.msg.to = m_MessageBuffer[i].to
  <2>1. PICK out \in Message :
           /\ out.id = m.id /\ out.to = m.to
           /\ \/ /\ stream # "off"
                 /\ wire' = wire \cup {[msg |-> out, resent |-> FALSE]}
                 /\ m_MessageBuffer' = rest
              \/ /\ stream = "off" /\ wire' = wire
                 /\ m_MessageBuffer' = Append(m_MessageBuffer, out)
              \/ wire' = wire /\ m_MessageBuffer' = m_MessageBuffer
    BY <1>1, SendMoves
  <2>2. m_MessageBuffer \in Seq(Message)
    BY DEF OutTypeOK
  <2>3. CASE m_MessageBuffer' = m_MessageBuffer
    BY <2>3
  <2>4. CASE m_MessageBuffer' = Append(m_MessageBuffer, out)
    <3>1. /\ i \in DOMAIN Append(m_MessageBuffer, out)
          /\ Append(m_MessageBuffer, out)[i] = m_MessageBuffer[i]
      BY <2>2
    <3>. QED  BY <2>4, <3>1
  <2>5. CASE /\ m_MessageBuffer' = rest
             /\ wire' = wire \cup {[msg |-> out, resent |-> FALSE]}
             /\ rest # m_MessageBuffer
    <3>1. /\ m_MessageBuffer' = Tail(m_MessageBuffer)
          /\ m = Head(m_MessageBuffer) /\ m_MessageBuffer # <<>>
      BY <1>1, <2>5
    <3>2. CASE i = 1
      <4>1. m_MessageBuffer[i] = m
        BY <2>2, <3>1, <3>2
      <4>2. [msg |-> out, resent |-> FALSE] \in wire'
        BY <2>5
      <4>. QED  BY <2>1, <4>1, <4>2
    <3>3. CASE i # 1
      <4>1. /\ i - 1 \in DOMAIN Tail(m_MessageBuffer)
            /\ Tail(m_MessageBuffer)[i - 1] = m_MessageBuffer[i]
        BY <2>2, <3>1, <3>3
      <4>. QED  BY <3>1, <4>1
    <3>. QED  BY <3>2, <3>3
  <2>. QED  BY <2>1, <2>3, <2>4, <2>5
<1>2. ASSUME NEW c \in Contacts, NEW newPrint \in BOOLEAN,
             NEW recent \in BOOLEAN, GoneEncrypted(c, newPrint, recent)
      PROVE  m_MessageBuffer' = m_MessageBuffer
  BY <1>2 DEF GoneEncrypted
<1>3. Dies => ~alive'
  BY DEF Dies
<1>4. CASE m_MessageBuffer' = m_MessageBuffer
  BY <1>4
<1>. QED  BY <1>1, <1>2, <1>3, <1>4, SendCases

\* Nothing but a write, or the end of the process, takes a message from the
\* cache: not the contact, not the connection, not libotr's refusal.
THEOREM CacheKeptSafe == Spec => CacheKept
<1>1. OutTypeOK /\ [Next]_vars
         => [\A i \in DOMAIN m_MessageBuffer :
               LET m == m_MessageBuffer[i]
               IN  \/ ~alive'
                   \/ \E j \in DOMAIN m_MessageBuffer' : m_MessageBuffer'[j] = m
                   \/ \E w \in wire' : w.msg.id = m.id /\ w.msg.to = m.to]_vars
  BY KeptStep
<1>. QED  BY <1>1, TypeInit, TypeNext, PTL DEF Spec, CacheKept

\* A text that is new, or the head of the cache in its loop, keeps the ids in
\* order and the cache free of what was written or cached before.
LEMMA SendOnce ==
    ASSUME OutTypeOK, IdsGiven, NEW m \in Message, NEW broken \in BOOLEAN,
           NEW rest, NEW n \in Nat, SendMessage(m, broken, rest),
           sends <= n, m.id <= n,
           \/ /\ rest = m_MessageBuffer
              /\ m.id = 0 \/ (m.id = n /\ sends < n)
           \/ /\ rest = Tail(m_MessageBuffer) /\ m_MessageBuffer # <<>>
              /\ m = Head(m_MessageBuffer) /\ loop = "flush"
    PROVE  /\ \A i \in DOMAIN m_MessageBuffer' : m_MessageBuffer'[i].id <= n
           /\ \A w \in wire' : ~w.resent => w.msg.id <= n
           /\ CachedOnce => Spinning \/ CachedOnce'
<1>. DEFINE buf == m_MessageBuffer
<1>1. /\ buf \in Seq(Message) /\ sends \in Nat
      /\ wire \subseteq Written
  BY DEF OutTypeOK
<1>2. PICK out \in Message :
         /\ out.id = m.id /\ out.to = m.to
         /\ \/ /\ stream # "off"
               /\ wire' = wire \cup {[msg |-> out, resent |-> FALSE]}
               /\ m_MessageBuffer' = rest
            \/ /\ stream = "off" /\ wire' = wire
               /\ m_MessageBuffer' = Append(m_MessageBuffer, out)
            \/ wire' = wire /\ m_MessageBuffer' = m_MessageBuffer
  BY SendMoves
<1>3. \A i \in DOMAIN buf : buf[i].id \in Nat /\ buf[i].id <= n
  <2>1. SUFFICES ASSUME NEW i \in DOMAIN buf
                 PROVE  buf[i].id \in Nat /\ buf[i].id <= n
    OBVIOUS
  <2>2. buf[i] \in Message
    BY <1>1
  <2>3. buf[i].id \in Nat
    BY <2>2 DEF Message
  <2>4. buf[i].id <= sends
    BY DEF IdsGiven
  <2>. QED  BY <1>1, <2>3, <2>4
<1>4. \A w \in wire : w.msg.id \in Nat /\ (~w.resent => w.msg.id <= n)
  BY <1>1 DEF IdsGiven, Written, Message
<1>5. m.id \in Nat
  BY DEF Message
<1>6. CASE wire' = wire /\ m_MessageBuffer' = m_MessageBuffer
  BY <1>3, <1>4, <1>6 DEF CachedOnce
<1>7. CASE /\ stream = "off" /\ wire' = wire
           /\ m_MessageBuffer' = Append(m_MessageBuffer, out)
  <2>. DEFINE k == Len(buf) + 1
  <2>1. /\ DOMAIN Append(buf, out) = 1..k
        /\ DOMAIN buf = 1..Len(buf)
        /\ Len(buf) \in Nat
        /\ \A i \in DOMAIN buf : Append(buf, out)[i] = buf[i]
        /\ Append(buf, out)[k] = out
    BY <1>1
  <2>2. /\ \A i \in DOMAIN m_MessageBuffer' : i \in DOMAIN buf \/ i = k
        /\ \A i \in DOMAIN buf : m_MessageBuffer'[i] = buf[i]
        /\ m_MessageBuffer'[k] = out
        /\ k \notin DOMAIN buf
    BY <1>7, <2>1
  <2>. HIDE DEF k
  <2>3. \A i \in DOMAIN m_MessageBuffer' : m_MessageBuffer'[i].id <= n
    BY <1>2, <1>3, <2>2
  <2>4. \A w \in wire' : ~w.resent => w.msg.id <= n
    BY <1>4, <1>7
  <2>5. CASE Spinning
    BY <2>3, <2>4, <2>5
  <2>6. CASE ~Spinning
    <3>1. m.id = 0 \/ (m.id = n /\ sends < n)
      BY <1>7, <2>6 DEF Spinning
    <3>2. \A i \in DOMAIN buf : out.id # 0 => buf[i].id # out.id
      BY <1>1, <1>2, <1>3, <3>1 DEF IdsGiven
    <3>3. \A w \in wire : out.id # 0 /\ w.msg.id = out.id => w.resent
      BY <1>1, <1>2, <1>4, <3>1 DEF IdsGiven
    <3>4. SUFFICES ASSUME CachedOnce, NEW i \in DOMAIN m_MessageBuffer',
                          m_MessageBuffer'[i].id # 0
                   PROVE  /\ \A j \in DOMAIN m_MessageBuffer' :
                                m_MessageBuffer'[j].id = m_MessageBuffer'[i].id
                                   => j = i
                          /\ \A w \in wire' :
                                w.msg.id = m_MessageBuffer'[i].id => w.resent
      BY <2>3, <2>4 DEF CachedOnce
    <3>5. CASE i = k
      BY <1>7, <2>2, <3>2, <3>3, <3>4, <3>5
    <3>6. CASE i # k
      <4>1. i \in DOMAIN buf /\ m_MessageBuffer'[i] = buf[i]
        BY <2>2, <3>4, <3>6
      <4>2. /\ \A j \in DOMAIN buf : buf[j].id = buf[i].id => j = i
            /\ \A w \in wire : w.msg.id = buf[i].id => w.resent
        BY <3>4, <4>1 DEF CachedOnce
      <4>. QED  BY <1>7, <2>2, <3>2, <3>4, <4>1, <4>2
    <3>. QED  BY <3>5, <3>6
  <2>. QED  BY <2>5, <2>6
<1>8. CASE /\ stream # "off" /\ m_MessageBuffer' = rest
           /\ wire' = wire \cup {[msg |-> out, resent |-> FALSE]}
  <2>1. \A w \in wire' : w \in wire \/ (w.msg.id = m.id /\ ~w.resent)
    BY <1>2, <1>8
  <2>2. \A w \in wire' : ~w.resent => w.msg.id <= n
    BY <1>4, <2>1
  <2>3. CASE /\ rest = m_MessageBuffer
             /\ m.id = 0 \/ (m.id = n /\ sends < n)
    <3>1. \A i \in DOMAIN buf : m.id # 0 => buf[i].id # m.id
      BY <1>1, <1>3, <1>5, <2>3 DEF IdsGiven
    <3>2. m_MessageBuffer' = buf
      BY <1>8, <2>3
    <3>3. CachedOnce => CachedOnce'
      BY <2>1, <3>1, <3>2 DEF CachedOnce
    <3>. QED  BY <1>3, <2>2, <3>2, <3>3
  <2>4. CASE /\ rest = Tail(m_MessageBuffer) /\ m_MessageBuffer # <<>>
             /\ m = Head(m_MessageBuffer)
    <3>1. /\ 1 \in DOMAIN buf /\ buf[1] = m
          /\ \A i \in DOMAIN Tail(buf) :
                /\ i \in Nat /\ i >= 1
                /\ i + 1 \in DOMAIN buf /\ Tail(buf)[i] = buf[i + 1]
      BY <1>1, <2>4
    <3>2. m_MessageBuffer' = Tail(buf)
      BY <1>8, <2>4
    <3>3. \A i \in DOMAIN m_MessageBuffer' : m_MessageBuffer'[i].id <= n
      BY <1>3, <3>1, <3>2
    <3>4. SUFFICES ASSUME CachedOnce, NEW i \in DOMAIN m_MessageBuffer',
                          m_MessageBuffer'[i].id # 0
                   PROVE  /\ \A j \in DOMAIN m_MessageBuffer' :
                                m_MessageBuffer'[j].id = m_MessageBuffer'[i].id
                                   => j = i
                          /\ \A w \in wire' :
                                w.msg.id = m_MessageBuffer'[i].id => w.resent
      BY <2>2, <3>3 DEF CachedOnce
    <3>5. /\ i \in Nat /\ i >= 1
          /\ i + 1 \in DOMAIN buf /\ m_MessageBuffer'[i] = buf[i + 1]
      BY <3>1, <3>2, <3>4
    <3>6. /\ \A j \in DOMAIN buf : buf[j].id = buf[i + 1].id => j = i + 1
          /\ \A w \in wire : w.msg.id = buf[i + 1].id => w.resent
      BY <3>4, <3>5 DEF CachedOnce
    <3>7. m.id # buf[i + 1].id
      BY <3>1, <3>5, <3>6
    <3>8. ASSUME NEW j \in DOMAIN m_MessageBuffer',
                 m_MessageBuffer'[j].id = m_MessageBuffer'[i].id
          PROVE  j = i
      <4>1. /\ j \in Nat /\ j + 1 \in DOMAIN buf
            /\ buf[j + 1].id = buf[i + 1].id
        BY <3>1, <3>2, <3>5, <3>8
      <4>2. j + 1 = i + 1
        BY <3>6, <4>1
      <4>. QED  BY <3>5, <4>1, <4>2
    <3>. QED  BY <2>1, <3>5, <3>6, <3>7, <3>8
  <2>. QED  BY <2>3, <2>4
<1>. QED  BY <1>2, <1>6, <1>7, <1>8

\* A loop without a socket stays one until the process ends; every other loop
\* ends with an empty cache.
LEMMA SpinNext ==
    ASSUME OutTypeOK, [Next]_vars, Spinning
    PROVE  Spinning' \/ m_MessageBuffer' = <<>>
<1>1. loop = "flush" /\ stream = "off"
  BY DEF Spinning
<1>2. ~Handles
  BY <1>1 DEF Handles
<1>3. CASE Flush
  BY <1>1, <1>3 DEF Flush, FlushDone, FlushFirst, connVars, Spinning
<1>4. CASE Dies
  BY <1>4 DEF Dies
<1>5. CASE Starts \/ UNCHANGED vars
  BY <1>1, <1>5 DEF Starts, vars, connVars, Spinning
<1>. QED
  BY <1>2, <1>3, <1>4, <1>5
     DEF Next, UiRequests, Receives, Connection, Asked, Hears, UiSends,
         UiStarts, UiStops, UiAsksStatus, UiConnects, UiLeaves, UiAsksContacts,
         GoneEncrypted, ReceiveSealed, ReceiveError, ReceivePlain, PeerEnds,
         StreamOpens, SessionStarts, StreamDrops, RosterArrives

LEMMA OnceNext ==
    OutTypeOK /\ IdsGiven /\ (Spinning \/ CachedOnce) /\ [Next]_vars
       => IdsGiven' /\ (Spinning' \/ CachedOnce')
<1>. SUFFICES ASSUME OutTypeOK, IdsGiven, Spinning \/ CachedOnce, [Next]_vars
              PROVE  IdsGiven' /\ (Spinning' \/ CachedOnce')
  OBVIOUS
<1>1. ASSUME NEW m \in Message, NEW broken \in BOOLEAN,
             NEW rest \in {m_MessageBuffer, Tail(m_MessageBuffer)},
             SendMessage(m, broken, rest),
             \/ /\ rest = m_MessageBuffer
                /\ \/ m.id = sends + 1 /\ sends' = sends + 1
                   \/ m.id = 0 /\ sends' = sends
             \/ /\ rest = Tail(m_MessageBuffer)
                /\ m_MessageBuffer # <<>>
                /\ m = Head(m_MessageBuffer)
                /\ loop = "flush"
                /\ sends' = sends,
             UNCHANGED <<connVars, loop>>
      PROVE  IdsGiven' /\ (Spinning' \/ CachedOnce')
  <2>1. Spinning' = Spinning
    BY <1>1 DEF connVars, Spinning
  <2>2. sends \in Nat /\ m_MessageBuffer \in Seq(Message)
    BY DEF OutTypeOK
  <2>3. PICK n \in Nat :
           /\ sends' = n /\ sends <= n /\ m.id <= n
           /\ \/ /\ rest = m_MessageBuffer
                 /\ m.id = 0 \/ (m.id = n /\ sends < n)
              \/ /\ rest = Tail(m_MessageBuffer) /\ m_MessageBuffer # <<>>
                 /\ m = Head(m_MessageBuffer) /\ loop = "flush"
    <3>1. CASE /\ rest = m_MessageBuffer
               /\ m.id = sends + 1 /\ sends' = sends + 1
      <4>1. sends + 1 \in Nat /\ sends <= sends + 1 /\ sends < sends + 1
        BY <2>2
      <4>. QED  BY <3>1, <4>1
    <3>2. CASE rest = m_MessageBuffer /\ m.id = 0 /\ sends' = sends
      BY <2>2, <3>2
    <3>3. CASE /\ rest = Tail(m_MessageBuffer) /\ m_MessageBuffer # <<>>
               /\ m = Head(m_MessageBuffer) /\ loop = "flush"
               /\ sends' = sends
      <4>1. 1 \in DOMAIN m_MessageBuffer /\ m_MessageBuffer[1] = m
        BY <2>2, <3>3
      <4>2. m.id <= sends
        BY <4>1 DEF IdsGiven
      <4>. QED  BY <2>2, <3>3, <4>2
    <3>. QED  BY <1>1, <3>1, <3>2, <3>3
  <2>4. /\ \A i \in DOMAIN m_MessageBuffer' : m_MessageBuffer'[i].id <= n
        /\ \A w \in wire' : ~w.resent => w.msg.id <= n
        /\ CachedOnce => Spinning \/ CachedOnce'
    BY <1>1, <2>3, SendOnce
  <2>5. IdsGiven'
    BY <2>3, <2>4 DEF IdsGiven
  <2>. QED  BY <2>1, <2>4, <2>5
<1>2. CASE UNCHANGED <<wire, m_MessageBuffer, sends>>
  <2>1. IdsGiven'
    BY <1>2 DEF IdsGiven
  <2>2. CASE Spinning
    <3>1. CASE m_MessageBuffer' = <<>>
      <4>1. DOMAIN m_MessageBuffer' = {}
        BY <3>1
      <4>. QED  BY <2>1, <4>1 DEF CachedOnce
    <3>. QED  BY <2>1, <2>2, <3>1, SpinNext
  <2>3. CASE CachedOnce
    BY <1>2, <2>1, <2>3 DEF CachedOnce
  <2>. QED  BY <2>2, <2>3
<1>3. CASE Dies
  <2>1. m_MessageBuffer' = <<>> /\ UNCHANGED <<sends, wire>>
    BY <1>3 DEF Dies
  <2>. QED  BY <2>1 DEF IdsGiven, CachedOnce
<1>4. ASSUME NEW c \in Contacts, NEW newPrint \in BOOLEAN,
             NEW recent \in BOOLEAN, GoneEncrypted(c, newPrint, recent)
      PROVE  IdsGiven' /\ (Spinning' \/ CachedOnce')
  <2>1. CachedOnce
    BY <1>4 DEF GoneEncrypted, Hears, Handles, Spinning
  <2>2. UNCHANGED <<m_MessageBuffer, sends>>
    BY <1>4 DEF GoneEncrypted
  <2>3. \A w \in wire' : w \in wire \/ w.resent
    BY <1>4 DEF GoneEncrypted
  <2>4. IdsGiven'
    BY <2>2, <2>3 DEF IdsGiven
  <2>5. CachedOnce'
    BY <2>1, <2>2, <2>3 DEF CachedOnce
  <2>. QED  BY <2>4, <2>5
<1>. QED  BY <1>1, <1>2, <1>3, <1>4, SendCases

\* No text leaves twice by the cache: what is cached is cached once and was
\* not written before, unless the loop over the cache has lost its socket.
THEOREM OneWaySafe == Spec => []OneWayOut
<1>1. Init => IdsGiven /\ (Spinning \/ CachedOnce)
  BY DEF Init, IdsGiven, CachedOnce
<1>2. (Spinning \/ CachedOnce) => OneWayOut
  BY DEF CachedOnce, OneWayOut
<1>. QED  BY <1>1, <1>2, TypeInit, TypeNext, OnceNext, PTL DEF Spec
=============================================================================
