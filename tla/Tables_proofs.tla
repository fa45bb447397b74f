---------------------------- MODULE Tables_proofs ---------------------------
(***************************************************************************)
(* Theorems about Contacts and Rooms: types, and that what the client keeps*)
(* of the server's tables is what the server has once nothing is on its    *)
(* way, for any number of contacts, occupants and stanzas.                 *)
(*                                                                         *)
(* While stanzas are on their way the tables differ.  The invariant says   *)
(* that reading the stanzas that are there, one by one, brings the client  *)
(* to what the server has now.                                             *)
(***************************************************************************)
EXTENDS MCService, Hub_proofs, Stream_proofs

-----------------------------------------------------------------------------
(* Reading a sequence of stanzas: R has the steps <<view, stanza, view>>,  *)
(* V the views.                                                            *)

Reads(R, V, a, w, b) ==
    \E st \in [0..Len(w) -> V] :
        /\ st[0] = a /\ st[Len(w)] = b
        /\ \A i \in 1..Len(w) : <<st[i - 1], w[i], st[i]>> \in R

LEMMA ReadsNone ==
  ASSUME NEW R, NEW V, NEW a \in V
  PROVE  Reads(R, V, a, <<>>, a)
<1> DEFINE st == [i \in 0..0 |-> a]
<1>1. Len(<<>>) = 0 /\ 1..0 = {}
  OBVIOUS
<1>2. st \in [0..0 -> V] /\ st[0] = a
  OBVIOUS
<1> HIDE DEF st
<1> QED  BY <1>1, <1>2 DEF Reads

LEMMA ReadsEmpty ==
  ASSUME NEW R, NEW V, NEW a, NEW b, Reads(R, V, a, <<>>, b)
  PROVE  a = b
<1>1. Len(<<>>) = 0
  OBVIOUS
<1> QED  BY <1>1 DEF Reads

LEMMA ReadsOne ==
  ASSUME NEW R, NEW V, NEW a \in V, NEW b \in V, NEW m, <<a, m, b>> \in R
  PROVE  Reads(R, V, a, <<m>>, b)
<1> DEFINE st == [i \in 0..1 |-> IF i = 0 THEN a ELSE b]
           w == <<m>>
<1>1. Len(w) = 1 /\ w[1] = m /\ 1 - 1 = 0 /\ \A i \in 1..1 : i = 1
  OBVIOUS
<1>2. st \in [0..1 -> V] /\ st[0] = a /\ st[1] = b
  OBVIOUS
<1> HIDE DEF st, w
<1>3. \A i \in 1..Len(w) : <<st[i - 1], w[i], st[i]>> \in R
  BY <1>1, <1>2
<1>4. Reads(R, V, a, w, b)
  BY <1>1, <1>2, <1>3 DEF Reads
<1> QED  BY <1>4 DEF w

LEMMA ReadsBoth ==
  ASSUME NEW R, NEW V, NEW M, NEW w \in Seq(M), NEW x \in Seq(M), NEW a, NEW b, NEW c,
         Reads(R, V, a, w, b), Reads(R, V, b, x, c)
  PROVE  Reads(R, V, a, w \o x, c)
<1> DEFINE k == Len(w)
           l == Len(x)
           wx == w \o x
<1>1. k \in Nat /\ l \in Nat
  OBVIOUS
<1>2. /\ Len(wx) = k + l
      /\ \A i \in 1..k : wx[i] = w[i]
      /\ \A i \in 1..l : wx[k + i] = x[i]
  OBVIOUS
<1>3. PICK s \in [0..k -> V] : /\ s[0] = a /\ s[k] = b
                               /\ \A i \in 1..k : <<s[i - 1], w[i], s[i]>> \in R
  BY DEF Reads
<1>4. PICK t \in [0..l -> V] : /\ t[0] = b /\ t[l] = c
                               /\ \A i \in 1..l : <<t[i - 1], x[i], t[i]>> \in R
  BY DEF Reads
<1> HIDE DEF k, l, wx
<1> DEFINE u == [i \in 0..(k + l) |-> IF i <= k THEN s[i] ELSE t[i - k]]
<1>5. u \in [0..(k + l) -> V]
  <2>1. ASSUME NEW i \in 0..(k + l) PROVE (IF i <= k THEN s[i] ELSE t[i - k]) \in V
    <3>1. i <= k => i \in 0..k
      BY <1>1
    <3>2. ~(i <= k) => i - k \in 0..l
      BY <1>1
    <3> QED  BY <1>3, <1>4, <3>1, <3>2
  <2> QED  BY <2>1
<1>6. (\A i \in 0..k : u[i] = s[i]) /\ (\A i \in 0..l : u[k + i] = t[i])
  <2>1. \A i \in 0..k : i \in 0..(k + l) /\ i <= k
    BY <1>1
  <2>2. ASSUME NEW i \in 0..l PROVE u[k + i] = t[i]
    <3>1. CASE i = 0
      <4>1. k + i = k /\ k \in 0..(k + l) /\ k <= k
        BY <1>1, <3>1
      <4> QED  BY <1>3, <1>4, <3>1, <4>1
    <3>2. CASE i # 0
      <4>1. k + i \in 0..(k + l) /\ ~(k + i <= k) /\ (k + i) - k = i
        BY <1>1, <3>2
      <4> QED  BY <4>1
    <3> QED  BY <3>1, <3>2
  <2> QED  BY <2>1, <2>2
<1> HIDE DEF u
<1>7. u[0] = a /\ u[k + l] = c
  <2>1. 0 \in 0..k /\ l \in 0..l
    BY <1>1
  <2> QED  BY <1>3, <1>4, <1>6, <2>1
<1>8. ASSUME NEW i \in 1..(k + l) PROVE <<u[i - 1], wx[i], u[i]>> \in R
  <2>1. CASE i <= k
    <3>1. i \in 1..k /\ i \in 0..k /\ i - 1 \in 0..k
      BY <1>1, <2>1
    <3> QED  BY <1>2, <1>3, <1>6, <3>1
  <2>2. CASE ~(i <= k)
    <3> DEFINE j == i - k
    <3>1. j \in 1..l /\ j \in 0..l /\ j - 1 \in 0..l /\ i = k + j /\ i - 1 = k + (j - 1)
      BY <1>1, <2>2
    <3> HIDE DEF j
    <3> QED  BY <1>2, <1>4, <1>6, <3>1
  <2> QED  BY <2>1, <2>2
<1>9. Reads(R, V, a, wx, c)
  BY <1>2, <1>5, <1>7, <1>8 DEF Reads
<1> QED  BY <1>9 DEF wx

LEMMA ReadsHead ==
  ASSUME NEW R, NEW V, NEW M, NEW w \in Seq(M), w # <<>>, NEW a, NEW b, Reads(R, V, a, w, b)
  PROVE  \E x \in V : <<a, Head(w), x>> \in R /\ Reads(R, V, x, Tail(w), b)
<1> DEFINE k == Len(w) - 1
           y == Tail(w)
<1>1. k \in Nat /\ Len(w) = k + 1 /\ Len(y) = k /\ Head(w) = w[1]
      /\ \A i \in 1..k : y[i] = w[i + 1]
  OBVIOUS
<1>2. PICK s \in [0..Len(w) -> V] : /\ s[0] = a /\ s[Len(w)] = b
                                    /\ \A i \in 1..Len(w) : <<s[i - 1], w[i], s[i]>> \in R
  BY DEF Reads
<1> HIDE DEF k, y
<1> DEFINE u == [i \in 0..k |-> s[i + 1]]
<1>3. u \in [0..k -> V]
  <2>1. \A i \in 0..k : i + 1 \in 0..Len(w)
    BY <1>1
  <2> QED  BY <1>2, <2>1
<1>4. \A i \in 0..k : u[i] = s[i + 1]
  OBVIOUS
<1> HIDE DEF u
<1>5. s[1] \in V /\ <<a, Head(w), s[1]>> \in R
  <2>1. 1 \in 1..Len(w) /\ 1 \in 0..Len(w) /\ 1 - 1 = 0
    BY <1>1
  <2> QED  BY <1>1, <1>2, <2>1
<1>6. u[0] = s[1] /\ u[k] = b
  <2>1. 0 \in 0..k /\ k \in 0..k /\ 0 + 1 = 1
    BY <1>1
  <2> QED  BY <1>1, <1>2, <1>4, <2>1
<1>7. ASSUME NEW i \in 1..k PROVE <<u[i - 1], y[i], u[i]>> \in R
  <2>1. i - 1 \in 0..k /\ i \in 0..k /\ i + 1 \in 1..Len(w) /\ (i - 1) + 1 = i /\ (i + 1) - 1 = i
    BY <1>1
  <2> QED  BY <1>1, <1>2, <1>4, <2>1
<1>8. Reads(R, V, s[1], y, b)
  BY <1>1, <1>3, <1>6, <1>7 DEF Reads
<1> QED  BY <1>5, <1>8 DEF y

\* One more stanza.
LEMMA ReadsAppend ==
  ASSUME NEW R, NEW V, NEW M, NEW w \in Seq(M), NEW m \in M, NEW a, NEW b \in V, NEW c \in V,
         Reads(R, V, a, w, b), <<b, m, c>> \in R
  PROVE  Reads(R, V, a, Append(w, m), c)
<1>1. <<m>> \in Seq(M) /\ w \o <<m>> = Append(w, m)
  OBVIOUS
<1>2. Reads(R, V, b, <<m>>, c)
  BY ReadsOne
<1> QED  BY <1>1, <1>2, ReadsBoth

LEMMA ReadsTwo ==
  ASSUME NEW R, NEW V, NEW m, NEW n, NEW a \in V, NEW b \in V, NEW c \in V,
         <<a, m, b>> \in R, <<b, n, c>> \in R
  PROVE  Reads(R, V, a, <<m, n>>, c)
<1> DEFINE st == [i \in 0..2 |-> IF i = 0 THEN a ELSE IF i = 1 THEN b ELSE c]
           w == <<m, n>>
<1>1. Len(w) = 2 /\ w[1] = m /\ w[2] = n /\ 1 - 1 = 0 /\ 2 - 1 = 1
      /\ \A i \in 1..2 : i = 1 \/ i = 2
  OBVIOUS
<1>2. st \in [0..2 -> V] /\ st[0] = a /\ st[1] = b /\ st[2] = c
  OBVIOUS
<1> HIDE DEF st, w
<1>3. \A i \in 1..Len(w) : <<st[i - 1], w[i], st[i]>> \in R
  BY <1>1, <1>2
<1>4. Reads(R, V, a, w, c)
  BY <1>1, <1>2, <1>3 DEF Reads
<1> QED  BY <1>4 DEF w

\* A set in some order.
LEMMA OrderFacts ==
  ASSUME NEW S, IsFiniteSet(S), NEW o \in InSomeOrder(S)
  PROVE  /\ o \in Seq(S) /\ DOMAIN o = 1..Len(o) /\ Len(o) \in Nat
         /\ \A i \in 1..Len(o) : o[i] \in S
         /\ \A x \in S : \E i \in 1..Len(o) : o[i] = x
<1> DEFINE n == Cardinality(S)
<1>1. n \in Nat
  BY FS_CardinalityType
<1>2. o \in [1..n -> S] /\ \A x \in S : \E i \in DOMAIN o : o[i] = x
  BY DEF InSomeOrder
<1> HIDE DEF n
<1>3. o \in Seq(S) /\ Len(o) = n
  BY <1>1, <1>2
<1> QED  BY <1>1, <1>2, <1>3

-----------------------------------------------------------------------------
(* The room.                                                               *)

\* What of the room here the room's presences change: the nickname, the
\* participants and the allowed actions; and how (_q_presenceReceived).
RoomView == Nicks \X (SUBSET Nicks) \X {{}, Actions}

RoomReads(v, p, u) ==
    \/ /\ p.type = "available"
       /\ u = <<v[1], v[2] \cup {p.nick}, IF p.nick = v[1] THEN p.role ELSE v[3]>>
    \/ /\ p.type = "unavailable" /\ (p.nick \notin v[2] \/ p.nick # v[1])
       /\ u = <<v[1], v[2] \ {p.nick}, v[3]>>
    \/ /\ p.type = "unavailable" /\ p.nick \in v[2] /\ p.nick = v[1]
       /\ p.newNick \notin {NoNick, v[1]}
       /\ u = <<p.newNick, v[2] \ {p.nick}, v[3]>>
    \/ /\ p.type = "unavailable" /\ p.nick \in v[2] /\ p.nick = v[1]
       /\ p.newNick \in {NoNick, v[1]}
       /\ u = <<v[1], {}, {}>>
    \/ p.type = "error" /\ u = v
RoomSteps == {t \in RoomView \X RoomPresence \X RoomView : RoomReads(t[1], t[2], t[3])}

RoomNow == <<nickName, participants, allowedActions>>

\* What the client comes to is the room as it is.
Mirrors(v) ==
    /\ InRoom => v = <<myNick, others \cup {myNick}, RoleIn(moderator)>>
    /\ ~InRoom => v[2] = {} /\ v[3] = {}

\* A join is the first of what is sent, and everything rests until the room
\* has it.
JoinsFirst == \A i \in DOMAIN toRoom : toRoom[i].type = "join" =>
    i = 1 /\ ~InRoom /\ fromRoom = <<>> /\ toRoom[i].nick = nickName

RoomComing ==
    /\ created => \E v \in RoomView : Reads(RoomSteps, RoomView, RoomNow, fromRoom, v) /\ Mirrors(v)
    /\ ~created => /\ toRoom = <<>> /\ fromRoom = <<>> /\ ~InRoom
                   /\ participants = {} /\ allowedActions = {}

RoomsInv == RoomsTypeOK /\ JoinsFirst /\ RoomComing

LEMMA RoomFacts ==
  ASSUME RoomsInv
  PROVE  /\ toRoom \in Seq(RoomRequest) /\ fromRoom \in Seq(RoomPresence)
         /\ created => RoomNow \in RoomView /\ nickName \in Nicks
         /\ InRoom => myNick \in Nicks /\ myNick \notin others
         /\ others \subseteq Nicks /\ RoleIn(moderator) \in {{}, Actions}
  BY RoomsAssumption DEF RoomsInv, RoomsTypeOK, RoomNow, RoomView, InRoom, RoleIn

\* Steps that leave the room here and the room alone.
LEMMA RoomNowKept ==
  ASSUME RoomComing, UNCHANGED <<roomVars, placeVars, fromRoom, created>>, created
  PROVE  RoomComing'
<1>1. RoomNow' = RoomNow /\ fromRoom' = fromRoom /\ created'
  BY DEF RoomNow, roomVars
<1>2. \A v : Mirrors(v)' <=> Mirrors(v)
  BY DEF Mirrors, InRoom, placeVars
<1> QED  BY <1>1, <1>2 DEF RoomComing

\* Stanzas come, which bring the client from the room as it was to the room
\* as it is.
LEMMA RoomTold ==
  ASSUME RoomsInv, RoomsTypeOK', created, UNCHANGED <<roomVars, created>>,
         NEW x \in Seq(RoomPresence), fromRoom' = fromRoom \o x,
         \A v \in RoomView : Reads(RoomSteps, RoomView, RoomNow, fromRoom, v) /\ Mirrors(v) =>
            \E u \in RoomView : Reads(RoomSteps, RoomView, v, x, u) /\ Mirrors(u)'
  PROVE  RoomComing'
<1>1. PICK v \in RoomView : Reads(RoomSteps, RoomView, RoomNow, fromRoom, v) /\ Mirrors(v)
  BY DEF RoomsInv, RoomComing
<1>2. PICK u \in RoomView : Reads(RoomSteps, RoomView, v, x, u) /\ Mirrors(u)'
  BY <1>1
<1>3. fromRoom \in Seq(RoomPresence)
  BY RoomFacts
<1>4. Reads(RoomSteps, RoomView, RoomNow, fromRoom \o x, u)
  BY <1>1, <1>2, <1>3, ReadsBoth
<1>5. RoomNow' = RoomNow /\ created'
  BY DEF RoomNow, roomVars
<1> QED  BY <1>2, <1>4, <1>5 DEF RoomComing

\* Only one of the requests is a join, and it is gone as soon as the room
\* says anything.
LEMMA NoJoins ==
  ASSUME RoomsInv, InRoom \/ fromRoom # <<>>
  PROVE  \A i \in DOMAIN toRoom : toRoom[i].type # "join"
  BY DEF RoomsInv, JoinsFirst

LEMMA HereTypes ==
  ASSUME NEW nick \in Nicks, NEW role \in {{}, Actions}
  PROVE  /\ Here(nick, role) \in RoomPresence /\ Here(nick, role).type = "available"
         /\ Here(nick, role).nick = nick /\ Here(nick, role).role = role
  BY DEF Here, RoomPresence

LEMMA GoneTypes ==
  ASSUME NEW nick \in Nicks, NEW newNick \in Nicks \cup {NoNick}
  PROVE  /\ Gone(nick, newNick) \in RoomPresence /\ Gone(nick, newNick).type = "unavailable"
         /\ Gone(nick, newNick).nick = nick /\ Gone(nick, newNick).newNick = newNick
  BY DEF Gone, RoomPresence

LEMMA ReadsHere ==
  ASSUME NEW v \in RoomView, NEW nick \in Nicks, NEW role \in {{}, Actions}
  PROVE  LET u == <<v[1], v[2] \cup {nick}, IF nick = v[1] THEN role ELSE v[3]>>
         IN  u \in RoomView /\ <<v, Here(nick, role), u>> \in RoomSteps
<1> DEFINE u == <<v[1], v[2] \cup {nick}, IF nick = v[1] THEN role ELSE v[3]>>
           m == Here(nick, role)
<1>1. m \in RoomPresence /\ m.type = "available" /\ m.nick = nick /\ m.role = role
  BY HereTypes
<1>2. u \in RoomView
  BY DEF RoomView
<1> HIDE DEF m
<1>3. RoomReads(v, m, u)
  BY <1>1 DEF RoomReads
<1> HIDE DEF u
<1> QED  BY <1>1, <1>2, <1>3 DEF RoomSteps, u, m

LEMMA ReadsGone ==
  ASSUME NEW v \in RoomView, NEW nick \in Nicks, NEW newNick \in Nicks \cup {NoNick}
  PROVE  LET u == IF nick \notin v[2] \/ nick # v[1] THEN <<v[1], v[2] \ {nick}, v[3]>>
                  ELSE IF newNick \in {NoNick, v[1]} THEN <<v[1], {}, {}>>
                  ELSE <<newNick, v[2] \ {nick}, v[3]>>
         IN  u \in RoomView /\ <<v, Gone(nick, newNick), u>> \in RoomSteps
<1> DEFINE u == IF nick \notin v[2] \/ nick # v[1] THEN <<v[1], v[2] \ {nick}, v[3]>>
                ELSE IF newNick \in {NoNick, v[1]} THEN <<v[1], {}, {}>>
                ELSE <<newNick, v[2] \ {nick}, v[3]>>
           m == Gone(nick, newNick)
<1>1. m \in RoomPresence /\ m.type = "unavailable" /\ m.nick = nick /\ m.newNick = newNick
  BY GoneTypes
<1>2. u \in RoomView
  BY DEF RoomView
<1> HIDE DEF m
<1>3. RoomReads(v, m, u)
  BY <1>1 DEF RoomReads
<1> HIDE DEF u
<1> QED  BY <1>1, <1>2, <1>3 DEF RoomSteps, u, m

\* The occupants, in whatever order, for a client that is not one of them.
LEMMA ReadsSeen ==
  ASSUME NEW S \in SUBSET Nicks, NEW o \in InSomeOrder(S), NEW v \in RoomView, v[1] \notin S
  PROVE  LET x == [i \in DOMAIN o |-> Here(o[i], {})]
             u == <<v[1], v[2] \cup S, v[3]>>
         IN  x \in Seq(RoomPresence) /\ u \in RoomView /\ Reads(RoomSteps, RoomView, v, x, u)
<1> DEFINE x == [i \in DOMAIN o |-> Here(o[i], {})]
           u == <<v[1], v[2] \cup S, v[3]>>
           n == Len(o)
<1>1. IsFiniteSet(S)
  BY RoomsAssumption, FS_Subset
<1>2. /\ DOMAIN o = 1..n /\ n \in Nat /\ \A i \in 1..n : o[i] \in S
      /\ \A y \in S : \E i \in 1..n : o[i] = y
  BY <1>1, OrderFacts
<1> HIDE DEF n
<1>3. \A i \in 1..n : x[i] = Here(o[i], {}) /\ x[i] \in RoomPresence
  BY <1>2, HereTypes
<1>4. x \in [1..n -> RoomPresence]
  BY <1>2, <1>3
<1>5. x \in Seq(RoomPresence) /\ Len(x) = n
  BY <1>2, <1>4
<1> HIDE DEF x
<1> DEFINE st == [k \in 0..n |-> <<v[1], v[2] \cup {o[i] : i \in 1..k}, v[3]>>]
<1>6. st \in [0..n -> RoomView]
  <2>1. ASSUME NEW k \in 0..n PROVE <<v[1], v[2] \cup {o[i] : i \in 1..k}, v[3]>> \in RoomView
    <3>1. {o[i] : i \in 1..k} \subseteq Nicks
      BY <1>2
    <3> QED  BY <3>1 DEF RoomView
  <2> QED  BY <2>1
<1>7. st[0] = v
  <2>1. {o[i] : i \in 1..0} = {} /\ 0 \in 0..n
    BY <1>2
  <2>2. v = <<v[1], v[2], v[3]>>
    BY DEF RoomView
  <2>3. v[2] \cup {} = v[2]
    OBVIOUS
  <2> QED  BY <2>1, <2>2, <2>3
<1>8. st[n] = u
  <2>1. {o[i] : i \in 1..n} = S /\ n \in 0..n
    BY <1>2
  <2> QED  BY <2>1
<1>9. ASSUME NEW k \in 1..n PROVE <<st[k - 1], x[k], st[k]>> \in RoomSteps
  <2>1. k \in 0..n /\ k - 1 \in 0..n
    BY <1>2
  <2>2. {o[i] : i \in 1..k} = {o[i] : i \in 1..(k - 1)} \cup {o[k]}
    <3>1. \A i \in 1..k : i \in 1..(k - 1) \/ i = k
      BY <1>2
    <3>2. \A i \in 1..(k - 1) : i \in 1..k
      BY <1>2
    <3>3. k \in 1..k
      BY <1>2
    <3> QED  BY <3>1, <3>2, <3>3
  <2>3. st[k - 1] = <<v[1], v[2] \cup {o[i] : i \in 1..(k - 1)}, v[3]>>
        /\ st[k] = <<v[1], v[2] \cup {o[i] : i \in 1..k}, v[3]>>
        /\ st[k - 1] \in RoomView
    BY <1>6, <2>1
  <2> DEFINE A == {o[i] : i \in 1..(k - 1)}
             z == st[k - 1]
  <2>4. z[1] = v[1] /\ z[2] = v[2] \cup A /\ z[3] = v[3]
    <3> DEFINE B == v[2] \cup A
    <3>1. z = <<v[1], B, v[3]>>
      BY <2>3
    <3> HIDE DEF z, B
    <3>2. z[1] = v[1] /\ z[2] = B /\ z[3] = v[3]
      BY <3>1
    <3> QED  BY <3>2 DEF B
  <2>5. st[k] = <<z[1], z[2] \cup {o[k]}, z[3]>>
    <3>1. (v[2] \cup A) \cup {o[k]} = v[2] \cup {o[i] : i \in 1..k}
      BY <2>2
    <3> QED  BY <2>3, <2>4, <3>1
  <2>6. o[k] \in Nicks /\ o[k] # z[1]
    BY <1>2, <2>4
  <2> HIDE DEF z, st
  <2>7. <<z, Here(o[k], {}), st[k]>> \in RoomSteps
    BY <2>3, <2>5, <2>6, ReadsHere DEF z
  <2> QED  BY <1>3, <2>7 DEF z
<1> HIDE DEF st
<1>10. Reads(RoomSteps, RoomView, v, x, u)
  BY <1>5, <1>6, <1>7, <1>8, <1>9 DEF Reads
<1>11. u \in RoomView
  BY DEF RoomView
<1> QED  BY <1>5, <1>10, <1>11 DEF x

LEMMA StanzaKinds ==
  ASSUME NEW p \in RoomPresence
  PROVE  /\ p.type \in {"available", "unavailable", "error"}
         /\ p.type = "available" => p.nick \in Nicks /\ p.role \in {{}, Actions}
         /\ p.type = "unavailable" => p.nick \in Nicks /\ p.newNick \in Nicks \cup {NoNick}
  BY DEF RoomPresence

LEMMA RequestKinds ==
  ASSUME NEW r \in RoomRequest
  PROVE  r.type \in {"join", "available", "leave"} /\ r.nick \in Nicks
  BY DEF RoomRequest

\* A request that is not a join.
LEMMA SentRequest ==
  ASSUME RoomsInv, NEW type \in {"available", "leave"}, NEW nick \in Nicks,
         SendToRoom(type, nick), UNCHANGED <<myNick, fromRoom, nickName>>
  PROVE  JoinsFirst' /\ toRoom' \in Seq(RoomRequest)
<1> DEFINE r == [type |-> type, nick |-> nick]
           w == toRoom
           x == Append(w, r)
<1>1. w \in Seq(RoomRequest) /\ JoinsFirst
  BY RoomFacts DEF RoomsInv
<1>2. r \in RoomRequest /\ r.type # "join"
  BY DEF RoomRequest
<1>3. toRoom' = x \/ toRoom' = w
  BY DEF SendToRoom
<1> HIDE DEF r
<1>4. /\ x \in Seq(RoomRequest) /\ DOMAIN x = 1..(Len(w) + 1) /\ DOMAIN w = 1..Len(w)
      /\ Len(w) \in Nat /\ x[Len(w) + 1] = r /\ \A i \in 1..Len(w) : x[i] = w[i]
  BY <1>1, <1>2
<1> HIDE DEF x
<1>5. ASSUME NEW i \in DOMAIN x, x[i].type = "join" PROVE i \in DOMAIN w /\ x[i] = w[i]
  <2>1. i \in 1..Len(w) \/ i = Len(w) + 1
    BY <1>4
  <2> QED  BY <1>2, <1>4, <1>5, <2>1
<1>6. JoinsFirst'
  <2>1. CASE toRoom' = w
    BY <1>1, <2>1 DEF JoinsFirst, InRoom
  <2>2. CASE toRoom' = x
    <3>1. ASSUME NEW i \in DOMAIN x, x[i].type = "join"
          PROVE  i = 1 /\ ~InRoom /\ fromRoom = <<>> /\ x[i].nick = nickName
      BY <1>1, <1>5, <3>1 DEF JoinsFirst
    <3> QED  BY <2>2, <3>1 DEF JoinsFirst, InRoom
  <2> QED  BY <1>3, <2>1, <2>2
<1> QED  BY <1>1, <1>3, <1>4, <1>6

\* A join, on wires that are empty.
LEMMA SentJoin ==
  ASSUME RoomsInv, NEW nick \in Nicks, SendToRoom("join", nick), toRoom = <<>>,
         fromRoom' = <<>>, ~InRoom', nickName' = nick
  PROVE  JoinsFirst' /\ toRoom' \in Seq(RoomRequest)
<1> DEFINE r == [type |-> "join", nick |-> nick]
           x == Append(<<>>, r)
<1>1. r \in RoomRequest /\ r.nick = nick
  BY DEF RoomRequest
<1>2. toRoom' = x \/ toRoom' = <<>>
  BY DEF SendToRoom
<1> HIDE DEF r
<1>3. x \in Seq(RoomRequest) /\ DOMAIN x = {1} /\ x[1] = r /\ <<>> \in Seq(RoomRequest)
      /\ DOMAIN <<>> = {}
  BY <1>1
<1> HIDE DEF x
<1>4. JoinsFirst'
  <2>1. \A i \in DOMAIN toRoom' : i = 1 /\ toRoom'[i] = r
    BY <1>2, <1>3
  <2> QED  BY <1>1, <2>1 DEF JoinsFirst
<1> QED  BY <1>2, <1>3, <1>4

\* Requests that are gone leave no join: it was the first.
LEMMA TakenRequest ==
  ASSUME RoomsInv, toRoom # <<>>, toRoom' = Tail(toRoom)
  PROVE  JoinsFirst' /\ toRoom' \in Seq(RoomRequest) /\ Head(toRoom) \in RoomRequest
         /\ (Head(toRoom).type = "join" =>
                ~InRoom /\ fromRoom = <<>> /\ Head(toRoom).nick = nickName)
<1> DEFINE w == toRoom
           x == Tail(w)
<1>1. w \in Seq(RoomRequest) /\ w # <<>> /\ JoinsFirst
  BY RoomFacts DEF RoomsInv
<1>2. /\ x \in Seq(RoomRequest) /\ Head(w) = w[1] /\ 1 \in DOMAIN w /\ w[1] \in RoomRequest
      /\ \A i \in DOMAIN x : i \in Nat /\ i # 0 /\ i + 1 \in DOMAIN w /\ x[i] = w[i + 1]
  BY <1>1
<1>3. toRoom' = x
  OBVIOUS
<1> HIDE DEF x
<1>4. \A i \in DOMAIN x : x[i].type # "join"
  <2>1. ASSUME NEW i \in DOMAIN x, x[i].type = "join" PROVE FALSE
    <3>1. i + 1 = 1
      BY <1>1, <1>2, <2>1 DEF JoinsFirst
    <3> QED  BY <1>2, <3>1
  <2> QED  BY <2>1
<1>5. JoinsFirst'
  BY <1>3, <1>4 DEF JoinsFirst
<1> QED  BY <1>1, <1>2, <1>3, <1>5 DEF JoinsFirst

\* What is told arrives after what is on its way, if we are in the room.
LEMMA ToldRoom ==
  ASSUME RoomsInv, NEW x \in Seq(RoomPresence), Told(x), RoomsTypeOK', created,
         UNCHANGED <<roomVars, created>>,
         InRoom => \A v \in RoomView : Mirrors(v) =>
            \E u \in RoomView : Reads(RoomSteps, RoomView, v, x, u) /\ Mirrors(u)',
         ~InRoom => \A v : Mirrors(v) => Mirrors(v)'
  PROVE  RoomComing'
<1>1. CASE InRoom
  BY <1>1, RoomTold DEF Told
<1>2. CASE ~InRoom
  <2>1. fromRoom' = fromRoom
    BY <1>2 DEF Told
  <2>2. RoomNow' = RoomNow /\ created'
    BY DEF RoomNow, roomVars
  <2> QED  BY <1>2, <2>1, <2>2 DEF RoomComing, RoomsInv
<1> QED  BY <1>1, <1>2

\* Told leaves no request's place.
LEMMA JoinsKept ==
  ASSUME RoomsInv, UNCHANGED <<toRoom, nickName>>,
         \/ InRoom \/ fromRoom # <<>>
         \/ fromRoom' = fromRoom /\ myNick' = myNick
  PROVE  JoinsFirst'
<1>1. CASE InRoom \/ fromRoom # <<>>
  BY <1>1, NoJoins DEF JoinsFirst
<1>2. CASE fromRoom' = fromRoom /\ myNick' = myNick
  BY <1>2 DEF RoomsInv, JoinsFirst, InRoom
<1> QED  BY <1>1, <1>2

LEMMA OneOrTwo ==
  ASSUME NEW m \in RoomPresence, NEW n \in RoomPresence
  PROVE  <<m>> \in Seq(RoomPresence) /\ <<m, n>> \in Seq(RoomPresence)
  OBVIOUS

LEMMA ViewNow ==
  ASSUME InRoom, NEW v \in RoomView, Mirrors(v)
  PROVE  v[1] = myNick /\ v[2] = others \cup {myNick} /\ v[3] = RoleIn(moderator)
<1> DEFINE a == myNick
           b == others \cup {myNick}
           c == RoleIn(moderator)
<1>1. v = <<a, b, c>>
  BY DEF Mirrors
<1> HIDE DEF a, b, c
<1>2. v[1] = a /\ v[2] = b /\ v[3] = c
  BY <1>1
<1> QED  BY <1>2 DEF a, b, c

LEMMA MirrorsNext ==
  ASSUME NEW u \in RoomView,
         InRoom' => u[1] = myNick' /\ u[2] = others' \cup {myNick'} /\ u[3] = RoleIn(moderator'),
         ~InRoom' => u[2] = {} /\ u[3] = {}
  PROVE  Mirrors(u)'
<1>1. u = <<u[1], u[2], u[3]>>
  BY DEF RoomView
<1>2. (RoleIn(moderator))' = RoleIn(moderator')
  BY DEF RoleIn
<1> QED  BY <1>1, <1>2 DEF Mirrors

LEMMA ToldTypes ==
  ASSUME RoomsInv, NEW x \in Seq(RoomPresence), Told(x)
  PROVE  fromRoom' \in Seq(RoomPresence)
<1>1. fromRoom \in Seq(RoomPresence) /\ fromRoom \o x \in Seq(RoomPresence)
  BY RoomFacts
<1> QED  BY <1>1 DEF Told

\* Who is in the room besides us changes.
LEMMA OthersKept ==
  ASSUME RoomsInv, NEW nick \in Nicks, OthersChange(nick)
  PROVE  RoomsInv'
<1>1. /\ nick # myNick
      /\ UNCHANGED <<myNick, moderator, toRoom, linked, created, roomVars, nickName>>
  BY DEF OthersChange, roomVars
<1>2. RoomsTypeOK
  BY DEF RoomsInv
<1>3. PICK x \in Seq(RoomPresence) :
         /\ Told(x) /\ others' \subseteq Nicks /\ myNick \notin others'
         /\ InRoom => \A v \in RoomView : Mirrors(v) =>
               \E u \in RoomView : Reads(RoomSteps, RoomView, v, x, u) /\ Mirrors(u)'
  <2>1. CASE nick \notin others /\ others' = others \cup {nick} /\ Told(<<Here(nick, {})>>)
    <3>1. Here(nick, {}) \in RoomPresence
      BY HereTypes
    <3>2. <<Here(nick, {})>> \in Seq(RoomPresence)
      BY <3>1
    <3>3. ASSUME InRoom, NEW v \in RoomView, Mirrors(v)
          PROVE  \E u \in RoomView : Reads(RoomSteps, RoomView, v, <<Here(nick, {})>>, u) /\ Mirrors(u)'
      <4> DEFINE u == <<v[1], v[2] \cup {nick}, v[3]>>
      <4>1. v[1] = myNick /\ v[2] = others \cup {myNick} /\ v[3] = RoleIn(moderator)
        BY <3>3, ViewNow
      <4>2. u \in RoomView /\ <<v, Here(nick, {}), u>> \in RoomSteps
        BY <1>1, <4>1, ReadsHere
      <4>3. u[1] = v[1] /\ u[2] = v[2] \cup {nick} /\ u[3] = v[3]
        OBVIOUS
      <4> HIDE DEF u
      <4>4. Mirrors(u)'
        BY <1>1, <2>1, <3>3, <4>1, <4>2, <4>3, MirrorsNext DEF InRoom
      <4> QED  BY <4>2, <4>4, ReadsOne
    <3>4. others' \subseteq Nicks /\ myNick \notin others'
      BY <1>1, <1>2, <2>1, RoomsAssumption DEF RoomsTypeOK
    <3> QED  BY <2>1, <3>2, <3>3, <3>4
  <2>2. CASE nick \in others /\ others' = others \ {nick} /\ Told(<<Gone(nick, NoNick)>>)
    <3>1. Gone(nick, NoNick) \in RoomPresence
      BY GoneTypes
    <3>2. <<Gone(nick, NoNick)>> \in Seq(RoomPresence)
      BY <3>1
    <3>3. ASSUME InRoom, NEW v \in RoomView, Mirrors(v)
          PROVE  \E u \in RoomView : Reads(RoomSteps, RoomView, v, <<Gone(nick, NoNick)>>, u) /\ Mirrors(u)'
      <4> DEFINE u == <<v[1], v[2] \ {nick}, v[3]>>
      <4>1. v[1] = myNick /\ v[2] = others \cup {myNick} /\ v[3] = RoleIn(moderator)
        BY <3>3, ViewNow
      <4>2. u \in RoomView /\ <<v, Gone(nick, NoNick), u>> \in RoomSteps
        BY <1>1, <4>1, ReadsGone
      <4>3. u[1] = v[1] /\ u[2] = v[2] \ {nick} /\ u[3] = v[3]
        OBVIOUS
      <4> HIDE DEF u
      <4>4. Mirrors(u)'
        BY <1>1, <2>2, <3>3, <4>1, <4>2, <4>3, MirrorsNext DEF InRoom
      <4> QED  BY <4>2, <4>4, ReadsOne
    <3>4. others' \subseteq Nicks /\ myNick \notin others'
      BY <1>1, <1>2, <2>2, RoomsAssumption DEF RoomsTypeOK
    <3> QED  BY <2>2, <3>2, <3>3, <3>4
  <2>3. ASSUME nick \in others, NEW other \in Nicks \ (others \cup {myNick}),
               others' = (others \ {nick}) \cup {other},
               Told(<<Gone(nick, other), Here(other, {})>>)
        PROVE  \E x \in Seq(RoomPresence) :
         /\ Told(x) /\ others' \subseteq Nicks /\ myNick \notin others'
         /\ InRoom => \A v \in RoomView : Mirrors(v) =>
               \E u \in RoomView : Reads(RoomSteps, RoomView, v, x, u) /\ Mirrors(u)'
    <3>1. Gone(nick, other) \in RoomPresence /\ Here(other, {}) \in RoomPresence
      BY GoneTypes, HereTypes
    <3>2. <<Gone(nick, other), Here(other, {})>> \in Seq(RoomPresence)
      BY <3>1, OneOrTwo
    <3>3. ASSUME InRoom, NEW v \in RoomView, Mirrors(v)
          PROVE  \E u \in RoomView :
             Reads(RoomSteps, RoomView, v, <<Gone(nick, other), Here(other, {})>>, u) /\ Mirrors(u)'
      <4> DEFINE y == <<v[1], v[2] \ {nick}, v[3]>>
                 u == <<y[1], y[2] \cup {other}, y[3]>>
      <4>1. v[1] = myNick /\ v[2] = others \cup {myNick} /\ v[3] = RoleIn(moderator)
        BY <3>3, ViewNow
      <4>2. y \in RoomView /\ <<v, Gone(nick, other), y>> \in RoomSteps
        BY <1>1, <4>1, ReadsGone
      <4>3. y[1] = v[1] /\ y[2] = v[2] \ {nick} /\ y[3] = v[3]
        OBVIOUS
      <4> HIDE DEF y
      <4>4. other # y[1]
        BY <2>3, <4>1, <4>3
      <4>5. u \in RoomView /\ <<y, Here(other, {}), u>> \in RoomSteps
        BY <4>2, <4>4, ReadsHere
      <4>6. u[1] = y[1] /\ u[2] = y[2] \cup {other} /\ u[3] = y[3]
        OBVIOUS
      <4> HIDE DEF u
      <4>7. u[2] = others' \cup {myNick'}
        <5>1. (others \cup {myNick}) \ {nick} = (others \ {nick}) \cup {myNick}
          BY <1>1
        <5> QED  BY <1>1, <2>3, <4>1, <4>3, <4>6, <5>1
      <4>8. Mirrors(u)'
        BY <1>1, <3>3, <4>1, <4>3, <4>5, <4>6, <4>7, MirrorsNext DEF InRoom
      <4> QED  BY <4>2, <4>5, <4>8, ReadsTwo
    <3>4. others' \subseteq Nicks /\ myNick \notin others'
      BY <1>1, <1>2, <2>3, RoomsAssumption DEF RoomsTypeOK
    <3> QED  BY <2>3, <3>2, <3>3, <3>4
  <2> QED  BY <2>1, <2>2, <2>3 DEF OthersChange
<1>4. RoomsTypeOK'
  <2>1. fromRoom' \in Seq(RoomPresence)
    BY <1>3, ToldTypes
  <2> QED  BY <1>1, <1>2, <1>3, <2>1 DEF RoomsTypeOK, roomVars
<1>5. ASSUME created PROVE RoomComing'
  BY <1>1, <1>3, <1>4, <1>5, ToldRoom DEF Mirrors, InRoom
<1>6. ASSUME ~created PROVE RoomComing'
  <2>1. RoomComing /\ ~InRoom
    BY <1>6 DEF RoomsInv, RoomComing
  <2>2. fromRoom' = fromRoom
    BY <1>3, <2>1 DEF Told
  <2> QED  BY <1>1, <1>6, <2>1, <2>2 DEF RoomComing, InRoom, roomVars
<1>7. JoinsFirst'
  BY <1>1, <1>3, JoinsKept DEF Told
<1> QED  BY <1>4, <1>5, <1>6, <1>7 DEF RoomsInv

\* The room answers a request.
LEMMA ServedKept ==
  ASSUME RoomsInv, RoomServes
  PROVE  RoomsInv'
<1>1. /\ toRoom # <<>> /\ toRoom' = Tail(toRoom)
      /\ UNCHANGED <<others, linked, created, roomVars, nickName>>
  BY DEF RoomServes, roomVars
<1>2. RoomsTypeOK /\ RoomComing
  BY DEF RoomsInv
<1>3. created
  BY <1>1, <1>2 DEF RoomComing
<1>4. /\ JoinsFirst' /\ toRoom' \in Seq(RoomRequest) /\ Head(toRoom) \in RoomRequest
      /\ Head(toRoom).type = "join" =>
            ~InRoom /\ fromRoom = <<>> /\ Head(toRoom).nick = nickName
  BY <1>1, TakenRequest
<1>5. PICK n \in Nicks, t \in {"join", "available", "leave"} :
         n = Head(toRoom).nick /\ t = Head(toRoom).type
  BY <1>4, RequestKinds
<1>6. fromRoom \in Seq(RoomPresence) /\ fromRoom \o <<>> = fromRoom /\ <<>> \in Seq(RoomPresence)
  BY RoomFacts
<1>7. others \subseteq Nicks /\ NoNick \notin Nicks
  BY RoomFacts, RoomsAssumption
<1> DEFINE Coming(v) == Reads(RoomSteps, RoomView, RoomNow, fromRoom, v) /\ Mirrors(v)
           Reaches(v, x) == \E u \in RoomView : Reads(RoomSteps, RoomView, v, x, u) /\ Mirrors(u)'
<1>8. PICK x \in Seq(RoomPresence) :
         /\ fromRoom' = fromRoom \o x
         /\ myNick' \in (Nicks \ others) \cup {NoNick} /\ moderator' \in BOOLEAN
         /\ \A v \in RoomView : Coming(v) => Reaches(v, x)
  <2>1. CASE /\ t # "leave" /\ n \in others /\ UNCHANGED <<myNick, moderator>>
             /\ fromRoom' = Append(fromRoom, [type |-> "error"])
    <3> DEFINE m == [type |-> "error"]
    <3>1. m \in RoomPresence /\ m.type = "error"
      BY DEF RoomPresence
    <3> HIDE DEF m
    <3>2. <<m>> \in Seq(RoomPresence) /\ Append(fromRoom, m) = fromRoom \o <<m>>
      BY <1>6, <3>1
    <3>3. ASSUME NEW v \in RoomView, Coming(v) PROVE Reaches(v, <<m>>)
      <4>1. RoomReads(v, m, v)
        BY <3>1 DEF RoomReads
      <4>2. <<v, m, v>> \in RoomSteps
        BY <3>1, <4>1 DEF RoomSteps
      <4>3. Mirrors(v)'
        BY <1>1, <2>1, <3>3 DEF Mirrors, InRoom
      <4> QED  BY <4>2, <4>3, ReadsOne
    <3>4. myNick' \in (Nicks \ others) \cup {NoNick} /\ moderator' \in BOOLEAN
      BY <1>2, <2>1 DEF RoomsTypeOK
    <3>5. fromRoom' = fromRoom \o <<m>>
      BY <2>1, <3>2 DEF m
    <3> QED  BY <3>2, <3>3, <3>4, <3>5
  <2>2. ASSUME t = "join", ~InRoom, n \notin others, myNick' = n, moderator' \in BOOLEAN,
               NEW order \in InSomeOrder(others),
               fromRoom' = fromRoom \o
                  Append([i \in DOMAIN order |-> Here(order[i], {})], Here(n, RoleIn(moderator')))
        PROVE  \E x \in Seq(RoomPresence) :
         /\ fromRoom' = fromRoom \o x
         /\ myNick' \in (Nicks \ others) \cup {NoNick} /\ moderator' \in BOOLEAN
         /\ \A v \in RoomView : Coming(v) => Reaches(v, x)
    <3>1. PICK role \in {{}, Actions} : role = RoleIn(moderator')
      BY DEF RoleIn
    <3> DEFINE m == Here(n, role)
               w == [i \in DOMAIN order |-> Here(order[i], {})]
    <3>2. m \in RoomPresence
      BY <3>1, HereTypes
    <3>3. fromRoom = <<>> /\ n = nickName
      BY <1>4, <1>5, <2>2
    <3>4. fromRoom' = fromRoom \o Append(w, m)
      BY <2>2, <3>1
    <3>5. ASSUME NEW v \in RoomView, Coming(v)
          PROVE  w \in Seq(RoomPresence) /\ Reaches(v, Append(w, m))
      <4> DEFINE y == <<v[1], v[2] \cup others, v[3]>>
      <4>1. v = RoomNow
        BY <3>3, <3>5, ReadsEmpty
      <4>2. v[1] = n
        BY <3>3, <4>1 DEF RoomNow
      <4>3. v[2] = {} /\ v[3] = {}
        BY <2>2, <3>5 DEF Mirrors
      <4>4. w \in Seq(RoomPresence) /\ y \in RoomView /\ Reads(RoomSteps, RoomView, v, w, y)
        BY <1>7, <2>2, <4>2, ReadsSeen
      <4>5. PICK z \in RoomView : z = y
        BY <4>4
      <4>6. z[1] = v[1] /\ z[2] = v[2] \cup others
        BY <4>5
      <4> HIDE DEF y
      <4> DEFINE u == <<z[1], z[2] \cup {n}, role>>
      <4>7. u \in RoomView /\ <<z, m, u>> \in RoomSteps
        BY <3>1, <4>2, <4>6, ReadsHere
      <4>8. u[1] = z[1] /\ u[2] = z[2] \cup {n} /\ u[3] = role
        OBVIOUS
      <4> HIDE DEF u, m, w
      <4>9. Mirrors(u)'
        BY <1>1, <1>7, <2>2, <3>1, <4>2, <4>3, <4>6, <4>7, <4>8, MirrorsNext DEF InRoom
      <4>10. Reads(RoomSteps, RoomView, v, Append(w, m), u)
        BY <3>2, <4>4, <4>5, <4>7, ReadsAppend
      <4> QED  BY <4>4, <4>7, <4>9, <4>10
    <3>6. w \in Seq(RoomPresence)
      BY <1>2, <1>3, <3>5 DEF RoomComing
    <3> HIDE DEF w, m
    <3>7. Append(w, m) \in Seq(RoomPresence)
      BY <3>2, <3>6
    <3>8. myNick' \in (Nicks \ others) \cup {NoNick} /\ moderator' \in BOOLEAN
      BY <2>2
    <3> QED  BY <3>4, <3>5, <3>7, <3>8
  <2>3. CASE /\ t # "leave" /\ n = myNick /\ UNCHANGED <<myNick, moderator>>
             /\ Told(<<Here(myNick, RoleIn(moderator))>>)
    <3>1. PICK role \in {{}, Actions} : role = RoleIn(moderator)
      BY DEF RoleIn
    <3> DEFINE m == Here(n, role)
    <3>2. InRoom
      BY <1>7, <2>3 DEF InRoom
    <3>3. m \in RoomPresence
      BY <3>1, HereTypes
    <3>4. <<m>> \in Seq(RoomPresence)
      BY <3>3
    <3>5. fromRoom' = fromRoom \o <<m>>
      BY <2>3, <3>1, <3>2 DEF Told
    <3>6. ASSUME NEW v \in RoomView, Coming(v) PROVE Reaches(v, <<m>>)
      <4> DEFINE u == <<v[1], v[2] \cup {n}, role>>
      <4>1. v[1] = myNick /\ v[2] = others \cup {myNick} /\ v[3] = RoleIn(moderator)
        BY <3>2, <3>6, ViewNow
      <4>2. u \in RoomView /\ <<v, m, u>> \in RoomSteps
        BY <2>3, <3>1, <4>1, ReadsHere
      <4>3. u[1] = v[1] /\ u[2] = v[2] \cup {n} /\ u[3] = role
        OBVIOUS
      <4> HIDE DEF u, m
      <4>4. Mirrors(u)'
        BY <1>1, <2>3, <3>1, <3>2, <4>1, <4>2, <4>3, MirrorsNext DEF InRoom
      <4> QED  BY <4>2, <4>4, ReadsOne
    <3>7. myNick' \in (Nicks \ others) \cup {NoNick} /\ moderator' \in BOOLEAN
      BY <1>2, <2>3 DEF RoomsTypeOK
    <3> HIDE DEF m
    <3> QED  BY <3>4, <3>5, <3>6, <3>7
  <2>4. CASE /\ t # "leave" /\ InRoom /\ n \notin others \cup {myNick}
             /\ myNick' = n /\ UNCHANGED moderator
             /\ Told(<<Gone(myNick, n), Here(n, RoleIn(moderator))>>)
    <3>1. PICK role \in {{}, Actions}, old \in Nicks : role = RoleIn(moderator) /\ old = myNick
      BY <2>4, RoomFacts DEF RoleIn
    <3> DEFINE p == Gone(old, n)
               m == Here(n, role)
    <3>2. m \in RoomPresence /\ p \in RoomPresence
      BY <3>1, HereTypes, GoneTypes
    <3>3. <<p, m>> \in Seq(RoomPresence)
      BY <3>2, OneOrTwo
    <3>4. fromRoom' = fromRoom \o <<p, m>>
      BY <2>4, <3>1 DEF Told
    <3>5. ASSUME NEW v \in RoomView, Coming(v) PROVE Reaches(v, <<p, m>>)
      <4> DEFINE y == <<n, v[2] \ {old}, v[3]>>
                 u == <<y[1], y[2] \cup {n}, role>>
      <4>1. v[1] = myNick /\ v[2] = others \cup {myNick} /\ v[3] = RoleIn(moderator)
        BY <2>4, <3>5, ViewNow
      <4>2. y \in RoomView /\ <<v, p, y>> \in RoomSteps
        <5>1. old \in v[2] /\ old = v[1] /\ n \notin {NoNick, v[1]}
          BY <1>7, <2>4, <3>1, <4>1
        <5> QED  BY <3>1, <5>1, ReadsGone
      <4>3. y[1] = n /\ y[2] = v[2] \ {old} /\ y[3] = v[3]
        OBVIOUS
      <4> HIDE DEF y
      <4>4. u \in RoomView /\ <<y, m, u>> \in RoomSteps
        BY <3>1, <4>2, <4>3, ReadsHere
      <4>5. u[1] = y[1] /\ u[2] = y[2] \cup {n} /\ u[3] = role
        OBVIOUS
      <4> HIDE DEF u, m, p
      <4>6. u[2] = others' \cup {myNick'}
        <5>1. old \notin others
          BY <2>4, <3>1, RoomFacts
        <5>2. (others \cup {old}) \ {old} = others
          BY <5>1
        <5> QED  BY <1>1, <2>4, <3>1, <4>1, <4>3, <4>5, <5>2
      <4>7. Mirrors(u)'
        BY <1>7, <2>4, <3>1, <4>3, <4>4, <4>5, <4>6, MirrorsNext DEF InRoom
      <4> QED  BY <4>2, <4>4, <4>7, ReadsTwo
    <3>6. myNick' \in (Nicks \ others) \cup {NoNick} /\ moderator' \in BOOLEAN
      BY <1>2, <2>4 DEF RoomsTypeOK
    <3> HIDE DEF m, p
    <3> QED  BY <3>3, <3>4, <3>5, <3>6
  <2>5. CASE UNCHANGED <<myNick, moderator, fromRoom>>
    <3>1. ASSUME NEW v \in RoomView, Coming(v) PROVE Reaches(v, <<>>)
      <4>1. Mirrors(v)'
        BY <1>1, <2>5, <3>1 DEF Mirrors, InRoom
      <4> QED  BY <4>1, ReadsNone
    <3>2. myNick' \in (Nicks \ others) \cup {NoNick} /\ moderator' \in BOOLEAN
      BY <1>2, <2>5 DEF RoomsTypeOK
    <3> QED  BY <1>6, <2>5, <3>1, <3>2
  <2>6. CASE /\ t = "leave" /\ myNick' = NoNick /\ moderator' = FALSE
             /\ Told(<<Gone(myNick, NoNick)>>)
    <3>1. CASE ~InRoom
      <4>1. fromRoom' = fromRoom
        BY <2>6, <3>1 DEF Told
      <4>2. ASSUME NEW v \in RoomView, Coming(v) PROVE Reaches(v, <<>>)
        <5>1. Mirrors(v)'
          BY <2>6, <3>1, <4>2 DEF Mirrors, InRoom
        <5> QED  BY <5>1, ReadsNone
      <4> QED  BY <1>6, <2>6, <4>1, <4>2
    <3>2. CASE InRoom
      <4>1. PICK old \in Nicks : old = myNick
        BY <3>2, RoomFacts
      <4> DEFINE p == Gone(old, NoNick)
      <4>2. p \in RoomPresence
        BY GoneTypes
      <4>3. <<p>> \in Seq(RoomPresence)
        BY <4>2
      <4>4. fromRoom' = fromRoom \o <<p>>
        BY <2>6, <3>2, <4>1 DEF Told
      <4>5. ASSUME NEW v \in RoomView, Coming(v) PROVE Reaches(v, <<p>>)
        <5> DEFINE u == <<v[1], {}, {}>>
        <5>1. v[1] = myNick /\ v[2] = others \cup {myNick}
          BY <3>2, <4>5, ViewNow
        <5>2. u \in RoomView /\ <<v, p, u>> \in RoomSteps
          BY <4>1, <5>1, ReadsGone
        <5>3. u[2] = {} /\ u[3] = {}
          OBVIOUS
        <5> HIDE DEF u, p
        <5>4. Mirrors(u)'
          BY <2>6, <5>2, <5>3, MirrorsNext DEF InRoom
        <5> QED  BY <5>2, <5>4, ReadsOne
      <4> HIDE DEF p
      <4> QED  BY <2>6, <4>3, <4>4, <4>5
    <3> QED  BY <3>1, <3>2
  <2> HIDE DEF Coming, Reaches
  <2> QED  BY <1>5, <2>1, <2>2, <2>3, <2>4, <2>5, <2>6 DEF RoomServes
<1>9. RoomsTypeOK'
  <2>1. fromRoom' \in Seq(RoomPresence)
    BY <1>6, <1>8
  <2> QED  BY <1>1, <1>2, <1>4, <1>8, <2>1 DEF RoomsTypeOK, roomVars
<1>10. RoomComing'
  BY <1>1, <1>3, <1>8, <1>9, RoomTold
<1> QED  BY <1>4, <1>9, <1>10 DEF RoomsInv

\* Something about us that the room tells us.
LEMMA AboutUsKept ==
  ASSUME RoomsInv, InRoom, NEW p \in RoomPresence,
         UNCHANGED <<others, toRoom, linked, created, roomVars, nickName>>,
         Told(<<p>>), myNick' \in {myNick, NoNick}, moderator' \in BOOLEAN,
         \A v \in RoomView : Mirrors(v) =>
            \E u \in RoomView : <<v, p, u>> \in RoomSteps /\ Mirrors(u)'
  PROVE  RoomsInv'
<1>1. RoomsTypeOK /\ RoomComing /\ created
  BY DEF RoomsInv, RoomComing
<1>2. <<p>> \in Seq(RoomPresence)
  OBVIOUS
<1>3. RoomsTypeOK'
  <2>1. fromRoom' \in Seq(RoomPresence)
    BY <1>2, ToldTypes
  <2> QED  BY <1>1, <2>1 DEF RoomsTypeOK, roomVars
<1>4. RoomComing'
  <2>1. ASSUME NEW v \in RoomView, Mirrors(v)
        PROVE  \E w \in RoomView : Reads(RoomSteps, RoomView, v, <<p>>, w) /\ Mirrors(w)'
    BY <2>1, ReadsOne
  <2> QED  BY <1>1, <1>2, <1>3, <2>1, ToldRoom
<1> QED  BY <1>3, <1>4, JoinsKept DEF RoomsInv

LEMMA RoleKept ==
  ASSUME RoomsInv, RoleChanges
  PROVE  RoomsInv'
<1>1. /\ InRoom /\ UNCHANGED <<others, myNick, toRoom, linked, created, roomVars, nickName>>
      /\ moderator' = ~moderator /\ Told(<<Here(myNick, RoleIn(moderator'))>>)
  BY DEF RoleChanges, roomVars
<1>2. PICK role \in {{}, Actions}, n \in Nicks : role = RoleIn(moderator') /\ n = myNick
  BY <1>1, RoomFacts DEF RoleIn
<1> DEFINE p == Here(n, role)
<1>3. p \in RoomPresence
  BY <1>2, HereTypes
<1>4. Told(<<p>>) /\ moderator' \in BOOLEAN
  BY <1>1, <1>2
<1>5. ASSUME NEW v \in RoomView, Mirrors(v)
      PROVE  \E u \in RoomView : <<v, p, u>> \in RoomSteps /\ Mirrors(u)'
  <2> DEFINE u == <<v[1], v[2] \cup {n}, role>>
  <2>1. v[1] = myNick /\ v[2] = others \cup {myNick}
    BY <1>1, <1>5, ViewNow
  <2>2. u \in RoomView /\ <<v, p, u>> \in RoomSteps
    BY <1>2, <2>1, ReadsHere
  <2>3. u[1] = v[1] /\ u[2] = v[2] \cup {n} /\ u[3] = role
    OBVIOUS
  <2> HIDE DEF u, p
  <2>4. Mirrors(u)'
    BY <1>1, <1>2, <2>1, <2>2, <2>3, MirrorsNext DEF InRoom
  <2> QED  BY <2>2, <2>4
<1> HIDE DEF p
<1> QED  BY <1>1, <1>3, <1>4, <1>5, AboutUsKept

LEMMA KickKept ==
  ASSUME RoomsInv, Kick
  PROVE  RoomsInv'
<1>1. /\ InRoom /\ UNCHANGED <<others, toRoom, linked, created, roomVars, nickName>>
      /\ myNick' = NoNick /\ moderator' = FALSE /\ Told(<<Gone(myNick, NoNick)>>)
  BY DEF Kick, roomVars
<1>2. PICK n \in Nicks : n = myNick
  BY <1>1, RoomFacts
<1> DEFINE p == Gone(n, NoNick)
<1>3. p \in RoomPresence
  BY <1>2, GoneTypes
<1>4. Told(<<p>>)
  BY <1>1, <1>2
<1>5. ASSUME NEW v \in RoomView, Mirrors(v)
      PROVE  \E u \in RoomView : <<v, p, u>> \in RoomSteps /\ Mirrors(u)'
  <2> DEFINE u == <<v[1], {}, {}>>
  <2>1. v[1] = myNick /\ v[2] = others \cup {myNick}
    BY <1>1, <1>5, ViewNow
  <2>2. u \in RoomView /\ <<v, p, u>> \in RoomSteps
    BY <1>2, <2>1, ReadsGone
  <2>3. u[2] = {} /\ u[3] = {}
    OBVIOUS
  <2> HIDE DEF u, p
  <2>4. Mirrors(u)'
    BY <1>1, <2>2, <2>3, MirrorsNext DEF InRoom
  <2> QED  BY <2>2, <2>4
<1> HIDE DEF p
<1> QED  BY <1>1, <1>3, <1>4, <1>5, AboutUsKept

\* Nothing is on its way and we are not in the room.
LEMMA NothingComing ==
  ASSUME fromRoom' = <<>>, created', ~InRoom', nickName' \in Nicks,
         participants' = {}, allowedActions' = {}
  PROVE  RoomComing'
<1>1. PICK n \in Nicks : n = nickName'
  OBVIOUS
<1> DEFINE v == <<n, {}, {}>>
<1>2. v \in RoomView /\ v[2] = {} /\ v[3] = {}
  BY DEF RoomView
<1>3. RoomNow' = v
  BY <1>1 DEF RoomNow
<1> HIDE DEF v
<1>4. Mirrors(v)'
  BY <1>2, MirrorsNext
<1>5. Reads(RoomSteps, RoomView, v, <<>>, v)
  BY <1>2, ReadsNone
<1> QED  BY <1>2, <1>3, <1>4, <1>5 DEF RoomComing

LEMMA LinkKept ==
  ASSUME RoomsInv, LinkUp \/ LinkDown
  PROVE  RoomsInv'
<1>1. RoomsTypeOK /\ JoinsFirst /\ RoomComing
  BY DEF RoomsInv
<1>2. CASE LinkUp
  <2>1. UNCHANGED <<placeVars, toRoom, fromRoom, created, roomVars>> /\ linked' = TRUE
    BY <1>2 DEF LinkUp
  <2>2. RoomsTypeOK' /\ JoinsFirst'
    BY <1>1, <2>1 DEF RoomsTypeOK, JoinsFirst, placeVars, roomVars, InRoom
  <2>3. RoomComing'
    <3>1. CASE created
      BY <1>1, <2>1, <3>1, RoomNowKept
    <3>2. CASE ~created
      BY <1>1, <2>1, <3>2 DEF RoomComing, placeVars, roomVars, InRoom
    <3> QED  BY <3>1, <3>2
  <2> QED  BY <2>2, <2>3 DEF RoomsInv
<1>3. CASE LinkDown
  <2>1. /\ linked' = FALSE /\ toRoom' = <<>> /\ fromRoom' = <<>>
        /\ myNick' = NoNick /\ moderator' = FALSE
        /\ participants' = {} /\ allowedActions' = {}
        /\ UNCHANGED <<others, created, nickName>>
    BY <1>3 DEF LinkDown
  <2>2. <<>> \in Seq(RoomRequest) /\ <<>> \in Seq(RoomPresence) /\ DOMAIN <<>> = {}
    OBVIOUS
  <2>3. RoomsTypeOK' /\ JoinsFirst'
    BY <1>1, <2>1, <2>2 DEF RoomsTypeOK, JoinsFirst
  <2>4. ~InRoom'
    BY <2>1 DEF InRoom
  <2>5. RoomComing'
    <3>1. CASE created
      BY <2>1, <2>4, <3>1, RoomFacts, NothingComing
    <3>2. CASE ~created
      BY <2>1, <2>4, <3>2 DEF RoomComing
    <3> QED  BY <3>1, <3>2
  <2> QED  BY <2>3, <2>5 DEF RoomsInv
<1> QED  BY <1>2, <1>3

LEMMA AskedKept ==
  ASSUME RoomsInv, CreateRoom \/ Join \/ Leave \/ ReflectPresence
  PROVE  RoomsInv'
<1>1. RoomsTypeOK /\ JoinsFirst /\ RoomComing
  BY DEF RoomsInv
<1>2. CASE CreateRoom
  <2>1. /\ ~created /\ created' = TRUE /\ nickName' = User /\ SendToRoom("join", User)
        /\ UNCHANGED <<placeVars, fromRoom, linked, participants, allowedActions>>
    BY <1>2 DEF CreateRoom
  <2>2. /\ toRoom = <<>> /\ fromRoom' = <<>> /\ ~InRoom' /\ participants' = {}
        /\ allowedActions' = {} /\ User \in Nicks
    BY <1>1, <2>1, RoomsAssumption DEF RoomComing, placeVars, InRoom
  <2>3. JoinsFirst' /\ toRoom' \in Seq(RoomRequest)
    BY <2>1, <2>2, SentJoin
  <2>4. RoomComing'
    BY <2>1, <2>2, NothingComing
  <2>5. RoomsTypeOK'
    BY <1>1, <2>1, <2>2, <2>3, RoomsAssumption DEF RoomsTypeOK, placeVars
  <2> QED  BY <2>3, <2>4, <2>5 DEF RoomsInv
<1>3. ASSUME NEW type \in {"available", "leave"}, created, SendToRoom(type, nickName),
             UNCHANGED <<placeVars, fromRoom, linked, created, roomVars>>
      PROVE  RoomsInv'
  <2>1. UNCHANGED <<myNick, nickName>> /\ nickName \in Nicks
    BY <1>3, RoomFacts DEF placeVars, roomVars
  <2>2. JoinsFirst' /\ toRoom' \in Seq(RoomRequest)
    BY <1>3, <2>1, SentRequest
  <2>3. RoomComing'
    BY <1>1, <1>3, RoomNowKept
  <2>4. RoomsTypeOK'
    BY <1>1, <1>3, <2>2 DEF RoomsTypeOK, placeVars, roomVars
  <2> QED  BY <2>2, <2>3, <2>4 DEF RoomsInv
<1>4. CASE Join
  <2>1. /\ created /\ Answered /\ SendToRoom("join", nickName)
        /\ UNCHANGED <<placeVars, fromRoom, linked, created, roomVars>>
    BY <1>4 DEF Join
  <2>2. toRoom = <<>> /\ fromRoom' = <<>> /\ ~InRoom' /\ nickName' = nickName /\ nickName \in Nicks
    BY <2>1, RoomFacts DEF Answered, InRoom, placeVars, roomVars
  <2>3. JoinsFirst' /\ toRoom' \in Seq(RoomRequest)
    BY <2>1, <2>2, SentJoin
  <2>4. RoomComing'
    BY <1>1, <2>1, RoomNowKept
  <2>5. RoomsTypeOK'
    BY <1>1, <2>1, <2>3 DEF RoomsTypeOK, placeVars, roomVars
  <2> QED  BY <2>3, <2>4, <2>5 DEF RoomsInv
<1>5. CASE Leave
  BY <1>3, <1>5 DEF Leave
<1>6. CASE ReflectPresence
  BY <1>3, <1>6 DEF ReflectPresence
<1> QED  BY <1>2, <1>4, <1>5, <1>6

LEMMA NamedKept ==
  ASSUME RoomsInv, NEW nick \in Nicks, SetNickName(nick)
  PROVE  RoomsInv'
<1>1. RoomsTypeOK /\ JoinsFirst /\ RoomComing
  BY DEF RoomsInv
<1>2. created /\ UNCHANGED <<placeVars, fromRoom, linked, created, participants, allowedActions>>
  BY DEF SetNickName
<1>3. CASE SendToRoom("available", nick) /\ UNCHANGED nickName
  <2>1. UNCHANGED <<myNick, nickName, roomVars>>
    BY <1>2, <1>3 DEF placeVars, roomVars
  <2>2. JoinsFirst' /\ toRoom' \in Seq(RoomRequest)
    BY <1>2, <1>3, <2>1, SentRequest
  <2>3. RoomComing'
    BY <1>1, <1>2, <2>1, RoomNowKept
  <2>4. RoomsTypeOK'
    BY <1>1, <1>2, <1>3, <2>2 DEF RoomsTypeOK, placeVars
  <2> QED  BY <2>2, <2>3, <2>4 DEF RoomsInv
<1>4. CASE Answered /\ nickName' = nick /\ UNCHANGED toRoom
  <2>1. toRoom' = <<>> /\ fromRoom = <<>> /\ ~InRoom /\ ~InRoom' /\ fromRoom' = <<>>
    BY <1>2, <1>4 DEF Answered, InRoom, placeVars
  <2>2. PICK v \in RoomView : v = RoomNow /\ Mirrors(v)
    <3>1. PICK v \in RoomView : Reads(RoomSteps, RoomView, RoomNow, fromRoom, v) /\ Mirrors(v)
      BY <1>1, <1>2 DEF RoomComing
    <3> QED  BY <2>1, <3>1, ReadsEmpty
  <2>3. participants = {} /\ allowedActions = {}
    BY <2>1, <2>2 DEF Mirrors, RoomNow
  <2>4. RoomComing'
    BY <1>2, <1>4, <2>1, <2>3, NothingComing
  <2>5. DOMAIN <<>> = {}
    OBVIOUS
  <2>6. JoinsFirst'
    BY <2>1, <2>5 DEF JoinsFirst
  <2>7. RoomsTypeOK'
    BY <1>1, <1>2, <1>4, RoomsAssumption DEF RoomsTypeOK, placeVars
  <2> QED  BY <2>4, <2>6, <2>7 DEF RoomsInv
<1> QED  BY <1>3, <1>4 DEF SetNickName

\* What HandleRoomPresence does is to read the first stanza.
LEMMA HandledKept ==
  ASSUME RoomsInv, HandleRoomPresence
  PROVE  RoomsInv'
<1> DEFINE p == Head(fromRoom)
<1>1. RoomsTypeOK /\ JoinsFirst /\ RoomComing
  BY DEF RoomsInv
<1>2. /\ created /\ fromRoom # <<>> /\ fromRoom' = Tail(fromRoom)
      /\ HandleHere(p) \/ HandleGone(p) \/ HandleRenamed(p) \/ HandleLeft(p) \/ HandleRoomError(p)
      /\ UNCHANGED <<placeVars, toRoom, linked, created>>
  BY DEF HandleRoomPresence
<1>3. PICK v \in RoomView : Reads(RoomSteps, RoomView, RoomNow, fromRoom, v) /\ Mirrors(v)
  BY <1>1, <1>2 DEF RoomComing
<1>4. fromRoom \in Seq(RoomPresence) /\ Tail(fromRoom) \in Seq(RoomPresence)
  BY <1>2, RoomFacts
<1>5. PICK x \in RoomView : /\ <<RoomNow, p, x>> \in RoomSteps
                            /\ Reads(RoomSteps, RoomView, x, Tail(fromRoom), v)
  BY <1>2, <1>3, <1>4, ReadsHead
<1> DEFINE now == RoomNow
<1>6. RoomReads(now, p, x)
  <2> DEFINE t == <<now, p, x>>
  <2> HIDE DEF now, p
  <2>1. t[1] = now /\ t[2] = p /\ t[3] = x
    OBVIOUS
  <2>2. t \in RoomSteps
    BY <1>5 DEF now
  <2> HIDE DEF t
  <2> QED  BY <2>1, <2>2 DEF RoomSteps
<1>7. now[1] = nickName /\ now[2] = participants /\ now[3] = allowedActions
  BY DEF RoomNow
<1> HIDE DEF now, p
<1>8. x = <<nickName', participants', allowedActions'>>
  <2>1. CASE HandleHere(p)
    BY <1>6, <1>7, <2>1 DEF HandleHere, RoomReads
  <2>2. CASE HandleGone(p)
    BY <1>6, <1>7, <2>2 DEF HandleGone, RoomReads
  <2>3. CASE HandleRenamed(p)
    BY <1>6, <1>7, <2>3 DEF HandleRenamed, RoomReads
  <2>4. CASE HandleLeft(p)
    BY <1>6, <1>7, <2>4 DEF HandleLeft, RoomReads
  <2>5. CASE HandleRoomError(p)
    BY <1>6, <1>7, <2>5 DEF HandleRoomError, RoomReads, roomVars, now, RoomNow
  <2> QED  BY <1>2, <2>1, <2>2, <2>3, <2>4, <2>5
<1>9. Mirrors(v)'
  BY <1>2, <1>3 DEF Mirrors, InRoom, placeVars
<1>10. RoomNow' = x /\ created' /\ fromRoom' = Tail(fromRoom)
  BY <1>2, <1>8 DEF RoomNow
<1>11. RoomComing'
  BY <1>5, <1>9, <1>10 DEF RoomComing
<1>12. RoomsTypeOK'
  <2>1. nickName' \in Nicks /\ participants' \subseteq Nicks /\ allowedActions' \in {{}, Actions}
    BY <1>8 DEF RoomView
  <2> QED  BY <1>1, <1>2, <1>4, <2>1, RoomsAssumption DEF RoomsTypeOK, placeVars
<1>13. JoinsFirst'
  BY <1>2, NoJoins DEF JoinsFirst
<1> QED  BY <1>11, <1>12, <1>13 DEF RoomsInv

LEMMA RoomsStart == RoomsInit => RoomsInv
<1> SUFFICES ASSUME RoomsInit PROVE RoomsInv
  OBVIOUS
<1>1. <<>> \in Seq(RoomRequest) /\ <<>> \in Seq(RoomPresence) /\ DOMAIN <<>> = {}
  OBVIOUS
<1>2. RoomsTypeOK
  BY <1>1 DEF RoomsTypeOK, RoomsInit
<1>3. JoinsFirst
  BY <1>1 DEF JoinsFirst, RoomsInit
<1>4. RoomComing
  BY DEF RoomComing, RoomsInit, InRoom
<1> QED  BY <1>2, <1>3, <1>4 DEF RoomsInv

LEMMA RoomsKept == RoomsInv /\ [RoomsNext]_roomsVars => RoomsInv'
<1> SUFFICES ASSUME RoomsInv, [RoomsNext]_roomsVars PROVE RoomsInv'
  OBVIOUS
<1>1. CASE UNCHANGED roomsVars
  <2>1. UNCHANGED <<others, myNick, moderator, toRoom, fromRoom, linked, created, nickName,
                    participants, allowedActions>>
    BY <1>1 DEF roomsVars
  <2>2. RoomsTypeOK' /\ JoinsFirst'
    BY <2>1 DEF RoomsInv, RoomsTypeOK, JoinsFirst, InRoom
  <2>3. RoomComing'
    <3>1. CASE created
      BY <2>1, <3>1, RoomNowKept DEF RoomsInv, placeVars, roomVars
    <3>2. CASE ~created
      BY <2>1, <3>2 DEF RoomsInv, RoomComing, InRoom
    <3> QED  BY <3>1, <3>2
  <2> QED  BY <2>2, <2>3 DEF RoomsInv
<1>2. CASE RoomsNext
  BY <1>2, LinkKept, AskedKept, NamedKept, OthersKept, ServedKept, RoleKept, KickKept,
     HandledKept DEF RoomsNext
<1> QED  BY <1>1, <1>2

\* What the runs check of a room follows: when nothing is on its way, the
\* client is where reading leads it.
LEMMA RoomsSettle == RoomsInv => RoomMirrored
<1> SUFFICES ASSUME RoomsInv, created, toRoom = <<>>, fromRoom = <<>>
             PROVE  IF InRoom
                    THEN /\ IsJoined /\ nickName = myNick
                         /\ participants = others \cup {myNick}
                         /\ allowedActions = RoleIn(moderator)
                    ELSE participants = {} /\ allowedActions = {}
  BY DEF RoomMirrored
<1>1. PICK v \in RoomView : v = RoomNow /\ Mirrors(v)
  <2>1. PICK v \in RoomView : Reads(RoomSteps, RoomView, RoomNow, fromRoom, v) /\ Mirrors(v)
    BY DEF RoomsInv, RoomComing
  <2> QED  BY <2>1, ReadsEmpty
<1>2. v[1] = nickName /\ v[2] = participants /\ v[3] = allowedActions
  BY <1>1 DEF RoomNow
<1>3. CASE InRoom
  BY <1>1, <1>2, <1>3, ViewNow DEF IsJoined
<1>4. CASE ~InRoom
  BY <1>1, <1>2, <1>4 DEF Mirrors
<1> QED  BY <1>3, <1>4

\* A room: reading the presences that are on their way brings the client to
\* where it is in the room now, and nothing crosses a request to join.
THEOREM RoomsInvariant == RoomsSpec => []RoomsInv
<1> QED  BY RoomsStart, RoomsKept, PTL DEF RoomsSpec

\* Once nothing is on its way, the room here is the room as it is, and every
\* variable has its type.
THEOREM RoomsMirrored == RoomsSpec => [](RoomMirrored /\ RoomsTypeOK)
<1>1. RoomsInv => RoomMirrored /\ RoomsTypeOK
  BY RoomsSettle DEF RoomsInv
<1> QED  BY <1>1, RoomsInvariant, PTL

-----------------------------------------------------------------------------
(* The contact list.                                                       *)

Among(m, w) == \E i \in DOMAIN w : w[i] = m

LEMMA AmongBoth ==
  ASSUME NEW M, NEW w \in Seq(M), NEW x \in Seq(M), NEW m, Among(m, w) \/ Among(m, x)
  PROVE  Among(m, w \o x)
<1> DEFINE wx == w \o x
<1>1. /\ DOMAIN w = 1..Len(w) /\ DOMAIN x = 1..Len(x) /\ DOMAIN wx = 1..(Len(w) + Len(x))
      /\ Len(w) \in Nat /\ Len(x) \in Nat
      /\ \A i \in 1..Len(w) : wx[i] = w[i]
      /\ \A i \in 1..Len(x) : wx[Len(w) + i] = x[i]
  OBVIOUS
<1> HIDE DEF wx
<1>2. CASE Among(m, w)
  <2>1. PICK i \in 1..Len(w) : w[i] = m
    BY <1>1, <1>2 DEF Among
  <2>2. i \in DOMAIN wx /\ wx[i] = m
    BY <1>1, <2>1
  <2> QED  BY <2>2 DEF Among, wx
<1>3. CASE Among(m, x)
  <2>1. PICK i \in 1..Len(x) : x[i] = m
    BY <1>1, <1>3 DEF Among
  <2>2. Len(w) + i \in DOMAIN wx /\ wx[Len(w) + i] = m
    BY <1>1, <2>1
  <2> QED  BY <2>2 DEF Among, wx
<1> QED  BY <1>2, <1>3

LEMMA AmongAppend ==
  ASSUME NEW M, NEW w \in Seq(M), NEW n \in M, NEW m, Among(m, w) \/ m = n
  PROVE  Among(m, Append(w, n))
<1>1. <<n>> \in Seq(M) /\ Append(w, n) = w \o <<n>> /\ 1 \in DOMAIN <<n>> /\ <<n>>[1] = n
  OBVIOUS
<1>2. Among(m, w) \/ Among(m, <<n>>)
  BY <1>1 DEF Among
<1> QED  BY <1>1, <1>2, AmongBoth

LEMMA AmongTail ==
  ASSUME NEW M, NEW w \in Seq(M), w # <<>>, NEW m, Among(m, w)
  PROVE  m = Head(w) \/ Among(m, Tail(w))
<1> DEFINE y == Tail(w)
<1>1. /\ Len(w) \in Nat /\ Len(w) # 0 /\ DOMAIN w = 1..Len(w) /\ Head(w) = w[1]
      /\ DOMAIN y = 1..(Len(w) - 1) /\ \A i \in 1..(Len(w) - 1) : y[i] = w[i + 1]
  OBVIOUS
<1>2. PICK i \in 1..Len(w) : w[i] = m
  BY <1>1 DEF Among
<1> HIDE DEF y
<1>3. CASE i = 1
  BY <1>1, <1>2, <1>3
<1>4. CASE i # 1
  <2>1. i - 1 \in 1..(Len(w) - 1) /\ (i - 1) + 1 = i
    BY <1>1, <1>4
  <2> QED  BY <1>1, <1>2, <2>1 DEF Among, y
<1> QED  BY <1>3, <1>4

LEMMA AmongNone == ASSUME NEW m PROVE ~Among(m, <<>>)
<1>1. DOMAIN <<>> = {}
  OBVIOUS
<1> QED  BY <1>1 DEF Among

\* What the stanzas change of the contact list: the entries and the
\* presences; and how.
ListView == (SUBSET Jids) \X (SUBSET Session)

ListReads(v, x, u) ==
    \/ x.type = "result" /\ u = <<v[1] \cup x.items, v[2]>>
    \/ x.type = "added" /\ u = <<v[1] \cup {x.jid}, v[2]>>
    \/ x.type = "removed" /\ u = <<v[1] \ {x.jid}, v[2]>>
    \/ x.type = "available" /\ u = <<v[1], v[2] \cup {x.of}>>
    \/ x.type = "unavailable" /\ u = <<v[1], v[2] \ {x.of}>>
    \/ x.type = "vcard" /\ u = v
ListSteps == {t \in ListView \X Arrival \X ListView : ListReads(t[1], t[2], t[3])}

ListNow == <<entries, presences>>

\* What the server has told this stream of: the roster once it was asked for,
\* and the sessions of its contacts once we were announced.
Shown == {s \in online : s[1] \in roster}
ListThen == <<IF interested THEN roster ELSE {}, IF announced THEN Shown ELSE {}>>
ListComing == Reads(ListSteps, ListView, ListNow, arriving, ListThen)

\* A stream has asked for the roster and announced us, or will; without one
\* there is nothing of it left.
Wired ==
    /\ streamUp => /\ loggedIn
                   /\ interested \/ Among([type |-> "roster"], requests)
                   /\ announced \/ Among([type |-> "presence"], requests)
    /\ ~streamUp => /\ ~interested /\ ~announced /\ requests = <<>> /\ arriving = <<>>
                    /\ entries = {} /\ presences = {}

\* A UI that asked has been told, or what tells it is on its way.
Owed == streamUp /\ asking =>
    \/ Among([type |-> "roster"], requests)
    \/ \E S \in SUBSET Jids : Among([type |-> "result", items |-> S], arriving)
    \/ \A c \in listed : CardOf[c] # "none" =>
          \/ c \in told
          \/ Among([type |-> "vcard", jid |-> c], requests)
          \/ Among([type |-> "vcard", jid |-> c], arriving)

ContactsInv == ContactsTypeOK /\ Wired /\ ListComing /\ Owed

LEMMA ListFacts ==
  ASSUME ContactsInv
  PROVE  /\ requests \in Seq(Request) /\ arriving \in Seq(Arrival)
         /\ roster \subseteq Jids /\ online \subseteq Session
         /\ ListNow \in ListView /\ ListThen \in ListView
         /\ requests # <<>> \/ arriving # <<>> => streamUp
  BY DEF ContactsInv, ContactsTypeOK, ListNow, ListThen, ListView, Shown, Wired

LEMMA SessionsFinite == IsFiniteSet(Session) /\ \A s \in Session : s[1] \in Jids
<1>1. IsFiniteSet(Jids \X Resources)
  BY ContactsAssumption, FS_Product
<1> QED  BY <1>1 DEF Session

\* Sessions that are announced, or taken back, one by one.
LEMMA ReadsSessions ==
  ASSUME NEW S \in SUBSET Session, NEW o \in InSomeOrder(S), NEW v \in ListView,
         NEW type \in {"available", "unavailable"}
  PROVE  LET u == <<v[1], IF type = "available" THEN v[2] \cup S ELSE v[2] \ S>>
         IN  /\ Presences(type, o) \in Seq(Arrival) /\ u \in ListView
             /\ Reads(ListSteps, ListView, v, Presences(type, o), u)
<1> DEFINE x == Presences(type, o)
           With(T) == IF type = "available" THEN v[2] \cup T ELSE v[2] \ T
           u == <<v[1], With(S)>>
           n == Len(o)
<1>1. IsFiniteSet(S)
  BY SessionsFinite, FS_Subset
<1>2. /\ DOMAIN o = 1..n /\ n \in Nat /\ \A i \in 1..n : o[i] \in S
      /\ \A y \in S : \E i \in 1..n : o[i] = y
  BY <1>1, OrderFacts
<1> HIDE DEF n
<1>3. \A i \in 1..n : x[i] = [type |-> type, of |-> o[i]] /\ x[i] \in Arrival
  BY <1>2 DEF Presences, Arrival
<1>4. x \in [1..n -> Arrival]
  BY <1>2, <1>3 DEF Presences
<1>5. x \in Seq(Arrival) /\ Len(x) = n
  BY <1>2, <1>4
<1> HIDE DEF x
<1> DEFINE st == [k \in 0..n |-> <<v[1], With({o[i] : i \in 1..k})>>]
<1>6. v[1] \subseteq Jids /\ v[2] \subseteq Session /\ v = <<v[1], v[2]>>
  BY DEF ListView
<1>7. st \in [0..n -> ListView]
  <2>1. ASSUME NEW k \in 0..n PROVE <<v[1], With({o[i] : i \in 1..k})>> \in ListView
    <3>1. {o[i] : i \in 1..k} \subseteq Session
      BY <1>2
    <3>2. With({o[i] : i \in 1..k}) \subseteq Session
      BY <1>6, <3>1
    <3> HIDE DEF With
    <3> QED  BY <1>6, <3>2 DEF ListView
  <2> QED  BY <2>1
<1>8. st[0] = v
  <2>1. {o[i] : i \in 1..0} = {} /\ 0 \in 0..n
    BY <1>2
  <2>2. With({}) = v[2]
    OBVIOUS
  <2> HIDE DEF With
  <2> QED  BY <1>6, <2>1, <2>2
<1>9. st[n] = u
  <2>1. {o[i] : i \in 1..n} = S /\ n \in 0..n
    BY <1>2
  <2> HIDE DEF With
  <2> QED  BY <2>1
<1>10. ASSUME NEW k \in 1..n PROVE <<st[k - 1], x[k], st[k]>> \in ListSteps
  <2> DEFINE A == {o[i] : i \in 1..(k - 1)}
             B == {o[i] : i \in 1..k}
  <2>1. k \in 0..n /\ k - 1 \in 0..n
    BY <1>2
  <2>2. B = A \cup {o[k]}
    <3>1. \A i \in 1..k : i \in 1..(k - 1) \/ i = k
      BY <1>2
    <3>2. \A i \in 1..(k - 1) : i \in 1..k
      BY <1>2
    <3>3. k \in 1..k
      BY <1>2
    <3> QED  BY <3>1, <3>2, <3>3
  <2>3. /\ st[k - 1] = <<v[1], With(A)>> /\ st[k] = <<v[1], With(B)>>
        /\ st[k - 1] \in ListView /\ st[k] \in ListView
    BY <1>7, <2>1
  <2> DEFINE y == st[k - 1]
             z == st[k]
             p == o[k]
             m == x[k]
  <2> HIDE DEF A, B, st
  <2>4. With(B) = IF type = "available" THEN With(A) \cup {p} ELSE With(A) \ {p}
    BY <2>2
  <2> HIDE DEF With
  <2>5. y[1] = v[1] /\ y[2] = With(A) /\ z = <<v[1], With(B)>> /\ y \in ListView /\ z \in ListView
    BY <2>3
  <2>6. m = [type |-> type, of |-> p] /\ m \in Arrival
    BY <1>3
  <2> HIDE DEF y, z, p, m
  <2>7. ListReads(y, m, z)
    BY <2>4, <2>5, <2>6 DEF ListReads
  <2>8. <<y, m, z>> \in ListSteps
    BY <2>5, <2>6, <2>7 DEF ListSteps
  <2> QED  BY <2>8 DEF y, m, z
<1> HIDE DEF st
<1>11. u \in ListView
  <2>1. n \in 0..n
    BY <1>2
  <2> QED  BY <1>7, <1>9, <2>1
<1> HIDE DEF u
<1>12. Reads(ListSteps, ListView, v, x, u)
  BY <1>5, <1>7, <1>8, <1>9, <1>10 DEF Reads
<1> QED  BY <1>5, <1>11, <1>12 DEF x, u

LEMMA ReadsArrival ==
  ASSUME NEW v \in ListView, NEW x \in Arrival, NEW u \in ListView, ListReads(v, x, u)
  PROVE  <<v, x, u>> \in ListSteps
  BY DEF ListSteps

\* What arrives brings the client from what the server had told to what it
\* has told now.
LEMMA ListTold ==
  ASSUME ContactsInv, NEW x \in Seq(Arrival), arriving' = arriving \o x,
         UNCHANGED <<entries, presences>>,
         Reads(ListSteps, ListView, ListThen, x, ListThen')
  PROVE  ListComing' /\ arriving' \in Seq(Arrival)
         /\ \A m : Among(m, arriving) => Among(m, arriving')
<1>1. arriving \in Seq(Arrival) /\ arriving \o x \in Seq(Arrival)
  BY ListFacts
<1>2. Reads(ListSteps, ListView, ListNow, arriving \o x, ListThen')
  BY <1>1, ReadsBoth DEF ContactsInv, ListComing
<1>3. ListNow' = ListNow
  BY DEF ListNow
<1> QED  BY <1>1, <1>2, <1>3, AmongBoth DEF ListComing

\* A contact is added to the server's roster.
LEMMA IncludeTold ==
  ASSUME ContactsInv, NEW jid \in Jids, Include(jid),
         UNCHANGED <<entries, presences, online, interested, announced>>
  PROVE  /\ ListComing' /\ arriving' \in Seq(Arrival) /\ roster' \subseteq Jids
         /\ \A m : Among(m, arriving) => Among(m, arriving')
<1> DEFINE m == [type |-> "added", jid |-> jid]
           P == IF interested THEN <<m>> ELSE <<>>
           S == IF announced /\ jid \notin roster THEN Of(jid) ELSE {}
<1>1. PICK o \in InSomeOrder(S) : /\ roster' = roster \cup {jid}
                                  /\ arriving' = arriving \o P \o Presences("available", o)
  BY DEF Include
<1>2. m \in Arrival /\ m.type = "added" /\ m.jid = jid
  BY DEF Arrival
<1> HIDE DEF m
<1>3. P \in Seq(Arrival)
  BY <1>2
<1>4. S \subseteq Session /\ roster \subseteq Jids
  BY ListFacts DEF Of
<1>5. arriving \in Seq(Arrival) /\ arriving \o P \in Seq(Arrival)
  BY <1>3, ListFacts
<1>6. PICK a \in ListView : a = ListThen
  BY ListFacts
<1>7. a[1] = (IF interested THEN roster ELSE {}) /\ a[2] = (IF announced THEN Shown ELSE {})
  BY <1>6 DEF ListThen
<1> DEFINE y == <<IF interested THEN a[1] \cup {jid} ELSE a[1], a[2]>>
<1>8. PICK z \in ListView : z = y
  BY DEF ListView
<1>9. z[1] = (IF interested THEN a[1] \cup {jid} ELSE a[1]) /\ z[2] = a[2]
  BY <1>8
<1>10. Reads(ListSteps, ListView, a, P, z)
  <2>1. CASE interested
    <3>1. ListReads(a, m, z)
      BY <1>2, <1>8, <2>1 DEF ListReads
    <3>2. <<a, m, z>> \in ListSteps
      BY <1>2, <3>1, ReadsArrival
    <3>3. P = <<m>>
      BY <2>1
    <3> HIDE DEF P
    <3> QED  BY <3>2, <3>3, ReadsOne
  <2>2. CASE ~interested
    <3>1. a = <<a[1], a[2]>>
      BY DEF ListView
    <3>2. z = a /\ P = <<>>
      BY <1>8, <2>2, <3>1
    <3> HIDE DEF P
    <3> QED  BY <3>2, ReadsNone
  <2> QED  BY <2>1, <2>2
<1> HIDE DEF y, P, S
<1> DEFINE x == Presences("available", o)
           u == <<z[1], z[2] \cup S>>
<1>11. x \in Seq(Arrival) /\ u \in ListView /\ Reads(ListSteps, ListView, z, x, u)
  BY <1>4, ReadsSessions
<1> HIDE DEF x
<1>12. z[2] \cup S = IF announced THEN Shown' ELSE {}
  <2>1. Shown' = Shown \cup {s \in online : s[1] = jid}
    BY <1>1 DEF Shown
  <2>2. jid \in roster => {s \in online : s[1] = jid} \subseteq Shown
    BY DEF Shown
  <2> QED  BY <1>7, <1>9, <2>1, <2>2 DEF S, Of
<1>13. z[1] = IF interested THEN roster' ELSE {}
  BY <1>1, <1>7, <1>9
<1>14. u = ListThen'
  BY <1>12, <1>13 DEF ListThen
<1> HIDE DEF u
<1>15. Reads(ListSteps, ListView, ListNow, arriving \o P, z)
  BY <1>3, <1>5, <1>6, <1>10, ListFacts, ReadsBoth DEF ContactsInv, ListComing
<1>16. Reads(ListSteps, ListView, ListNow, (arriving \o P) \o x, u)
  BY <1>5, <1>11, <1>15, ReadsBoth
<1>17. ListNow' = ListNow /\ arriving' = (arriving \o P) \o x
  BY <1>1 DEF ListNow, P, x, m
<1>18. ListComing'
  BY <1>14, <1>16, <1>17 DEF ListComing
<1>19. arriving' \in Seq(Arrival)
  BY <1>5, <1>11, <1>17
<1>20. ASSUME NEW k, Among(k, arriving) PROVE Among(k, arriving')
  <2>1. Among(k, arriving \o P)
    BY <1>3, <1>20, ListFacts, AmongBoth
  <2>2. Among(k, (arriving \o P) \o x)
    BY <1>5, <1>11, <2>1, AmongBoth
  <2> QED  BY <1>17, <2>2
<1> QED  BY <1>1, <1>4, <1>18, <1>19, <1>20

\* A contact is taken off it.
LEMMA ExcludeTold ==
  ASSUME ContactsInv, NEW jid \in Jids, Exclude(jid),
         UNCHANGED <<entries, presences, online, interested, announced>>
  PROVE  /\ ListComing' /\ arriving' \in Seq(Arrival) /\ roster' \subseteq Jids
         /\ \A m : Among(m, arriving) => Among(m, arriving')
<1> DEFINE m == [type |-> "removed", jid |-> jid]
           P == IF interested THEN <<m>> ELSE <<>>
           S == IF announced THEN Of(jid) ELSE {}
<1>1. PICK o \in InSomeOrder(S) : /\ roster' = roster \ {jid}
                                  /\ arriving' = arriving \o P \o Presences("unavailable", o)
  BY DEF Exclude
<1>2. m \in Arrival /\ m.type = "removed" /\ m.jid = jid
  BY DEF Arrival
<1> HIDE DEF m
<1>3. P \in Seq(Arrival)
  BY <1>2
<1>4. S \subseteq Session /\ roster \subseteq Jids
  BY ListFacts DEF Of
<1>5. arriving \in Seq(Arrival) /\ arriving \o P \in Seq(Arrival)
  BY <1>3, ListFacts
<1>6. PICK a \in ListView : a = ListThen
  BY ListFacts
<1>7. a[1] = (IF interested THEN roster ELSE {}) /\ a[2] = (IF announced THEN Shown ELSE {})
  BY <1>6 DEF ListThen
<1> DEFINE y == <<IF interested THEN a[1] \ {jid} ELSE a[1], a[2]>>
<1>8. PICK z \in ListView : z = y
  BY DEF ListView
<1>9. z[1] = (IF interested THEN a[1] \ {jid} ELSE a[1]) /\ z[2] = a[2]
  BY <1>8
<1>10. Reads(ListSteps, ListView, a, P, z)
  <2>1. CASE interested
    <3>1. ListReads(a, m, z)
      BY <1>2, <1>8, <2>1 DEF ListReads
    <3>2. <<a, m, z>> \in ListSteps
      BY <1>2, <3>1, ReadsArrival
    <3>3. P = <<m>>
      BY <2>1
    <3> HIDE DEF P
    <3> QED  BY <3>2, <3>3, ReadsOne
  <2>2. CASE ~interested
    <3>1. a = <<a[1], a[2]>>
      BY DEF ListView
    <3>2. z = a /\ P = <<>>
      BY <1>8, <2>2, <3>1
    <3> HIDE DEF P
    <3> QED  BY <3>2, ReadsNone
  <2> QED  BY <2>1, <2>2
<1> HIDE DEF y, P, S
<1> DEFINE x == Presences("unavailable", o)
           u == <<z[1], z[2] \ S>>
<1>11. x \in Seq(Arrival) /\ u \in ListView /\ Reads(ListSteps, ListView, z, x, u)
  BY <1>4, ReadsSessions
<1> HIDE DEF x
<1>12. z[2] \ S = IF announced THEN Shown' ELSE {}
  <2>1. Shown' = Shown \ {s \in online : s[1] = jid}
    BY <1>1 DEF Shown
  <2> QED  BY <1>7, <1>9, <2>1 DEF S, Of
<1>13. z[1] = IF interested THEN roster' ELSE {}
  BY <1>1, <1>7, <1>9
<1>14. u = ListThen'
  BY <1>12, <1>13 DEF ListThen
<1> HIDE DEF u
<1>15. Reads(ListSteps, ListView, ListNow, arriving \o P, z)
  BY <1>3, <1>5, <1>6, <1>10, ListFacts, ReadsBoth DEF ContactsInv, ListComing
<1>16. Reads(ListSteps, ListView, ListNow, (arriving \o P) \o x, u)
  BY <1>5, <1>11, <1>15, ReadsBoth
<1>17. ListNow' = ListNow /\ arriving' = (arriving \o P) \o x
  BY <1>1 DEF ListNow, P, x, m
<1>18. ListComing'
  BY <1>14, <1>16, <1>17 DEF ListComing
<1>19. arriving' \in Seq(Arrival)
  BY <1>5, <1>11, <1>17
<1>20. ASSUME NEW k, Among(k, arriving) PROVE Among(k, arriving')
  <2>1. Among(k, arriving \o P)
    BY <1>3, <1>20, ListFacts, AmongBoth
  <2>2. Among(k, (arriving \o P) \o x)
    BY <1>5, <1>11, <2>1, AmongBoth
  <2> QED  BY <1>17, <2>2
<1> QED  BY <1>1, <1>4, <1>18, <1>19, <1>20

\* What is owed stays so while no stanza is taken from its way.
LEMMA OwedKept ==
  ASSUME Owed, streamUp' => streamUp, asking' => asking, listed' = listed, told \subseteq told',
         \A m : Among(m, requests) => Among(m, requests'),
         \A m : Among(m, arriving) => Among(m, arriving')
  PROVE  Owed'
<1>1. CASE ~(streamUp' /\ asking')
  BY <1>1 DEF Owed
<1>2. CASE streamUp /\ asking
  BY <1>2 DEF Owed
<1> QED  BY <1>1, <1>2

LEMMA RosterKept ==
  ASSUME ContactsInv, NEW c \in Jids, RosterChanges(c)
  PROVE  ContactsInv'
<1>1. /\ Include(c) \/ Exclude(c)
      /\ UNCHANGED <<online, interested, announced, requests, streamUp, loggedIn, entries,
                     presences, isRosterReceived, cards, uiHere, asking, told, listed>>
  BY DEF RosterChanges, uiSideVars
<1>2. ContactsTypeOK /\ Wired /\ Owed
  BY DEF ContactsInv
<1>3. /\ ListComing' /\ arriving' \in Seq(Arrival) /\ roster' \subseteq Jids
      /\ \A m : Among(m, arriving) => Among(m, arriving')
  BY <1>1, IncludeTold, ExcludeTold
<1>4. ContactsTypeOK'
  BY <1>1, <1>2, <1>3 DEF ContactsTypeOK
<1>5. Wired'
  <2>1. CASE streamUp
    BY <1>1, <1>2, <2>1 DEF Wired
  <2>2. CASE ~streamUp
    <3>1. ~interested /\ ~announced /\ arriving = <<>>
      BY <1>2, <2>2 DEF Wired
    <3>2. ListThen' = <<{}, {}>> /\ ListThen = <<{}, {}>>
      BY <1>1, <3>1 DEF ListThen
    <3>3. arriving' = <<>>
      <4>1. IsFiniteSet({}) /\ <<>> \o <<>> = <<>>
        BY FS_EmptySet
      <4>2. ASSUME NEW o \in InSomeOrder({}), NEW type PROVE Presences(type, o) = <<>>
        <5>1. Cardinality({}) = 0 /\ 1..0 = {}
          BY FS_EmptySet
        <5>2. DOMAIN o = {}
          BY <5>1 DEF InSomeOrder
        <5> QED  BY <5>2 DEF Presences
      <4>3. ASSUME Include(c) PROVE arriving' = <<>>
        BY <3>1, <4>1, <4>2, <4>3 DEF Include
      <4>4. ASSUME Exclude(c) PROVE arriving' = <<>>
        BY <3>1, <4>1, <4>2, <4>4 DEF Exclude
      <4> QED  BY <1>1, <4>3, <4>4
    <3> QED  BY <1>1, <1>2, <2>2, <3>3 DEF Wired
  <2> QED  BY <2>1, <2>2
<1>6. Owed'
  BY <1>1, <1>2, <1>3, OwedKept
<1> QED  BY <1>3, <1>4, <1>5, <1>6 DEF ContactsInv

LEMMA SessionsKept ==
  ASSUME ContactsInv, NEW s \in Session, PresenceChanges(s)
  PROVE  ContactsInv'
<1> DEFINE type == IF s \in online THEN "unavailable" ELSE "available"
           m == [type |-> type, of |-> s]
<1>1. /\ online' = (IF s \in online THEN online \ {s} ELSE online \cup {s})
      /\ arriving' = IF announced /\ s[1] \in roster THEN Append(arriving, m) ELSE arriving
      /\ UNCHANGED <<roster, interested, announced, requests, streamUp, loggedIn, entries,
                     presences, isRosterReceived, cards, uiHere, asking, told, listed>>
  BY DEF PresenceChanges, uiSideVars
<1>2. ContactsTypeOK /\ Wired /\ Owed
  BY DEF ContactsInv
<1>3. m \in Arrival /\ m.type = type /\ m.of = s
  BY DEF Arrival
<1>4. PICK a \in ListView : a = ListThen
  BY ListFacts
<1>5. a = <<IF interested THEN roster ELSE {}, IF announced THEN Shown ELSE {}>>
  BY <1>4 DEF ListThen
<1> DEFINE b == <<IF interested THEN roster ELSE {}, IF announced THEN Shown' ELSE {}>>
<1>6. ListThen' = b
  BY <1>1 DEF ListThen
<1>7. b \in ListView
  BY <1>1, <1>2 DEF ListView, Shown, ContactsTypeOK
<1>8. PICK z \in ListView : z = b
  BY <1>7
<1>9. arriving \in Seq(Arrival) /\ arriving \o <<>> = arriving /\ <<>> \in Seq(Arrival)
  BY ListFacts
<1>10. PICK x \in Seq(Arrival) : arriving' = arriving \o x /\ Reads(ListSteps, ListView, a, x, z)
  <2>1. CASE announced /\ s[1] \in roster
    <3>1. Shown' = IF s \in online THEN Shown \ {s} ELSE Shown \cup {s}
      BY <1>1, <2>1 DEF Shown
    <3>2. a[1] = z[1] /\ a[2] = Shown /\ z[2] = Shown' /\ z = <<z[1], z[2]>>
      BY <1>5, <1>8, <2>1
    <3> HIDE DEF b
    <3>3. type = "available" \/ type = "unavailable"
      OBVIOUS
    <3>4. z[2] = IF type = "available" THEN a[2] \cup {s} ELSE a[2] \ {s}
      BY <3>1, <3>2
    <3> HIDE DEF m, type
    <3>5. ListReads(a, m, z)
      BY <1>3, <3>2, <3>3, <3>4 DEF ListReads
    <3>6. <<a, m, z>> \in ListSteps
      BY <1>3, <3>5, ReadsArrival
    <3>7. Reads(ListSteps, ListView, a, <<m>>, z)
      BY <3>6, ReadsOne
    <3>8. <<m>> \in Seq(Arrival) /\ Append(arriving, m) = arriving \o <<m>>
      BY <1>3, <1>9
    <3> QED  BY <1>1, <2>1, <3>7, <3>8
  <2>2. CASE ~(announced /\ s[1] \in roster)
    <3>1. announced => Shown' = Shown
      BY <1>1, <2>2 DEF Shown
    <3>2. a = z
      BY <1>5, <1>8, <3>1
    <3>3. Reads(ListSteps, ListView, a, <<>>, z)
      BY <3>2, ReadsNone
    <3> QED  BY <1>1, <1>9, <2>2, <3>3
  <2> QED  BY <2>1, <2>2
<1>11. /\ ListComing' /\ arriving' \in Seq(Arrival)
       /\ \A k : Among(k, arriving) => Among(k, arriving')
  BY <1>1, <1>4, <1>6, <1>8, <1>10, ListTold
<1>12. ContactsTypeOK'
  BY <1>1, <1>2, <1>11 DEF ContactsTypeOK
<1>13. Wired'
  BY <1>1, <1>2 DEF Wired
<1>14. Owed'
  BY <1>1, <1>2, <1>11, OwedKept
<1> QED  BY <1>11, <1>12, <1>13, <1>14 DEF ContactsInv

\* Steps that leave the list and what arrives alone.
LEMMA ListKept ==
  ASSUME ListComing, UNCHANGED <<roster, online, interested, announced, arriving, entries, presences>>
  PROVE  ListComing'
<1>1. ListNow' = ListNow /\ ListThen' = ListThen
  BY DEF ListNow, ListThen, Shown
<1> QED  BY <1>1 DEF ListComing

LEMMA RequestFacts ==
  ASSUME NEW r \in Request
  PROVE  /\ r.type \in {"roster", "presence", "vcard", "add"}
         /\ r.type = "roster" => r = [type |-> "roster"]
         /\ r.type = "presence" => r = [type |-> "presence"]
         /\ r.type \in {"vcard", "add"} => r.jid \in Jids /\ r = [type |-> r.type, jid |-> r.jid]
  BY DEF Request

LEMMA ArrivalFacts ==
  ASSUME NEW x \in Arrival
  PROVE  /\ x.type = "result" => x.items \subseteq Jids /\ x = [type |-> "result", items |-> x.items]
         /\ x.type \in {"added", "removed", "vcard"} =>
               x.jid \in Jids /\ x = [type |-> x.type, jid |-> x.jid]
         /\ x.type \in {"available", "unavailable"} => x.of \in Session
         /\ x.type \in {"result", "added", "removed", "vcard", "available", "unavailable"}
  BY DEF Arrival

\* The server takes a request and answers it.
LEMMA RepliedKept ==
  ASSUME ContactsInv, ServerReplies
  PROVE  ContactsInv'
<1>1. /\ requests # <<>> /\ requests' = Tail(requests)
      /\ UNCHANGED <<online, streamUp, loggedIn, entries, presences, isRosterReceived, cards,
                     uiHere, asking, told, listed>>
  BY DEF ServerReplies, uiSideVars
<1>2. ContactsTypeOK /\ Wired /\ Owed /\ ListComing
  BY DEF ContactsInv
<1>3. /\ requests \in Seq(Request) /\ arriving \in Seq(Arrival) /\ streamUp
      /\ ListThen \in ListView /\ roster \subseteq Jids /\ online \subseteq Session
  BY <1>1, ListFacts
<1>4. Tail(requests) \in Seq(Request) /\ Head(requests) \in Request
  BY <1>1, <1>3
<1>5. PICK r \in Request : r = Head(requests)
  BY <1>4
<1>6. \A m : Among(m, requests) => m = r \/ Among(m, requests')
  BY <1>1, <1>3, <1>5, AmongTail
<1>7. PICK a \in ListView : a = ListThen
  BY <1>3
<1>8. a[1] = (IF interested THEN roster ELSE {}) /\ a[2] = (IF announced THEN Shown ELSE {})
      /\ a = <<a[1], a[2]>>
  BY <1>7 DEF ListThen
<1> DEFINE Replied ==
              /\ ListComing' /\ arriving' \in Seq(Arrival) /\ roster' \subseteq Jids
              /\ interested' \in BOOLEAN /\ announced' \in BOOLEAN
              /\ interested => interested'
              /\ announced => announced'
              /\ r.type = "roster" => interested' /\ Among([type |-> "result", items |-> roster], arriving')
              /\ r.type = "presence" => announced'
              /\ r.type = "vcard" /\ CardOf[r.jid] # "none" => Among(r, arriving')
              /\ \A m : Among(m, arriving) => Among(m, arriving')
<1>9. ASSUME /\ r.type = "roster" /\ interested' = TRUE
             /\ arriving' = Append(arriving, [type |-> "result", items |-> roster])
             /\ UNCHANGED <<roster, announced>>
      PROVE  Replied
  <2>1. PICK m \in Arrival : m = [type |-> "result", items |-> roster]
    BY <1>3 DEF Arrival
  <2>2. m.type = "result" /\ m.items = roster
    BY <2>1
  <2>3. PICK z \in ListView : z = <<a[1] \cup roster, a[2]>>
    BY <1>3 DEF ListView
  <2>4. ListReads(a, m, z)
    BY <2>2, <2>3 DEF ListReads
  <2>5. Reads(ListSteps, ListView, a, <<m>>, z)
    BY <2>4, ReadsArrival, ReadsOne
  <2>6. Shown' = Shown
    BY <1>1, <1>9 DEF Shown
  <2>7. ListThen' = z
    BY <1>8, <1>9, <2>3, <2>6 DEF ListThen
  <2>8. <<m>> \in Seq(Arrival) /\ arriving' = arriving \o <<m>> /\ arriving' = Append(arriving, m)
    BY <1>3, <1>9, <2>1
  <2>9. ListComing' /\ arriving' \in Seq(Arrival) /\ \A k : Among(k, arriving) => Among(k, arriving')
    BY <1>1, <1>7, <2>5, <2>7, <2>8, ListTold
  <2>10. Among([type |-> "result", items |-> roster], arriving')
    BY <1>3, <2>1, <2>8, AmongAppend
  <2> QED  BY <1>2, <1>3, <1>9, <2>9, <2>10 DEF ContactsTypeOK
<1>10. ASSUME r.type = "presence", announced' = TRUE, UNCHANGED <<roster, interested>>,
              NEW order \in InSomeOrder({s \in online : s[1] \in roster}),
              arriving' = arriving \o Presences("available", order)
       PROVE  Replied
  <2>1. PICK S \in SUBSET Session : S = Shown
    BY <1>3 DEF Shown
  <2> DEFINE x == Presences("available", order)
             u == <<a[1], a[2] \cup S>>
  <2>2. order \in InSomeOrder(S)
    BY <1>10, <2>1 DEF Shown
  <2>3. x \in Seq(Arrival) /\ u \in ListView /\ Reads(ListSteps, ListView, a, x, u)
    BY <2>2, ReadsSessions
  <2>4. Shown' = Shown
    BY <1>1, <1>10 DEF Shown
  <2>5. ListThen' = u
    BY <1>8, <1>10, <2>1, <2>4 DEF ListThen
  <2>6. arriving' = arriving \o x
    BY <1>10
  <2> HIDE DEF x, u
  <2>7. ListComing' /\ arriving' \in Seq(Arrival) /\ \A k : Among(k, arriving) => Among(k, arriving')
    BY <1>1, <1>7, <2>3, <2>5, <2>6, ListTold
  <2> QED  BY <1>2, <1>3, <1>10, <2>7 DEF ContactsTypeOK
<1>11. ASSUME r.type = "add" /\ Include(r.jid) /\ UNCHANGED <<interested, announced>>
       PROVE  Replied
  <2>1. r.jid \in Jids
    BY <1>11, RequestFacts
  <2>2. /\ ListComing' /\ arriving' \in Seq(Arrival) /\ roster' \subseteq Jids
        /\ \A k : Among(k, arriving) => Among(k, arriving')
    BY <1>1, <1>11, <2>1, IncludeTold
  <2> QED  BY <1>2, <1>11, <2>2 DEF ContactsTypeOK
<1>12. ASSUME /\ r.type = "vcard" /\ UNCHANGED <<roster, interested, announced>>
              /\ arriving' = IF CardOf[r.jid] = "none" THEN arriving
                             ELSE Append(arriving, [type |-> "vcard", jid |-> r.jid])
       PROVE  Replied
  <2>1. ListThen' = ListThen
    BY <1>1, <1>12 DEF ListThen, Shown
  <2>2. r \in Arrival /\ r = [type |-> "vcard", jid |-> r.jid]
    BY <1>12, RequestFacts DEF Arrival
  <2>3. CASE CardOf[r.jid] = "none"
    <3>1. arriving' = arriving
      BY <1>12, <2>3
    <3>2. ListComing'
      BY <1>1, <1>2, <1>12, <3>1, ListKept
    <3> QED  BY <1>2, <1>3, <1>12, <2>3, <3>1, <3>2 DEF ContactsTypeOK
  <2>4. CASE CardOf[r.jid] # "none"
    <3>1. arriving' = Append(arriving, r)
      BY <1>12, <2>2, <2>4
    <3>2. <<r>> \in Seq(Arrival) /\ arriving' = arriving \o <<r>>
      BY <1>3, <2>2, <3>1
    <3>3. Reads(ListSteps, ListView, a, <<r>>, a)
      <4>1. ListReads(a, r, a)
        BY <1>12 DEF ListReads
      <4> QED  BY <2>2, <4>1, ReadsArrival, ReadsOne
    <3>4. ListComing' /\ arriving' \in Seq(Arrival) /\ \A k : Among(k, arriving) => Among(k, arriving')
      BY <1>1, <1>7, <2>1, <3>2, <3>3, ListTold
    <3>5. Among(r, arriving')
      BY <1>3, <2>2, <3>1, AmongAppend
    <3> QED  BY <1>2, <1>3, <1>12, <3>4, <3>5 DEF ContactsTypeOK
  <2> QED  BY <2>3, <2>4
<1>13. Replied
  <2> HIDE DEF Replied
  <2> QED  BY <1>5, <1>9, <1>10, <1>11, <1>12 DEF ServerReplies
<1>14. ContactsTypeOK'
  BY <1>1, <1>2, <1>4, <1>13 DEF ContactsTypeOK
<1>15. Wired'
  <2>1. interested' \/ Among([type |-> "roster"], requests')
    <3>1. CASE interested
      BY <1>13, <3>1
    <3>2. CASE r = [type |-> "roster"]
      BY <1>13, <3>2
    <3> QED  BY <1>2, <1>3, <1>6, <3>1, <3>2 DEF Wired
  <2>2. announced' \/ Among([type |-> "presence"], requests')
    <3>1. CASE announced
      BY <1>13, <3>1
    <3>2. CASE r = [type |-> "presence"]
      BY <1>13, <3>2
    <3> QED  BY <1>2, <1>3, <1>6, <3>1, <3>2 DEF Wired
  <2> QED  BY <1>1, <1>2, <1>3, <2>1, <2>2 DEF Wired
<1>16. Owed'
  <2> SUFFICES ASSUME asking PROVE Owed'
    BY <1>1 DEF Owed
  <2>1. CASE r.type = "roster"
    BY <1>3, <1>13, <2>1 DEF Owed
  <2>2. CASE r.type # "roster"
    <3>1. r # [type |-> "roster"]
      BY <2>2
    <3>2. CASE Among([type |-> "roster"], requests)
      BY <1>6, <3>1, <3>2 DEF Owed
    <3>3. CASE \E S \in SUBSET Jids : Among([type |-> "result", items |-> S], arriving)
      BY <1>13, <3>3 DEF Owed
    <3>4. ASSUME NEW c \in listed, CardOf[c] # "none",
                 \/ c \in told
                 \/ Among([type |-> "vcard", jid |-> c], requests)
                 \/ Among([type |-> "vcard", jid |-> c], arriving)
          PROVE  \/ c \in told'
                 \/ Among([type |-> "vcard", jid |-> c], requests')
                 \/ Among([type |-> "vcard", jid |-> c], arriving')
      <4> DEFINE m == [type |-> "vcard", jid |-> c]
      <4>1. m.type = "vcard" /\ m.jid = c
        OBVIOUS
      <4> HIDE DEF m
      <4>2. CASE m = r
        BY <1>13, <3>4, <4>1, <4>2 DEF m
      <4>3. CASE m # r
        <5>1. Among(m, requests) => Among(m, requests')
          BY <1>6, <4>3
        <5>2. Among(m, arriving) => Among(m, arriving')
          BY <1>13
        <5> QED  BY <1>1, <3>4, <5>1, <5>2 DEF m
      <4> QED  BY <4>2, <4>3
    <3> QED  BY <1>1, <1>2, <1>3, <3>2, <3>3, <3>4 DEF Owed
  <2> QED  BY <2>1, <2>2
<1> QED  BY <1>13, <1>14, <1>15, <1>16 DEF ContactsInv

\* A stream comes, ends, or the process does.
LEMMA WireKept ==
  ASSUME ContactsInv, ContactsConnected \/ ContactsDisconnected \/ ContactsRestart
  PROVE  ContactsInv'
<1>1. ContactsTypeOK /\ Wired /\ Owed /\ ListComing
  BY DEF ContactsInv
<1>2. CASE ContactsConnected
  <2> DEFINE p == [type |-> "roster"]
             q == [type |-> "presence"]
             w == <<p, q>>
  <2>1. /\ ~streamUp /\ streamUp' = TRUE /\ loggedIn' = TRUE /\ requests' = w
        /\ UNCHANGED <<roster, online, interested, announced, arriving, entries, presences,
                       isRosterReceived, cards, uiHere, asking, told, listed>>
    BY <1>2 DEF ContactsConnected, serverVars, uiSideVars
  <2>2. p \in Request /\ q \in Request
    BY DEF Request
  <2> HIDE DEF p, q
  <2>3. w \in Seq(Request) /\ 1 \in DOMAIN w /\ 2 \in DOMAIN w /\ w[1] = p /\ w[2] = q
    BY <2>2
  <2>4. Among(p, w) /\ Among(q, w)
    BY <2>3 DEF Among
  <2> HIDE DEF w
  <2>5. ContactsTypeOK'
    BY <1>1, <2>1, <2>3 DEF ContactsTypeOK
  <2>6. Wired' /\ Owed'
    BY <2>1, <2>4 DEF Wired, Owed, p, q
  <2>7. ListComing'
    BY <1>1, <2>1, ListKept
  <2> QED  BY <2>5, <2>6, <2>7 DEF ContactsInv
<1>3. CASE ContactsDisconnected \/ ContactsRestart
  <2>1. /\ WireCut /\ loggedIn' \in {loggedIn, FALSE}
        /\ entries' = {} /\ presences' = {} /\ isRosterReceived' = FALSE
        /\ UNCHANGED <<roster, online, cards>>
    BY <1>1, <1>3 DEF ContactsDisconnected, ContactsRestart, ContactsTypeOK
  <2>2. \/ UNCHANGED <<uiHere, asking, told, listed>>
        \/ uiHere' = FALSE /\ asking' = FALSE /\ told' = {} /\ listed' = {}
    BY <1>3 DEF ContactsDisconnected, ContactsRestart, uiSideVars
  <2>3. <<>> \in Seq(Request) /\ <<>> \in Seq(Arrival)
    OBVIOUS
  <2>4. /\ streamUp' = FALSE /\ requests' = <<>> /\ arriving' = <<>>
        /\ interested' = FALSE /\ announced' = FALSE
    BY <2>1 DEF WireCut
  <2>5. ContactsTypeOK'
    <3>1. loggedIn' \in BOOLEAN
      BY <1>1, <2>1 DEF ContactsTypeOK
    <3>2. uiHere' \in BOOLEAN /\ asking' \in BOOLEAN /\ told' \subseteq Jids /\ listed' \subseteq Jids
          /\ (asking' => uiHere')
      <4>1. CASE UNCHANGED <<uiHere, asking, told, listed>>
        BY <1>1, <4>1 DEF ContactsTypeOK
      <4>2. CASE uiHere' = FALSE /\ asking' = FALSE /\ told' = {} /\ listed' = {}
        BY <4>2
      <4> QED  BY <2>2, <4>1, <4>2
    <3> QED  BY <1>1, <2>1, <2>3, <2>4, <3>1, <3>2 DEF ContactsTypeOK
  <2>6. Wired' /\ Owed'
    BY <2>1, <2>4 DEF Wired, Owed
  <2>7. ListComing'
    <3>1. PICK v \in ListView : v = <<{}, {}>>
      BY DEF ListView
    <3>2. ListNow' = v /\ ListThen' = v
      BY <2>1, <2>4, <3>1 DEF ListNow, ListThen
    <3> QED  BY <2>4, <3>2, ReadsNone DEF ListComing
  <2> QED  BY <2>5, <2>6, <2>7 DEF ContactsInv
<1> QED  BY <1>2, <1>3

\* Of every contact of the list the UI is told, or its vCard is asked for.
LEMMA Fetched ==
  ASSUME ContactsInv, streamUp, NEW jids \in SUBSET Jids, RosterReceived(jids)
  PROVE  /\ requests' \in Seq(Request) /\ listed' = jids /\ told \subseteq told' /\ told' \subseteq Jids
         /\ uiHere => \A c \in jids : c \in told' \/ Among([type |-> "vcard", jid |-> c], requests')
         /\ \A m : Among(m, requests) => Among(m, requests')
<1> DEFINE missing == {c \in jids : cards[c] # "full"}
           CardsOf(order) == [i \in DOMAIN order |-> [type |-> "vcard", jid |-> order[i]]]
<1>1. PICK order \in InSomeOrder(missing) :
         /\ requests' = requests \o CardsOf(order)
         /\ SendContact(jids \ missing) /\ listed' = jids
  BY DEF RosterReceived
<1> DEFINE x == CardsOf(order)
           n == Len(order)
<1>2. missing \subseteq jids /\ missing \subseteq Jids
  OBVIOUS
<1> HIDE DEF missing
<1>3. IsFiniteSet(missing)
  BY <1>2, ContactsAssumption, FS_Subset
<1>4. /\ DOMAIN order = 1..n /\ n \in Nat /\ \A i \in 1..n : order[i] \in missing
      /\ \A c \in missing : \E i \in 1..n : order[i] = c
  BY <1>3, OrderFacts
<1> HIDE DEF n
<1>5. \A i \in 1..n : x[i] = [type |-> "vcard", jid |-> order[i]] /\ x[i] \in Request
  BY <1>2, <1>4 DEF Request
<1>6. x \in [1..n -> Request]
  BY <1>4, <1>5
<1>7. x \in Seq(Request) /\ DOMAIN x = 1..n
  BY <1>4, <1>6
<1> HIDE DEF x
<1>8. requests \in Seq(Request) /\ requests' = requests \o x
  BY <1>1, ListFacts DEF x
<1>9. requests' \in Seq(Request)
  BY <1>7, <1>8
<1>10. ASSUME NEW m, Among(m, requests) \/ Among(m, x) PROVE Among(m, requests')
  BY <1>7, <1>8, <1>10, AmongBoth
<1>11. told \subseteq told' /\ told' \subseteq Jids /\ (uiHere => jids \ missing \subseteq told')
  BY <1>1 DEF SendContact, ContactsInv, ContactsTypeOK
<1>12. ASSUME NEW c \in missing PROVE Among([type |-> "vcard", jid |-> c], requests')
  <2>1. PICK i \in 1..n : order[i] = c
    BY <1>4
  <2>2. Among([type |-> "vcard", jid |-> c], x)
    BY <1>5, <1>7, <2>1 DEF Among
  <2> QED  BY <1>10, <2>2
<1> QED  BY <1>1, <1>9, <1>10, <1>11, <1>12

\* A stanza is handled.
LEMMA ReceivedKept ==
  ASSUME ContactsInv, ContactsReceive
  PROVE  ContactsInv'
<1>1. ContactsTypeOK /\ Wired /\ Owed /\ ListComing
  BY DEF ContactsInv
<1>2. /\ arriving # <<>> /\ arriving' = Tail(arriving)
      /\ UNCHANGED <<roster, online, interested, announced, streamUp, loggedIn, uiHere, asking>>
  BY DEF ContactsReceive, serverVars
<1>3. arriving \in Seq(Arrival) /\ streamUp /\ requests \in Seq(Request)
  BY <1>2, ListFacts
<1>4. Tail(arriving) \in Seq(Arrival) /\ Head(arriving) \in Arrival
  BY <1>2, <1>3
<1>5. PICK x \in Arrival : x = Head(arriving)
  BY <1>4
<1>6. HandleRosterResult(x) \/ HandleRosterPush(x) \/ HandlePresence(x) \/ VCardReceived(x)
  BY <1>5 DEF ContactsReceive
<1>7. \A m : Among(m, arriving) => m = x \/ Among(m, arriving')
  BY <1>2, <1>3, <1>5, AmongTail
<1>8. PICK y \in ListView : /\ <<ListNow, x, y>> \in ListSteps
                            /\ Reads(ListSteps, ListView, y, Tail(arriving), ListThen)
  BY <1>1, <1>2, <1>3, <1>5, ReadsHead DEF ListComing
<1> DEFINE now == ListNow
<1>9. ListReads(now, x, y)
  <2> DEFINE t == <<now, x, y>>
  <2> HIDE DEF now
  <2>1. t[1] = now /\ t[2] = x /\ t[3] = y
    OBVIOUS
  <2>2. t \in ListSteps
    BY <1>8 DEF now
  <2> HIDE DEF t
  <2> QED  BY <2>1, <2>2 DEF ListSteps
<1>10. now[1] = entries /\ now[2] = presences /\ now = <<entries, presences>>
  BY DEF ListNow
<1> HIDE DEF now
<1>11. ListThen' = ListThen
  BY <1>2 DEF ListThen, Shown
<1>12. entries \subseteq Jids /\ presences \subseteq Session /\ told \subseteq Jids
       /\ cards \in [Jids -> {"none", "empty", "full"}]
  BY <1>1 DEF ContactsTypeOK
<1> DEFINE Handled ==
              /\ y = <<entries', presences'>> /\ isRosterReceived' \in BOOLEAN
              /\ cards' \in [Jids -> {"none", "empty", "full"}]
              /\ requests' \in Seq(Request) /\ listed' \subseteq Jids
              /\ told \subseteq told' /\ told' \subseteq Jids
              /\ \A m : Among(m, requests) => Among(m, requests')
              /\ Owed'
\* what is not a roster stays owed
<1>13. ASSUME x.type # "result", listed' = listed, requests' = requests,
              told \subseteq told', x.type = "vcard" /\ uiHere => x.jid \in told'
       PROVE  Owed'
  <2> SUFFICES ASSUME asking PROVE Owed'
    BY <1>2 DEF Owed
  <2>1. uiHere
    BY <1>1 DEF ContactsTypeOK
  <2>2. CASE Among([type |-> "roster"], requests)
    BY <1>13, <2>2 DEF Owed
  <2>3. ASSUME NEW S \in SUBSET Jids, Among([type |-> "result", items |-> S], arriving)
        PROVE  Owed'
    <3> DEFINE m == [type |-> "result", items |-> S]
    <3>1. m.type = "result"
      OBVIOUS
    <3> HIDE DEF m
    <3>2. Among(m, arriving')
      BY <1>7, <1>13, <2>3, <3>1 DEF m
    <3> QED  BY <3>2 DEF Owed, m
  <2>4. ASSUME NEW c \in listed, CardOf[c] # "none",
               \/ c \in told
               \/ Among([type |-> "vcard", jid |-> c], requests)
               \/ Among([type |-> "vcard", jid |-> c], arriving)
        PROVE  \/ c \in told'
               \/ Among([type |-> "vcard", jid |-> c], requests')
               \/ Among([type |-> "vcard", jid |-> c], arriving')
    <3> DEFINE m == [type |-> "vcard", jid |-> c]
    <3>1. m.type = "vcard" /\ m.jid = c
      OBVIOUS
    <3> HIDE DEF m
    <3>2. CASE m = x
      BY <1>13, <2>1, <3>1, <3>2
    <3>3. CASE m # x
      BY <1>7, <1>13, <2>4, <3>3 DEF m
    <3> QED  BY <3>2, <3>3
  <2> QED  BY <1>1, <1>3, <1>13, <2>2, <2>3, <2>4 DEF Owed
<1>14. ASSUME HandleRosterResult(x) PROVE Handled
  <2>1. x.type = "result" /\ entries' = entries \cup x.items /\ isRosterReceived' = TRUE
        /\ RosterReceived(entries') /\ UNCHANGED <<presences, cards>>
    BY <1>14 DEF HandleRosterResult
  <2>2. PICK jids \in SUBSET Jids : jids = entries'
    BY <1>12, <2>1, ArrivalFacts
  <2>3. RosterReceived(jids)
    BY <2>1, <2>2 DEF RosterReceived, SendContact
  <2>4. /\ requests' \in Seq(Request) /\ listed' = jids /\ told \subseteq told' /\ told' \subseteq Jids
        /\ uiHere => \A c \in jids : c \in told' \/ Among([type |-> "vcard", jid |-> c], requests')
        /\ \A m : Among(m, requests) => Among(m, requests')
    BY <1>3, <2>3, Fetched
  <2>5. asking => uiHere
    BY <1>1 DEF ContactsTypeOK
  <2>6. Owed'
    BY <1>2, <2>4, <2>5 DEF Owed
  <2>7. y = <<entries', presences'>>
    BY <1>9, <1>10, <2>1 DEF ListReads
  <2> QED  BY <1>12, <2>1, <2>4, <2>6, <2>7
<1>15. ASSUME HandleRosterPush(x) PROVE Handled
  <2>1. /\ \/ x.type = "added" /\ entries' = entries \cup {x.jid}
           \/ x.type = "removed" /\ entries' = entries \ {x.jid}
        /\ UNCHANGED <<presences, isRosterReceived, cards, told, requests, listed>>
    BY <1>15 DEF HandleRosterPush
  <2>2. Owed'
    BY <1>13, <2>1
  <2>3. y = <<entries', presences'>>
    <3>1. CASE x.type = "added" /\ entries' = entries \cup {x.jid}
      BY <1>9, <1>10, <2>1, <3>1 DEF ListReads
    <3>2. CASE x.type = "removed" /\ entries' = entries \ {x.jid}
      BY <1>9, <1>10, <2>1, <3>2 DEF ListReads
    <3> QED  BY <2>1, <3>1, <3>2
  <2> QED  BY <1>1, <1>3, <1>12, <2>1, <2>2, <2>3 DEF ContactsTypeOK
<1>16. ASSUME HandlePresence(x) PROVE Handled
  <2>1. /\ \/ x.type = "available" /\ presences' = presences \cup {x.of}
           \/ x.type = "unavailable" /\ presences' = presences \ {x.of}
        /\ UNCHANGED <<entries, isRosterReceived, requests, listed>>
    BY <1>16 DEF HandlePresence
  <2>2. x.of[1] \in Jids
    BY <2>1, ArrivalFacts, SessionsFinite
  <2>3. /\ told \subseteq told' /\ told' \subseteq Jids
        /\ cards' \in [Jids -> {"none", "empty", "full"}]
    BY <1>12, <1>16, <2>2 DEF HandlePresence, SendContact
  <2>4. Owed'
    BY <1>13, <2>1, <2>3
  <2>5. y = <<entries', presences'>>
    <3>1. CASE x.type = "available" /\ presences' = presences \cup {x.of}
      BY <1>9, <1>10, <2>1, <3>1 DEF ListReads
    <3>2. CASE x.type = "unavailable" /\ presences' = presences \ {x.of}
      BY <1>9, <1>10, <2>1, <3>2 DEF ListReads
    <3> QED  BY <2>1, <3>1, <3>2
  <2> QED  BY <1>1, <1>3, <1>12, <2>1, <2>3, <2>4, <2>5 DEF ContactsTypeOK
<1>17. ASSUME VCardReceived(x) PROVE Handled
  <2>1. /\ x.type = "vcard" /\ SendContact({x.jid})
        /\ cards' = [cards EXCEPT ![x.jid] = IF CardOf[x.jid] = "named" THEN "full" ELSE "empty"]
        /\ UNCHANGED <<entries, presences, isRosterReceived, requests, listed>>
    BY <1>17 DEF VCardReceived
  <2>2. x.jid \in Jids
    BY <2>1, ArrivalFacts
  <2>3. told \subseteq told' /\ told' \subseteq Jids /\ (uiHere => x.jid \in told')
    BY <1>12, <2>1, <2>2 DEF SendContact
  <2>4. cards' \in [Jids -> {"none", "empty", "full"}]
    BY <1>12, <2>1, <2>2
  <2>5. Owed'
    BY <1>13, <2>1, <2>3
  <2>6. y = <<entries', presences'>>
    BY <1>9, <1>10, <2>1 DEF ListReads
  <2> QED  BY <1>1, <1>3, <2>1, <2>3, <2>4, <2>5, <2>6 DEF ContactsTypeOK
<1>18. Handled
  <2> HIDE DEF Handled
  <2> QED  BY <1>6, <1>14, <1>15, <1>16, <1>17
<1>19. ListComing'
  <2>1. ListNow' = y
    BY <1>18 DEF ListNow
  <2> QED  BY <1>2, <1>8, <1>11, <2>1 DEF ListComing
<1>20. ContactsTypeOK'
  <2>1. entries' \subseteq Jids /\ presences' \subseteq Session
    BY <1>18 DEF ListView
  <2> QED  BY <1>1, <1>2, <1>3, <1>4, <1>18, <2>1 DEF ContactsTypeOK
<1>21. Wired'
  BY <1>1, <1>2, <1>3, <1>18 DEF Wired
<1> QED  BY <1>18, <1>19, <1>20, <1>21 DEF ContactsInv

\* The UI.
LEMMA UiKept ==
  ASSUME ContactsInv, UiComes \/ UiGoes \/ RequestContactList \/ \E c \in Jids : AddContact(c)
  PROVE  ContactsInv'
<1>1. ContactsTypeOK /\ Wired /\ Owed /\ ListComing
  BY DEF ContactsInv
<1>2. UNCHANGED <<roster, online, interested, announced, arriving, streamUp, loggedIn, entries,
                  presences, isRosterReceived, cards>>
  BY DEF UiComes, UiGoes, RequestContactList, AddContact, serverVars
<1>3. ListComing'
  BY <1>1, <1>2, ListKept
<1>4. requests \in Seq(Request)
  BY ListFacts
<1>5. CASE UiComes
  <2>1. uiHere' = TRUE /\ UNCHANGED <<requests, asking, told, listed>>
    BY <1>5 DEF UiComes
  <2>2. ContactsTypeOK' /\ Wired'
    BY <1>1, <1>2, <2>1 DEF ContactsTypeOK, Wired
  <2>3. Owed'
    BY <1>1, <1>2, <2>1, OwedKept
  <2> QED  BY <1>3, <2>2, <2>3 DEF ContactsInv
<1>6. CASE UiGoes
  <2>1. uiHere' = FALSE /\ asking' = FALSE /\ told' = {} /\ UNCHANGED <<requests, listed>>
    BY <1>6 DEF UiGoes
  <2>2. ContactsTypeOK' /\ Wired'
    BY <1>1, <1>2, <2>1 DEF ContactsTypeOK, Wired
  <2>3. Owed'
    BY <2>1 DEF Owed
  <2> QED  BY <1>3, <2>2, <2>3 DEF ContactsInv
<1>7. ASSUME NEW c \in Jids, AddContact(c) PROVE ContactsInv'
  <2> DEFINE m == [type |-> "add", jid |-> c]
  <2>1. /\ requests' = IF streamUp THEN Append(requests, m) ELSE requests
        /\ UNCHANGED <<uiHere, asking, told, listed>>
    BY <1>7 DEF AddContact, uiSideVars
  <2>2. m \in Request
    BY DEF Request
  <2> HIDE DEF m
  <2>3. requests' \in Seq(Request) /\ (\A k : Among(k, requests) => Among(k, requests'))
        /\ (~streamUp => requests' = requests)
    BY <1>4, <2>1, <2>2, AmongAppend
  <2>4. ContactsTypeOK' /\ Wired'
    BY <1>1, <1>2, <2>1, <2>3 DEF ContactsTypeOK, Wired
  <2>5. Owed'
    BY <1>1, <1>2, <2>1, <2>3, OwedKept
  <2> QED  BY <1>3, <2>4, <2>5 DEF ContactsInv
<1>8. CASE RequestContactList
  <2>1. /\ uiHere /\ uiHere' = uiHere /\ asking' = TRUE
        /\ IF loggedIn THEN RosterReceived(entries) ELSE UNCHANGED <<told, requests, listed>>
    BY <1>8 DEF RequestContactList
  <2>2. PICK jids \in SUBSET Jids : jids = entries
    BY <1>1 DEF ContactsTypeOK
  <2>3. CASE streamUp
    <3>1. RosterReceived(jids)
      BY <1>1, <2>1, <2>2, <2>3 DEF Wired
    <3>2. /\ requests' \in Seq(Request) /\ listed' = jids /\ told' \subseteq Jids
          /\ \A c \in jids : c \in told' \/ Among([type |-> "vcard", jid |-> c], requests')
          /\ \A m : Among(m, requests) => Among(m, requests')
      BY <2>1, <2>3, <3>1, Fetched
    <3>3. ContactsTypeOK' /\ Wired'
      BY <1>1, <1>2, <2>1, <2>3, <3>2 DEF ContactsTypeOK, Wired
    <3>4. Owed'
      BY <3>2 DEF Owed
    <3> QED  BY <1>3, <3>3, <3>4 DEF ContactsInv
  <2>4. CASE ~streamUp
    <3>1. requests' = requests /\ told' \subseteq Jids /\ listed' \subseteq Jids
      <4>1. CASE loggedIn
        BY <1>1, <2>1, <2>2, <2>4, <4>1 DEF RosterReceived, SendContact, ContactsTypeOK
      <4>2. CASE ~loggedIn
        BY <1>1, <2>1, <4>2 DEF ContactsTypeOK
      <4> QED  BY <4>1, <4>2
    <3>2. ContactsTypeOK' /\ Wired'
      BY <1>1, <1>2, <2>1, <2>4, <3>1 DEF ContactsTypeOK, Wired
    <3>3. Owed'
      BY <1>2, <2>4 DEF Owed
    <3> QED  BY <1>3, <3>2, <3>3 DEF ContactsInv
  <2> QED  BY <2>3, <2>4
<1> QED  BY <1>5, <1>6, <1>7, <1>8

LEMMA ContactsStart == ContactsInit => ContactsInv
<1> SUFFICES ASSUME ContactsInit PROVE ContactsInv
  OBVIOUS
<1>1. <<>> \in Seq(Request) /\ <<>> \in Seq(Arrival)
  OBVIOUS
<1>2. ContactsTypeOK
  BY <1>1 DEF ContactsTypeOK, ContactsInit
<1>3. Wired /\ Owed
  BY DEF Wired, Owed, ContactsInit
<1>4. PICK v \in ListView : v = <<{}, {}>>
  BY DEF ListView
<1>5. ListNow = v /\ ListThen = v
  BY <1>4 DEF ListNow, ListThen, ContactsInit
<1>6. ListComing
  BY <1>5, ReadsNone DEF ListComing, ContactsInit
<1> QED  BY <1>2, <1>3, <1>6 DEF ContactsInv

LEMMA ContactsKept == ContactsInv /\ [ContactsNext]_contactsVars => ContactsInv'
<1> SUFFICES ASSUME ContactsInv, [ContactsNext]_contactsVars PROVE ContactsInv'
  OBVIOUS
<1>1. CASE UNCHANGED contactsVars
  <2>1. UNCHANGED <<roster, online, interested, announced, requests, arriving, streamUp, loggedIn,
                    entries, presences, isRosterReceived, cards, uiHere, asking, told, listed>>
    BY <1>1 DEF contactsVars
  <2>2. ContactsTypeOK' /\ Wired'
    BY <2>1 DEF ContactsInv, ContactsTypeOK, Wired
  <2>3. Owed'
    BY <2>1, OwedKept DEF ContactsInv
  <2> QED  BY <2>1, <2>2, <2>3, ListKept DEF ContactsInv
<1>2. CASE ContactsNext
  BY <1>2, WireKept, RepliedKept, ReceivedKept, RosterKept, SessionsKept, UiKept
     DEF ContactsNext
<1> QED  BY <1>1, <1>2

\* With nothing on its way, the list is where reading leads, and nothing is
\* owed.
LEMMA ContactsSettle == ContactsInv => ContactsSettled
<1> SUFFICES ASSUME ContactsInv, streamUp, requests = <<>>, arriving = <<>>
             PROVE  /\ entries = roster
                    /\ presences = {s \in online : s[1] \in roster}
                    /\ asking => \A c \in listed : CardOf[c] # "none" => c \in told
  BY DEF ContactsSettled
<1>1. interested /\ announced
  BY AmongNone DEF ContactsInv, Wired
<1>2. ListNow = ListThen
  BY ReadsEmpty DEF ContactsInv, ListComing
<1>3. entries = roster /\ presences = Shown
  BY <1>1, <1>2 DEF ListNow, ListThen
<1>4. asking => \A c \in listed : CardOf[c] # "none" => c \in told
  BY AmongNone DEF ContactsInv, Owed
<1> QED  BY <1>3, <1>4 DEF Shown

\* The contact list: reading the stanzas that are on their way brings the
\* entries and the presences to what the server has told, a stream asks for
\* the roster and announces us, and a UI that asked has been told of each
\* contact with a vCard, or the answer to that is on its way.
THEOREM ContactsInvariant == ContactsSpec => []ContactsInv
<1> QED  BY ContactsStart, ContactsKept, PTL DEF ContactsSpec

\* Once nothing is on its way, the contact list is the server's, the UI has
\* been told of it, and every variable has its type.
THEOREM ContactsMirrored == ContactsSpec => [](ContactsSettled /\ ContactsTypeOK)
<1>1. ContactsInv => ContactsSettled /\ ContactsTypeOK
  BY ContactsSettle DEF ContactsInv
<1> QED  BY <1>1, ContactsInvariant, PTL

-----------------------------------------------------------------------------
(* The channel to the user interface.                                      *)

\* No more requests of a connection than it may write are anywhere.
RequestsCounted ==
    \A c \in Connection :
       written[c] + handled[c] + (IF socket = c THEN buffered ELSE 0) <= MaxRequests

UiInv == UiTypeOK /\ RequestsCounted

LEMMA UiStart == UiInit => UiInv
<1> SUFFICES ASSUME UiInit PROVE UiInv
  OBVIOUS
<1> USE UiBoundsAssumption
<1>1. UiTypeOK
  <2>1. binds \in 0..MaxBinds
    BY DEF UiInit
  <2>2. 0 \in 0..MaxRequests
    OBVIOUS
  <2>3. NoOrphan
    BY DEF UiInit, NoOrphan
  <2> QED  BY <2>1, <2>2, <2>3 DEF UiInit, UiTypeOK
<1>2. RequestsCounted
  BY DEF UiInit, RequestsCounted
<1> QED  BY <1>1, <1>2 DEF UiInv

LEMMA UiStepKept == UiInv /\ [UiNext]_uiVars => UiInv'
<1> SUFFICES ASSUME UiInv, [UiNext]_uiVars PROVE UiInv'
  OBVIOUS
<1> USE UiBoundsAssumption DEF UiInv
<1>1. UiTypeOK /\ RequestsCounted
  OBVIOUS
<1>2. NoConnection \notin Connection /\ Connection \subseteq Nat
  BY DEF Connection, NoConnection
<1>3. CASE InvokedStart \/ Process
  <2>1. /\ binds' \in 0..MaxBinds /\ listening' \in BOOLEAN
        /\ UNCHANGED <<ui, served, socket, wired, written, buffered, handled>>
    <3>1. listening \in BOOLEAN /\ binds \in 0..MaxBinds
      BY <1>1 DEF UiTypeOK
    <3>2. CASE InvokedStart
      <4>1. binds' \in 0..MaxBinds
        BY <3>1, <3>2 DEF InvokedStart, WaitRemote
      <4> QED  BY <3>1, <3>2, <4>1 DEF InvokedStart
    <3>3. CASE Process
      <4>1. binds' \in 0..MaxBinds
        BY <3>1, <3>3 DEF Process
      <4> QED  BY <3>1, <3>3, <4>1 DEF Process
    <3> QED  BY <1>3, <3>2, <3>3
  <2> QED  BY <1>1, <2>1 DEF UiTypeOK, RequestsCounted, NoOrphan
<1>4. ASSUME NEW c \in Connection, Connects(c) PROVE UiInv'
  BY <1>1, <1>4 DEF Connects, UiTypeOK, RequestsCounted, NoOrphan
<1>5. ASSUME NEW c \in Connection, Writes(c) PROVE UiInv'
  BY <1>1, <1>5 DEF Writes, UiTypeOK, RequestsCounted, NoOrphan
<1>6. ASSUME NEW c \in Connection, Leaves(c) PROVE UiInv'
  BY <1>1, <1>6 DEF Leaves, UiTypeOK, RequestsCounted, NoOrphan
<1>7. ASSUME NEW c \in Connection, NewConnection(c) PROVE UiInv'
  <2>1. /\ served[c] = "backlog" /\ socket' = c /\ wired' = TRUE /\ buffered' = 0
        /\ UNCHANGED <<listening, ui, written, handled>>
    BY <1>7 DEF NewConnection
  <2>2. RequestsCounted'
    BY <1>1, <2>1 DEF UiTypeOK, RequestsCounted
  <2>3. /\ served' \in [Connection -> {"none", "backlog", "open", "closed"}]
        /\ binds' \in 0..MaxBinds
        /\ \A d \in Connection : served'[d] = "open" => d = c
    <3>1. CASE ~Open(socket) /\ served' = [served EXCEPT ![c] = "open"] /\ UNCHANGED binds
      BY <1>1, <1>2, <3>1 DEF UiTypeOK, NoOrphan, Open
    <3>2. CASE /\ Open(socket) /\ WaitRemote
               /\ served' = [served EXCEPT ![socket] = "closed", ![c] = "closed"]
      <4>1. \A d \in Connection : served'[d] # "open"
        BY <1>1, <2>1, <3>2 DEF UiTypeOK, NoOrphan
      <4> QED  BY <1>1, <3>2, <4>1 DEF UiTypeOK, WaitRemote
    <3> QED  BY <1>7, <3>1, <3>2 DEF NewConnection
  <2> QED  BY <1>1, <2>1, <2>2, <2>3 DEF UiTypeOK, NoOrphan
<1>8. ASSUME NEW c \in Connection, ReadyRead(c) PROVE UiInv'
  <2>1. /\ served[c] = "open" /\ written[c] > 0 /\ socket = c
        /\ written' = [written EXCEPT ![c] = 0] /\ buffered' = buffered + written[c] - 1
        /\ handled' = [handled EXCEPT ![c] = @ + 1]
        /\ UNCHANGED <<listening, binds, ui, served, socket, wired>>
    BY <1>1, <1>8 DEF ReadyRead, Open, UiTypeOK, NoOrphan
  <2>2. written[c] \in Nat /\ handled[c] \in Nat /\ buffered \in Nat
        /\ written[c] + handled[c] + buffered <= MaxRequests
    BY <1>1, <2>1 DEF UiTypeOK, RequestsCounted
  <2>3. buffered' \in 0..MaxRequests /\ handled[c] + 1 \in 0..MaxRequests /\ 0 \in 0..MaxRequests
    BY <2>1, <2>2
  <2>4. /\ written' \in [Connection -> 0..MaxRequests]
        /\ handled' \in [Connection -> 0..MaxRequests]
    BY <1>1, <2>1, <2>3 DEF UiTypeOK
  <2>5. UiTypeOK'
    BY <1>1, <2>1, <2>3, <2>4 DEF UiTypeOK, NoOrphan
  <2>6. RequestsCounted'
    <3>1. ASSUME NEW d \in Connection
          PROVE  written'[d] + handled'[d] + (IF socket' = d THEN buffered' ELSE 0) <= MaxRequests
      <4>1. CASE d = c
        <5>1. written'[c] = 0 /\ handled'[c] = handled[c] + 1
          BY <1>1, <2>1 DEF UiTypeOK
        <5> QED  BY <2>1, <2>2, <4>1, <5>1
      <4>2. CASE d # c
        <5>1. written'[d] = written[d] /\ handled'[d] = handled[d]
          BY <1>1, <2>1, <4>2 DEF UiTypeOK
        <5> QED  BY <1>1, <2>1, <4>2, <5>1 DEF RequestsCounted
      <4> QED  BY <4>1, <4>2
    <3> QED  BY <3>1 DEF RequestsCounted
  <2> QED  BY <2>5, <2>6
<1>9. ASSUME NEW c \in Connection, RemoteClientDisconect(c) PROVE UiInv'
  <2>1. /\ served' = [served EXCEPT ![c] = "closed"] /\ wired' = FALSE /\ buffered' = 0
        /\ WaitRemote /\ UNCHANGED <<listening, ui, socket, written, handled>>
    BY <1>9 DEF RemoteClientDisconect
  <2>2. RequestsCounted'
    BY <1>1, <2>1 DEF UiTypeOK, RequestsCounted
  <2>3. UiTypeOK'
    <3>1. binds' \in 0..MaxBinds
      BY <1>1, <2>1 DEF UiTypeOK, WaitRemote
    <3>2. served' \in [Connection -> {"none", "backlog", "open", "closed"}]
          /\ \A d \in Connection : served'[d] = "open" => served[d] = "open"
      BY <1>1, <2>1 DEF UiTypeOK
    <3>3. NoOrphan'
      BY <1>1, <2>1, <3>2 DEF UiTypeOK, NoOrphan
    <3>4. buffered' \in 0..MaxRequests
      <4>1. 0 \in 0..MaxRequests
        OBVIOUS
      <4> QED  BY <2>1, <4>1
    <3>5. /\ listening' \in BOOLEAN /\ wired' \in BOOLEAN
          /\ ui' \in [Connection -> {"none", "here", "left"}]
          /\ socket' \in Connection \cup {NoConnection}
          /\ written' \in [Connection -> 0..MaxRequests]
          /\ handled' \in [Connection -> 0..MaxRequests]
      BY <1>1, <2>1 DEF UiTypeOK
    <3> QED  BY <2>1, <3>1, <3>2, <3>3, <3>4, <3>5 DEF UiTypeOK
  <2> QED  BY <2>2, <2>3
<1>10. CASE UNCHANGED uiVars
  BY <1>1, <1>10 DEF uiVars, UiTypeOK, RequestsCounted, NoOrphan
<1> QED  BY <1>3, <1>4, <1>5, <1>6, <1>7, <1>8, <1>9, <1>10 DEF UiNext

\* The channel to the UI: every variable has its type, and a socket that is
\* open is the one the service reads.
THEOREM UiChannelTypeCorrect == UiSpec => []UiTypeOK
<1>1. UiInv => UiTypeOK
  BY DEF UiInv
<1> QED  BY <1>1, UiStart, UiStepKept, PTL DEF UiSpec

-----------------------------------------------------------------------------
(* Side by side: a step of the service is a step of each part, or leaves it *)
(* alone.                                                                   *)

PartsInv == UiInv /\ HubInv /\ StreamInv /\ ContactsInv /\ RoomsInv

LEMMA PartsStart == MCServiceInit => PartsInv
  BY UiStart, InitInv, InitKept, ContactsStart, RoomsStart DEF MCServiceInit, PartsInv

LEMMA PartsKept == PartsInv /\ [MCServiceNext]_mcServiceVars => PartsInv'
<1> SUFFICES ASSUME PartsInv, [MCServiceNext]_mcServiceVars PROVE PartsInv'
  OBVIOUS
<1>1. /\ [UiNext]_uiVars /\ [HubNext]_hubVars /\ [StreamNext]_negotiationVars
      /\ [ContactsNext]_contactsVars /\ [RoomsNext]_roomsVars
  BY DEF MCServiceNext, mcServiceVars
<1> QED  BY <1>1, UiStepKept, StepInv, StreamKept, ContactsKept, RoomsKept DEF PartsInv

\* The tables the client keeps, the contact list and the occupants of a room,
\* are the server's once nothing is on its way, whatever crossed: for any
\* contacts, vCards, nicknames and bounds.
THEOREM TablesAreTheServers == MCServiceSpec => []TablesMirrorServer
<1>1. PartsInv => TablesMirrorServer
  BY ContactsSettle, RoomsSettle DEF PartsInv, TablesMirrorServer
<1> QED  BY <1>1, PartsStart, PartsKept, PTL DEF MCServiceSpec

\* Every variable of the parts has its type.
THEOREM ServiceTypeCorrect == MCServiceSpec => []MCServiceTypeOK
<1>1. PartsInv => MCServiceTypeOK
  <2>1. PartsInv => StreamTypeOK
    BY TypesHold DEF PartsInv
  <2> QED  BY <2>1 DEF PartsInv, MCServiceTypeOK, UiInv, HubInv, ContactsInv, RoomsInv
<1> QED  BY <1>1, PartsStart, PartsKept, PTL DEF MCServiceSpec
=============================================================================
