--------------------------- MODULE OtrKeys_proofs ----------------------------
(***************************************************************************)
(* Proofs about the keys of a private conversation, for every number of    *)
(* conversations and messages, whatever is lost, repeated or exchanged     *)
(* anew on the way.                                                        *)
(***************************************************************************)
EXTENDS OtrKeys, TLAPS

PairOf(s) == <<s.ours, s.theirs>>
Blank(s) == s.ours = NoDHKey /\ s.theirs = NoDHKey /\ ~s.rcvmacused

\* The table of a party in conversation c with these key ids: the column of
\* their newest key, that of their older key (left over from an earlier
\* conversation as long as they had none) ...
Columns(t, c, our, their, old) ==
    /\ \A i \in Slot : PairOf(t[i][0]) = <<<<c, our - i>>, <<c, their>>>>
    /\ old => \A i \in Slot : PairOf(t[i][1]) = <<<<c, our - i>>, <<c, their - 1>>>>
    /\ ~old => /\ \A i \in Slot : t[i][1].ours[1] < c
               /\ PairOf(t[0][1]) # PairOf(t[1][1]) \/ t[0][1].ours[1] = 0
    /\ \A i, j \in Slot : t[i][j].ours[1] > 0 \/ Blank(t[i][j])

\* ... and the pairs whose MAC keys are public: they are of an earlier time,
\* and not in the table any more.
DeadPairs(t, c, our, their, dead) ==
    /\ \A d \in dead :
          /\ d \in DHKey \X DHKey
          /\ d[1][1] > 0 /\ d[1][1] <= c
          /\ d[1][1] = c => d[1][2] <= our /\ d[2][2] <= their
    /\ \A i, j \in Slot : PairOf(t[i][j]) \notin dead

Ids(c, our, their, old) ==
    /\ c \in 1..MaxConversations /\ our \in Nat /\ their \in Nat
    /\ our >= 2 /\ their >= 1 /\ (old => their >= 2)

Sound(t, c, our, their, old, dead) ==
    /\ t \in Table
    /\ Ids(c, our, their, old)
    /\ Columns(t, c, our, their, old)
    /\ DeadPairs(t, c, our, their, dead)

\* Before the first exchange.
Unused(p) ==
    /\ conv[p] = 0 /\ ourKeyid[p] = 0 /\ theirKeyid[p] = 0 /\ hasOldY[p] = FALSE
    /\ sesskeys[p] \in Table /\ \A i, j \in Slot : Blank(sesskeys[p][i][j])
    /\ saved[p] = {} /\ published[p] = {}

PartyInv(p) ==
    \/ Unused(p)
    \/ Sound(sesskeys[p], conv[p], ourKeyid[p], theirKeyid[p], hasOldY[p],
             published[p] \cup saved[p])

\* What p sealed before, it sealed with earlier keys, or with the keys it
\* seals with now and a counter that has been passed.
UsedBelow(p, c, our, their, ctr) ==
    \A u \in used : u[1] = p =>
        /\ u[2][1] > 0 /\ u[2][1] <= c
        /\ u[2][1] = c => u[2][2] <= our - 1 /\ u[3][2] <= their
        /\ u[2] = <<c, our - 1>> /\ u[3] = <<c, their>> => u[4] <= ctr

UsedInv(p) ==
    UsedBelow(p, conv[p], ourKeyid[p], theirKeyid[p], sesskeys[p][1][0].sendctr)

\* A message announces the key that follows the one it is from; the end of an
\* exchange comes once, and opens the conversation after c.
GoodWire(w, c) ==
    \A i \in DOMAIN w :
        /\ w[i].type = "data" => w[i].next = <<w[i].by[1], w[i].by[2] + 1>>
        /\ w[i].type = "signature" =>
              /\ w[i].conv = c + 1
              /\ \A j \in DOMAIN w : w[j].type = "signature" => j = i

KeyMessage == DataMessage \cup LastOfExchange

\* The types, in the three parts the steps disturb.
KeyTypes ==
    /\ conv \in [Ends -> Conversation]
    /\ ourKeyid \in [Ends -> Nat] /\ theirKeyid \in [Ends -> Nat]
    /\ hasOldY \in [Ends -> BOOLEAN]
    /\ sesskeys \in [Ends -> Table]
    /\ saved \in [Ends -> SUBSET (DHKey \X DHKey)]
    /\ published \in [Ends -> SUBSET (DHKey \X DHKey)]

WireTypes == inTransit \in [Ends -> Seq(KeyMessage)]

HistoryTypes ==
    /\ sealed \in [Ends -> 0..MaxData]
    /\ used \subseteq Ends \X DHKey \X DHKey \X Nat
    /\ accepted \in [Ends -> SUBSET (1..MaxData)]
    /\ reused = FALSE /\ twice \in BOOLEAN

KeysInv ==
    /\ KeyTypes /\ WireTypes /\ HistoryTypes
    /\ \A p \in Ends :
          PartyInv(p) /\ UsedInv(p) /\ GoodWire(inTransit[p], conv[p])

-----------------------------------------------------------------------------
(* The table, cell by cell.                                                *)

LEMMA SessionType ==
  ASSUME NEW o \in DHKey, NEW t \in DHKey
  PROVE  /\ Session(o, t) \in SessKeys /\ PairOf(Session(o, t)) = <<o, t>>
         /\ Session(o, t).ours = o /\ Session(o, t).rcvmacused = FALSE
         /\ Session(o, t).sendctr = 0
  BY DEF Session, SessKeys, PairOf

LEMMA BlankType ==
  /\ NoDHKey \in DHKey /\ BlankKeys \in SessKeys /\ Blank(BlankKeys)
  /\ BlankKeys.ours = NoDHKey /\ PairOf(BlankKeys) = <<NoDHKey, NoDHKey>>
<1>1. NoDHKey \in DHKey
  BY KeysBoundsAssumption DEF NoDHKey, DHKey, Conversation, KeyId
<1>2. QED
  BY <1>1 DEF BlankKeys, Session, SessKeys, Blank, PairOf

LEMMA CellType ==
  ASSUME NEW t \in Table, NEW i \in Slot, NEW j \in Slot
  PROVE  /\ t[i][j] \in SessKeys /\ PairOf(t[i][j]) \in DHKey \X DHKey
         /\ t[i][j].ours \in DHKey /\ t[i][j].theirs \in DHKey
         /\ t[i][j].sendctr \in Nat
<1>1. t[i][j] \in SessKeys
  BY DEF Table
<1>2. QED
  BY <1>1 DEF SessKeys, PairOf

LEMMA RowType ==
  ASSUME NEW a \in SessKeys, NEW b \in SessKeys
  PROVE  /\ Row(a, b) \in [Slot -> SessKeys]
         /\ Row(a, b)[0] = a /\ Row(a, b)[1] = b
  BY DEF Row, Slot

LEMMA TableType ==
  ASSUME NEW a \in [Slot -> SessKeys], NEW b \in [Slot -> SessKeys]
  PROVE  /\ [i \in Slot |-> IF i = 0 THEN a ELSE b] \in Table
         /\ [i \in Slot |-> IF i = 0 THEN a ELSE b][0] = a
         /\ [i \in Slot |-> IF i = 0 THEN a ELSE b][1] = b
  BY DEF Table, Slot

LEMMA DHCells ==
  ASSUME NEW t \in Table, NEW newest \in DHKey, NEW y \in DHKey, NEW oldy \in DHKey
  PROVE  LET new == RotateDHKeys(t, newest, y, oldy).table
         IN  /\ new \in Table
             /\ new[0][0] = Session(newest, y)
             /\ new[0][1] = IF oldy = NoDHKey THEN BlankKeys ELSE Session(newest, oldy)
             /\ new[1][0] = t[0][0] /\ new[1][1] = t[0][1]
<1> DEFINE b == IF oldy = NoDHKey THEN BlankKeys ELSE Session(newest, oldy)
           row == Row(Session(newest, y), b)
<1>1. Session(newest, y) \in SessKeys /\ b \in SessKeys
  BY SessionType, BlankType
<1> HIDE DEF b
<1>2. row \in [Slot -> SessKeys] /\ row[0] = Session(newest, y) /\ row[1] = b
  BY <1>1, RowType
<1>3. t[0] \in [Slot -> SessKeys]
  BY DEF Table, Slot
<1>4. RotateDHKeys(t, newest, y, oldy).table = [i \in Slot |-> IF i = 0 THEN row ELSE t[0]]
  BY DEF RotateDHKeys, b
<1> HIDE DEF row
<1>5. QED
  BY <1>2, <1>3, <1>4, TableType DEF b

LEMMA YCells ==
  ASSUME NEW t \in Table, NEW newest \in DHKey, NEW oldest \in DHKey, NEW y \in DHKey
  PROVE  LET new == RotateYKeys(t, newest, oldest, y).table
         IN  /\ new \in Table
             /\ new[0][0] = Session(newest, y) /\ new[0][1] = t[0][0]
             /\ new[1][0] = Session(oldest, y) /\ new[1][1] = t[1][0]
<1> DEFINE r(i) == Row(Session(IF i = 0 THEN newest ELSE oldest, y), t[i][0])
<1>1. r(0) = Row(Session(newest, y), t[0][0]) /\ r(1) = Row(Session(oldest, y), t[1][0])
  OBVIOUS
<1>2. /\ r(0) \in [Slot -> SessKeys] /\ r(0)[0] = Session(newest, y) /\ r(0)[1] = t[0][0]
      /\ r(1) \in [Slot -> SessKeys] /\ r(1)[0] = Session(oldest, y) /\ r(1)[1] = t[1][0]
  <2>1. t[0][0] \in SessKeys /\ t[1][0] \in SessKeys
    BY CellType DEF Slot
  <2>2. Session(newest, y) \in SessKeys /\ Session(oldest, y) \in SessKeys
    BY SessionType
  <2> HIDE DEF r
  <2>3. QED
    BY <1>1, <2>1, <2>2, RowType
<1>3. RotateYKeys(t, newest, oldest, y).table = [i \in Slot |-> r(i)]
  BY DEF RotateYKeys
<1> HIDE DEF r
<1>4. QED
  BY <1>2, <1>3 DEF Table, Slot

\* What is revealed is a pair whose receiving MAC key has been used.
LEMMA RevealedPairs ==
  ASSUME NEW s1, NEW s2, NEW d \in Revealed(s1, s2)
  PROVE  \/ d = PairOf(s1) /\ s1.rcvmacused
         \/ d = PairOf(s2) /\ s2.rcvmacused
  BY DEF Revealed, PairOf

-----------------------------------------------------------------------------
(* Every operation on the table keeps it sound.                            *)

\* The pairs of the four cells decide, and nothing else of them.
LEMMA SamePairs ==
  ASSUME NEW c, NEW our, NEW their, NEW old \in BOOLEAN, NEW dead,
         NEW t \in Table, NEW n \in Table, Sound(t, c, our, their, old, dead),
         \A i, j \in Slot : /\ PairOf(n[i][j]) = PairOf(t[i][j])
                            /\ n[i][j].ours[1] > 0 \/ n[i][j] = t[i][j]
  PROVE  Sound(n, c, our, their, old, dead)
<1>1. \A i, j \in Slot : n[i][j].ours = t[i][j].ours
  BY DEF PairOf
<1>2. Columns(n, c, our, their, old)
  <2>1. \A i \in Slot : PairOf(n[i][0]) = <<<<c, our - i>>, <<c, their>>>>
    BY DEF Sound, Columns, Slot
  <2>2. old => \A i \in Slot : PairOf(n[i][1]) = <<<<c, our - i>>, <<c, their - 1>>>>
    BY DEF Sound, Columns, Slot
  <2>3. ~old => /\ \A i \in Slot : n[i][1].ours[1] < c
                /\ PairOf(n[0][1]) # PairOf(n[1][1]) \/ n[0][1].ours[1] = 0
    BY <1>1 DEF Sound, Columns, Slot
  <2>4. \A i, j \in Slot : n[i][j].ours[1] > 0 \/ Blank(n[i][j])
    BY DEF Sound, Columns
  <2>5. QED
    BY <2>1, <2>2, <2>3, <2>4 DEF Columns
<1>3. DeadPairs(n, c, our, their, dead)
  BY DEF Sound, DeadPairs
<1>4. QED
  BY <1>2, <1>3 DEF Sound

\* A new column: their newest key is replaced by their next one.
LEMMA YSound ==
  ASSUME NEW c, NEW our, NEW their, NEW old \in BOOLEAN, NEW dead, NEW t,
         Sound(t, c, our, their, old, dead)
  PROVE  LET y == RotateYKeys(t, <<c, our>>, <<c, our - 1>>, <<c, their + 1>>)
         IN  Sound(y.table, c, our, their + 1, TRUE, dead \cup y.macs)
<1> DEFINE y == RotateYKeys(t, <<c, our>>, <<c, our - 1>>, <<c, their + 1>>)
           n == y.table
<1>1. /\ c \in 1..MaxConversations /\ our \in Nat /\ their \in Nat
      /\ our >= 2 /\ their >= 1 /\ t \in Table
  BY DEF Sound, Ids
<1>2. <<c, our>> \in DHKey /\ <<c, our - 1>> \in DHKey /\ <<c, their + 1>> \in DHKey
  BY <1>1, KeysBoundsAssumption DEF DHKey, Conversation, KeyId
<1>3. /\ n \in Table
      /\ n[0][0] = Session(<<c, our>>, <<c, their + 1>>) /\ n[0][1] = t[0][0]
      /\ n[1][0] = Session(<<c, our - 1>>, <<c, their + 1>>) /\ n[1][1] = t[1][0]
  BY <1>1, <1>2, YCells
<1>4. y.macs = Revealed(t[0][1], t[1][1])
  BY DEF RotateYKeys
<1> HIDE DEF y, n
<1>5. /\ PairOf(n[0][0]) = <<<<c, our>>, <<c, their + 1>>>>
      /\ PairOf(n[1][0]) = <<<<c, our - 1>>, <<c, their + 1>>>>
      /\ PairOf(n[0][1]) = <<<<c, our>>, <<c, their>>>>
      /\ PairOf(n[1][1]) = <<<<c, our - 1>>, <<c, their>>>>
  <2>1. /\ PairOf(t[0][0]) = <<<<c, our - 0>>, <<c, their>>>>
        /\ PairOf(t[1][0]) = <<<<c, our - 1>>, <<c, their>>>>
    BY DEF Sound, Columns, Slot
  <2>2. QED
    <3>1. our - 0 = our
      BY <1>1
    <3> DEFINE o == <<c, our>>
               q == <<c, our - 1>>
               h == <<c, their + 1>>
    <3>2. n[0][0] = Session(o, h) /\ n[1][0] = Session(q, h) /\ o \in DHKey /\ q \in DHKey /\ h \in DHKey
      BY <1>2, <1>3
    <3> HIDE DEF o, q, h
    <3>3. PairOf(n[0][0]) = <<o, h>> /\ PairOf(n[1][0]) = <<q, h>>
      BY <3>2, SessionType
    <3>4. PairOf(n[0][0]) = <<<<c, our>>, <<c, their + 1>>>>
      BY <3>3 DEF o, h
    <3>5. PairOf(n[1][0]) = <<<<c, our - 1>>, <<c, their + 1>>>>
      BY <3>3 DEF q, h
    <3>6. QED
      BY <1>3, <2>1, <3>1, <3>4, <3>5
<1>6. \A i, j \in Slot : n[i][j].ours[1] = c
  BY <1>5 DEF PairOf, Slot
<1>7. Ids(c, our, their + 1, TRUE)
  BY <1>1 DEF Ids
<1>8. Columns(n, c, our, their + 1, TRUE)
  BY <1>1, <1>5, <1>6 DEF Columns, Slot
<1>9. ASSUME NEW d \in dead \cup y.macs
      PROVE  /\ d \in DHKey \X DHKey /\ d[1][1] > 0 /\ d[1][1] <= c
             /\ d[1][1] = c => d[1][2] <= our /\ d[2][2] <= their
             /\ \A i, j \in Slot : d # PairOf(n[i][j])
  <2>1. CASE d \in dead
    <3>1. /\ d \in DHKey \X DHKey /\ d[1][1] > 0 /\ d[1][1] <= c
          /\ d[1][1] = c => d[1][2] <= our /\ d[2][2] <= their
          /\ \A i, j \in Slot : d # PairOf(t[i][j])
      BY <2>1 DEF Sound, DeadPairs
    <3>2. d # PairOf(n[0][1]) /\ d # PairOf(n[1][1])
      BY <1>3, <3>1 DEF Slot
    <3>3. d # PairOf(n[0][0]) /\ d # PairOf(n[1][0])
      BY <1>1, <1>5, <3>1
    <3>4. QED
      BY <3>1, <3>2, <3>3 DEF Slot
  <2>2. CASE d \in y.macs
    <3>1. PICK i \in Slot : d = PairOf(t[i][1]) /\ t[i][1].rcvmacused
      BY <1>4, <2>2, RevealedPairs DEF Slot
    <3>2. t[i][1].ours[1] > 0 /\ d[1] = t[i][1].ours /\ d \in DHKey \X DHKey
      BY <1>1, <3>1, CellType DEF Sound, Columns, Blank, PairOf, Slot
    <3>3. CASE old
      <4>1. d = <<<<c, our - i>>, <<c, their - 1>>>>
        BY <3>1, <3>3 DEF Sound, Columns
      <4>2. QED
        BY <1>1, <1>5, <3>2, <4>1 DEF Slot
    <3>4. CASE ~old
      <4>1. d[1][1] < c
        BY <3>2, <3>4 DEF Sound, Columns
      <4>2. d[1][1] \in Nat /\ c \in Nat
        BY <1>1, <3>2, KeysBoundsAssumption DEF DHKey, Conversation
      <4>3. QED
        BY <1>5, <3>2, <4>1, <4>2 DEF Slot
    <3>5. QED
      BY <3>3, <3>4
  <2>3. QED
    BY <2>1, <2>2
<1>10. DeadPairs(n, c, our, their + 1, dead \cup y.macs)
  <2>1. ASSUME NEW d \in dead \cup y.macs
        PROVE  d[1][1] = c => d[1][2] <= our /\ d[2][2] <= their + 1
    <3>1. d[2][2] \in Nat
      BY <1>9 DEF DHKey, KeyId
    <3>2. QED
      BY <1>1, <1>9, <3>1
  <2>2. QED
    BY <1>9, <2>1 DEF DeadPairs
<1>11. QED
  BY <1>3, <1>7, <1>8, <1>10 DEF Sound, y, n

\* A new row: our older key is replaced by our newest one, which is replaced
\* by a fresh one.
LEMMA DHSound ==
  ASSUME NEW c, NEW our, NEW their, NEW old \in BOOLEAN, NEW dead, NEW t,
         Sound(t, c, our, their, old, dead)
  PROVE  LET dh == RotateDHKeys(t, <<c, our + 1>>, <<c, their>>,
                                IF old THEN <<c, their - 1>> ELSE NoDHKey)
         IN  Sound(dh.table, c, our + 1, their, old, dead \cup dh.macs)
<1> DEFINE oldy == IF old THEN <<c, their - 1>> ELSE NoDHKey
           dh == RotateDHKeys(t, <<c, our + 1>>, <<c, their>>, oldy)
           n == dh.table
<1>1. /\ c \in 1..MaxConversations /\ our \in Nat /\ their \in Nat
      /\ our >= 2 /\ their >= 1 /\ t \in Table
      /\ old => their >= 2
  BY DEF Sound, Ids
<1>2. <<c, our + 1>> \in DHKey /\ <<c, their>> \in DHKey
  BY <1>1, KeysBoundsAssumption DEF DHKey, Conversation, KeyId
<1>3. oldy \in DHKey /\ (old => oldy = <<c, their - 1>> /\ oldy # NoDHKey)
      /\ (~old => oldy = NoDHKey)
  <2>1. CASE old
    <3>1. <<c, their - 1>> \in DHKey /\ <<c, their - 1>> # NoDHKey
      BY <1>1, <2>1, KeysBoundsAssumption DEF DHKey, Conversation, KeyId, NoDHKey
    <3>2. QED
      BY <2>1, <3>1
  <2>2. CASE ~old
    BY <2>2, BlankType
  <2>3. QED
    BY <2>1, <2>2
<1>4. dh.macs = Revealed(t[1][0], t[1][1])
  BY DEF RotateDHKeys
<1> HIDE DEF oldy
<1>5. /\ n \in Table
      /\ n[0][0] = Session(<<c, our + 1>>, <<c, their>>)
      /\ n[0][1] = IF oldy = NoDHKey THEN BlankKeys ELSE Session(<<c, our + 1>>, oldy)
      /\ n[1][0] = t[0][0] /\ n[1][1] = t[0][1]
  BY <1>1, <1>2, <1>3, DHCells
<1> HIDE DEF dh, n
<1>6. /\ PairOf(t[0][0]) = <<<<c, our>>, <<c, their>>>>
      /\ PairOf(t[1][0]) = <<<<c, our - 1>>, <<c, their>>>>
  <2>1. /\ PairOf(t[0][0]) = <<<<c, our - 0>>, <<c, their>>>>
        /\ PairOf(t[1][0]) = <<<<c, our - 1>>, <<c, their>>>>
    BY DEF Sound, Columns, Slot
  <2>2. our - 0 = our
    BY <1>1
  <2>3. QED
    BY <2>1, <2>2
<1>7. /\ PairOf(n[0][0]) = <<<<c, our + 1>>, <<c, their>>>>
      /\ PairOf(n[1][0]) = <<<<c, our>>, <<c, their>>>>
      /\ PairOf(n[1][1]) = PairOf(t[0][1])
  <2>1. PairOf(n[0][0]) = <<<<c, our + 1>>, <<c, their>>>>
    BY <1>2, <1>5, SessionType
  <2>2. QED
    BY <1>5, <1>6, <2>1
<1>8. Ids(c, our + 1, their, old)
  <2>1. our + 1 \in Nat /\ our + 1 >= 2
    BY <1>1
  <2>2. QED
    BY <1>1, <2>1, Zenon DEF Ids
<1>9. ASSUME old
      PROVE  Sound(n, c, our + 1, their, old, dead \cup dh.macs)
  <2>1. /\ PairOf(t[0][1]) = <<<<c, our>>, <<c, their - 1>>>>
        /\ PairOf(t[1][1]) = <<<<c, our - 1>>, <<c, their - 1>>>>
    <3>1. /\ PairOf(t[0][1]) = <<<<c, our - 0>>, <<c, their - 1>>>>
          /\ PairOf(t[1][1]) = <<<<c, our - 1>>, <<c, their - 1>>>>
      BY <1>9 DEF Sound, Columns, Slot
    <3>2. our - 0 = our
      BY <1>1
    <3>3. QED
      BY <3>1, <3>2
  <2>2. PairOf(n[0][1]) = <<<<c, our + 1>>, <<c, their - 1>>>>
    <3>1. n[0][1] = Session(<<c, our + 1>>, oldy)
      BY <1>3, <1>5, <1>9
    <3>2. PairOf(n[0][1]) = <<<<c, our + 1>>, oldy>>
      BY <1>2, <1>3, <3>1, SessionType
    <3>3. QED
      BY <1>3, <1>9, <3>2
  <2>3. \A i, j \in Slot : n[i][j].ours[1] = c
    BY <1>7, <2>1, <2>2 DEF PairOf, Slot
  <2>4. Columns(n, c, our + 1, their, old)
    BY <1>1, <1>7, <1>9, <2>1, <2>2, <2>3 DEF Columns, Slot
  <2>5. ASSUME NEW d \in dead \cup dh.macs
        PROVE  /\ d \in DHKey \X DHKey /\ d[1][1] > 0 /\ d[1][1] <= c
               /\ d[1][1] = c => d[1][2] <= our /\ d[2][2] <= their
               /\ \A i, j \in Slot : d # PairOf(n[i][j])
    <3>1. CASE d \in dead
      <4>1. /\ d \in DHKey \X DHKey /\ d[1][1] > 0 /\ d[1][1] <= c
            /\ d[1][1] = c => d[1][2] <= our /\ d[2][2] <= their
            /\ \A i, j \in Slot : d # PairOf(t[i][j])
        BY <3>1 DEF Sound, DeadPairs
      <4>2. d # PairOf(n[1][0]) /\ d # PairOf(n[1][1])
        BY <1>5, <4>1 DEF Slot
      <4>3. d # PairOf(n[0][0]) /\ d # PairOf(n[0][1])
        BY <1>1, <1>7, <2>2, <4>1
      <4>4. QED
        BY <4>1, <4>2, <4>3 DEF Slot
    <3>2. CASE d \in dh.macs
      <4>1. d = PairOf(t[1][0]) \/ d = PairOf(t[1][1])
        BY <1>4, <3>2, RevealedPairs
      <4>2. d \in DHKey \X DHKey
        BY <1>1, <4>1, CellType DEF Slot
      <4>3. QED
        BY <1>1, <1>6, <1>7, <2>1, <2>2, <4>1, <4>2 DEF Slot
    <3>3. QED
      BY <3>1, <3>2
  <2>6. DeadPairs(n, c, our + 1, their, dead \cup dh.macs)
    <3>1. ASSUME NEW d \in dead \cup dh.macs
          PROVE  d[1][1] = c => d[1][2] <= our + 1 /\ d[2][2] <= their
      <4>1. d[1][2] \in Nat
        BY <2>5 DEF DHKey, KeyId
      <4>2. QED
        BY <1>1, <2>5, <4>1
    <3>2. QED
      BY <2>5, <3>1 DEF DeadPairs
  <2>7. QED
    BY <1>5, <1>8, <2>4, <2>6, Zenon DEF Sound
<1>10. ASSUME ~old
       PROVE  Sound(n, c, our + 1, their, old, dead \cup dh.macs)
  <2>1. n[0][1] = BlankKeys /\ PairOf(n[0][1]) = <<NoDHKey, NoDHKey>>
        /\ n[0][1].ours = NoDHKey /\ Blank(n[0][1]) /\ NoDHKey[1] = 0
    BY <1>3, <1>5, <1>10, BlankType DEF NoDHKey
  <2>2. /\ t[0][1].ours[1] < c /\ t[1][1].ours[1] < c
        /\ PairOf(t[0][1]) # PairOf(t[1][1]) \/ t[0][1].ours[1] = 0
    BY <1>10 DEF Sound, Columns, Slot
  <2>3. /\ t[0][1].ours[1] \in Nat /\ t[1][1].ours[1] \in Nat /\ c \in Nat
    BY <1>1, CellType, KeysBoundsAssumption DEF DHKey, Conversation, Slot
  <2>4. Columns(n, c, our + 1, their, old)
    <3>1. \A i \in Slot : PairOf(n[i][0]) = <<<<c, (our + 1) - i>>, <<c, their>>>>
      BY <1>1, <1>7 DEF Slot
    <3>2. \A i \in Slot : n[i][1].ours[1] < c
      BY <1>1, <1>5, <2>1, <2>2 DEF Slot
    <3>3. n[0][0].ours[1] = c /\ n[1][0].ours[1] = c
      BY <1>7 DEF PairOf
    <3>4. n[1][1].ours[1] > 0 \/ Blank(n[1][1])
      BY <1>5 DEF Sound, Columns, Slot
    <3>5. \A i, j \in Slot : n[i][j].ours[1] > 0 \/ Blank(n[i][j])
      BY <1>1, <2>1, <3>3, <3>4 DEF Slot
    <3>6. n[0][1].ours[1] = 0
      BY <2>1
    <3>7. QED
      <4>1. old => \A i \in Slot :
                      PairOf(n[i][1]) = <<<<c, (our + 1) - i>>, <<c, their - 1>>>>
        BY <1>10
      <4>2. ~old => /\ \A i \in Slot : n[i][1].ours[1] < c
                    /\ PairOf(n[0][1]) # PairOf(n[1][1]) \/ n[0][1].ours[1] = 0
        BY <3>2, <3>6
      <4>3. QED
        BY <3>1, <3>5, <4>1, <4>2 DEF Columns
  <2>5. ASSUME NEW d \in dead \cup dh.macs
        PROVE  /\ d \in DHKey \X DHKey /\ d[1][1] > 0 /\ d[1][1] <= c
               /\ d[1][1] = c => d[1][2] <= our /\ d[2][2] <= their
               /\ \A i, j \in Slot : d # PairOf(n[i][j])
    <3>1. CASE d \in dead
      <4>1. /\ d \in DHKey \X DHKey /\ d[1][1] > 0 /\ d[1][1] <= c
            /\ d[1][1] = c => d[1][2] <= our /\ d[2][2] <= their
            /\ \A i, j \in Slot : d # PairOf(t[i][j])
        BY <3>1 DEF Sound, DeadPairs
      <4>2. d # PairOf(n[1][0]) /\ d # PairOf(n[1][1])
        BY <1>5, <4>1 DEF Slot
      <4>3. d # PairOf(n[0][0])
        BY <1>1, <1>7, <4>1
      <4>4. d # PairOf(n[0][1])
        BY <2>1, <4>1
      <4>5. QED
        BY <4>1, <4>2, <4>3, <4>4 DEF Slot
    <3>2. CASE d = PairOf(t[1][0])
      <4>1. d \in DHKey \X DHKey
        BY <1>1, <3>2, CellType DEF Slot
      <4>2. d = <<<<c, our - 1>>, <<c, their>>>>
        BY <1>6, <3>2
      <4>3. d # PairOf(n[0][1]) /\ d # PairOf(n[0][0]) /\ d # PairOf(n[1][0])
        BY <1>1, <1>7, <2>1, <4>2
      <4>4. d # PairOf(n[1][1])
        BY <1>7, <2>2, <2>3, <4>2 DEF PairOf
      <4>5. QED
        BY <1>1, <4>1, <4>2, <4>3, <4>4 DEF Slot
    <3>3. CASE d = PairOf(t[1][1]) /\ t[1][1].rcvmacused
      <4>1. d \in DHKey \X DHKey
        BY <1>1, <3>3, CellType DEF Slot
      <4>2. t[1][1].ours[1] > 0 /\ d[1] = t[1][1].ours
        BY <3>3 DEF Sound, Columns, Blank, PairOf, Slot
      <4>3. d # PairOf(n[0][1])
        BY <2>1, <4>2
      <4>4. d # PairOf(n[0][0]) /\ d # PairOf(n[1][0])
        BY <1>7, <2>2, <2>3, <4>2
      <4>5. d # PairOf(n[1][1])
        BY <1>7, <2>2, <3>3, <4>2 DEF PairOf
      <4>6. QED
        BY <2>2, <2>3, <4>1, <4>2, <4>3, <4>4, <4>5 DEF Slot
    <3>4. QED
      BY <1>4, <3>1, <3>2, <3>3, RevealedPairs
  <2>6. DeadPairs(n, c, our + 1, their, dead \cup dh.macs)
    <3>1. ASSUME NEW d \in dead \cup dh.macs
          PROVE  d[1][1] = c => d[1][2] <= our + 1 /\ d[2][2] <= their
      <4>1. d[1][2] \in Nat
        BY <2>5 DEF DHKey, KeyId
      <4>2. QED
        BY <1>1, <2>5, <4>1
    <3>2. QED
      BY <2>5, <3>1 DEF DeadPairs
  <2>7. QED
    BY <1>5, <1>8, <2>4, <2>6, Zenon DEF Sound
<1>11. QED
  BY <1>9, <1>10 DEF dh, n, oldy

\* The first table of a conversation, whatever the one before left behind.
LEMMA InstallSound ==
  ASSUME NEW p \in Ends, NEW c \in 1..MaxConversations, PartyInv(p), c = conv[p] + 1,
         NEW n \in Table,
         \A i \in Slot : /\ n[i][0] = Session(<<c, 2 - i>>, <<c, 1>>)
                         /\ n[i][1] = sesskeys[p][i][1]
  PROVE  Sound(n, c, 2, 1, FALSE, published[p] \cup saved[p])
<1> DEFINE dead == published[p] \cup saved[p]
           t == sesskeys[p]
<1>1. c \in Nat /\ MaxConversations \in Nat /\ conv[p] = c - 1
  <2>1. conv[p] \in Nat
    BY KeysBoundsAssumption DEF PartyInv, Unused, Sound, Ids
  <2>2. QED
    BY <2>1, KeysBoundsAssumption
<1>2. \A k \in 0..2 : <<c, k>> \in DHKey
  BY <1>1 DEF DHKey, Conversation, KeyId
<1>3. /\ PairOf(n[0][0]) = <<<<c, 2>>, <<c, 1>>>>
      /\ PairOf(n[1][0]) = <<<<c, 1>>, <<c, 1>>>>
  <2>1. n[0][0] = Session(<<c, 2>>, <<c, 1>>) /\ n[1][0] = Session(<<c, 1>>, <<c, 1>>)
    BY DEF Slot
  <2>2. QED
    <3>1. <<c, 2>> \in DHKey /\ <<c, 1>> \in DHKey
      BY <1>2
    <3>2. PairOf(Session(<<c, 2>>, <<c, 1>>)) = <<<<c, 2>>, <<c, 1>>>>
      BY <3>1, SessionType
    <3>3. PairOf(Session(<<c, 1>>, <<c, 1>>)) = <<<<c, 1>>, <<c, 1>>>>
      BY <3>1, SessionType
    <3>4. QED
      BY <2>1, <3>2, <3>3
<1>4. /\ t[0][1].ours[1] < c /\ t[1][1].ours[1] < c
      /\ PairOf(t[0][1]) # PairOf(t[1][1]) \/ t[0][1].ours[1] = 0
      /\ \A i \in Slot : t[i][1].ours[1] > 0 \/ Blank(t[i][1])
  <2>1. CASE Unused(p)
    <3>1. \A i, j \in Slot : Blank(t[i][j])
      BY <2>1 DEF Unused
    <3>2. Blank(t[0][1]) /\ Blank(t[1][1])
      BY <3>1 DEF Slot
    <3>3. t[0][1].ours[1] = 0 /\ t[1][1].ours[1] = 0
      BY <3>2 DEF Blank, NoDHKey
    <3>4. conv[p] = 0
      BY <2>1 DEF Unused
    <3>5. \A i \in Slot : Blank(t[i][1])
      BY <3>1 DEF Slot
    <3>6. t[0][1].ours[1] < c /\ t[1][1].ours[1] < c
      BY <1>1, <3>3, <3>4
    <3>7. QED
      BY <3>3, <3>5, <3>6
  <2>2. CASE Sound(t, conv[p], ourKeyid[p], theirKeyid[p], hasOldY[p], dead)
    <3>1. \A i \in Slot : t[i][1].ours[1] > 0 \/ Blank(t[i][1])
      BY <2>2 DEF Sound, Columns, Slot
    <3>2. CASE hasOldY[p]
      <4>1. /\ PairOf(t[0][1]) = <<<<conv[p], ourKeyid[p] - 0>>, <<conv[p], theirKeyid[p] - 1>>>>
            /\ PairOf(t[1][1]) = <<<<conv[p], ourKeyid[p] - 1>>, <<conv[p], theirKeyid[p] - 1>>>>
        BY <2>2, <3>2 DEF Sound, Columns, Slot
      <4>2. ourKeyid[p] \in Nat
        BY <2>2 DEF Sound, Ids
      <4>3. t[0][1].ours[1] = conv[p] /\ t[1][1].ours[1] = conv[p]
        BY <4>1 DEF PairOf
      <4>4. QED
        BY <1>1, <3>1, <4>1, <4>2, <4>3
    <3>3. CASE ~hasOldY[p]
      <4>1. /\ t[0][1].ours[1] < conv[p] /\ t[1][1].ours[1] < conv[p]
            /\ PairOf(t[0][1]) # PairOf(t[1][1]) \/ t[0][1].ours[1] = 0
            /\ t[0][1].ours \in DHKey /\ t[1][1].ours \in DHKey
        BY <2>2, <3>3, CellType DEF Sound, Columns, Slot
      <4>2. t[0][1].ours[1] \in Nat /\ t[1][1].ours[1] \in Nat
        BY <4>1, <1>1 DEF DHKey, Conversation
      <4>3. QED
        BY <1>1, <3>1, <4>1, <4>2
    <3>4. QED
      BY <3>2, <3>3
  <2>3. QED
    BY <2>1, <2>2 DEF PartyInv
<1>5. n[0][1] = t[0][1] /\ n[1][1] = t[1][1]
  BY DEF Slot
<1>6. Columns(n, c, 2, 1, FALSE)
  <2>1. n[0][0].ours[1] = c /\ n[1][0].ours[1] = c
    BY <1>3 DEF PairOf
  <2>2. \A i, j \in Slot : n[i][j].ours[1] > 0 \/ Blank(n[i][j])
    BY <1>1, <1>4, <1>5, <2>1 DEF Slot
  <2>3. \A i \in Slot : PairOf(n[i][0]) = <<<<c, 2 - i>>, <<c, 1>>>>
    BY <1>3 DEF Slot
  <2>4. QED
    BY <1>4, <1>5, <2>2, <2>3 DEF Columns, Slot
<1>7. ASSUME NEW d \in dead
      PROVE  /\ d \in DHKey \X DHKey /\ d[1][1] > 0 /\ d[1][1] < c
             /\ \A i, j \in Slot : d # PairOf(n[i][j])
  <2>1. Sound(t, conv[p], ourKeyid[p], theirKeyid[p], hasOldY[p], dead)
    BY <1>7 DEF PartyInv, Unused
  <2>2. /\ d \in DHKey \X DHKey /\ d[1][1] > 0 /\ d[1][1] <= conv[p]
        /\ \A i, j \in Slot : d # PairOf(t[i][j])
    BY <2>1 DEF Sound, DeadPairs
  <2>3. d[1][1] \in Nat
    BY <1>1, <2>2 DEF DHKey, Conversation
  <2>4. d[1][1] < c
    BY <1>1, <2>2, <2>3
  <2>5. d # PairOf(n[0][0]) /\ d # PairOf(n[1][0])
    BY <1>1, <1>3, <2>3, <2>4
  <2>6. d # PairOf(n[0][1]) /\ d # PairOf(n[1][1])
    BY <1>5, <2>2 DEF Slot
  <2>7. QED
    BY <2>2, <2>4, <2>5, <2>6 DEF Slot
<1>8. DeadPairs(n, c, 2, 1, dead)
  <2>1. \A d \in dead : d[1][1] <= c /\ d[1][1] # c
    <3>1. ASSUME NEW d \in dead PROVE d[1][1] <= c /\ d[1][1] # c
      <4>1. d[1][1] \in Nat /\ d[1][1] < c
        BY <1>1, <1>7 DEF DHKey, Conversation
      <4>2. QED
        BY <1>1, <4>1
    <3>2. QED
      BY <3>1
  <2>2. QED
    BY <1>7, <2>1 DEF DeadPairs
<1>9. QED
  <2>1. Ids(c, 2, 1, FALSE)
    BY DEF Ids
  <2>2. QED
    BY <1>6, <1>8, <2>1 DEF Sound

-----------------------------------------------------------------------------
(* The way between the two.                                                *)

LEMMA TwoEnds ==
  ASSUME NEW p \in Ends
  PROVE  Correspondent(p) \in Ends /\ Correspondent(p) # p
<1>1. PICK a \in Ends, b \in Ends : a # b /\ Ends = {a, b}
  BY EndsAssumption
<1>2. \E x : x \in Ends /\ x # p
  BY <1>1
<1>3. QED
  BY <1>2 DEF Correspondent

LEMMA MessageKinds ==
  ASSUME NEW m \in KeyMessage
  PROVE  /\ m.type \in {"data", "signature"}
         /\ m.type = "data" => m \in DataMessage
         /\ m.type = "signature" => m \in LastOfExchange
  BY DEF KeyMessage, DataMessage, LastOfExchange

LEMMA TailWire ==
  ASSUME NEW c, NEW w \in Seq(KeyMessage), w # <<>>, GoodWire(w, c)
  PROVE  /\ Tail(w) \in Seq(KeyMessage) /\ GoodWire(Tail(w), c)
         /\ Head(w) \in KeyMessage
         /\ Head(w).type = "data" =>
               Head(w).next = <<Head(w).by[1], Head(w).by[2] + 1>>
         /\ Head(w).type = "signature" =>
               Head(w).conv = c + 1 /\ \A d : GoodWire(Tail(w), d)
<1>1. /\ Tail(w) \in Seq(KeyMessage) /\ Head(w) = w[1] /\ 1 \in DOMAIN w /\ w[1] \in KeyMessage
      /\ DOMAIN w = 1..Len(w) /\ Len(w) \in Nat /\ DOMAIN Tail(w) = 1..(Len(w) - 1)
      /\ \A i \in DOMAIN Tail(w) : i + 1 \in DOMAIN w /\ Tail(w)[i] = w[i + 1]
  OBVIOUS
<1>2. \A i, j \in DOMAIN Tail(w) : i + 1 = j + 1 => i = j
  BY <1>1
<1>3. \A i \in DOMAIN Tail(w) : i + 1 # 1
  BY <1>1
<1>4. GoodWire(Tail(w), c)
  BY <1>1, <1>2 DEF GoodWire
<1>5. Head(w).type = "signature" => \A i \in DOMAIN Tail(w) : Tail(w)[i].type # "signature"
  BY <1>1, <1>3 DEF GoodWire
<1>6. Head(w).type = "signature" => \A d : GoodWire(Tail(w), d)
  BY <1>4, <1>5 DEF GoodWire
<1>7. QED
  BY <1>1, <1>4, <1>6 DEF GoodWire

LEMMA AppendWire ==
  ASSUME NEW c, NEW w \in Seq(KeyMessage), NEW m \in KeyMessage, GoodWire(w, c),
         m.type = "data" => m.next = <<m.by[1], m.by[2] + 1>>,
         m.type = "signature" =>
            m.conv = c + 1 /\ \A i \in DOMAIN w : w[i].type # "signature"
  PROVE  Append(w, m) \in Seq(KeyMessage) /\ GoodWire(Append(w, m), c)
<1> DEFINE n == Len(w)
           x == Append(w, m)
<1>1. /\ x \in Seq(KeyMessage) /\ DOMAIN x = 1..(n + 1) /\ n \in Nat /\ DOMAIN w = 1..n
      /\ x[n + 1] = m /\ \A i \in 1..n : x[i] = w[i]
  OBVIOUS
<1> HIDE DEF n, x
<1>2. \A i \in DOMAIN x : i = n + 1 \/ i \in DOMAIN w
  BY <1>1
<1>3. GoodWire(x, c)
  <2>1. ASSUME NEW i \in DOMAIN x, x[i].type = "signature",
               NEW j \in DOMAIN x, x[j].type = "signature"
        PROVE  x[i].conv = c + 1 /\ j = i
    <3>1. CASE m.type = "signature"
      BY <1>1, <1>2, <2>1, <3>1
    <3>2. CASE m.type # "signature"
      BY <1>1, <1>2, <2>1, <3>2 DEF GoodWire
    <3>3. QED
      BY <3>1, <3>2
  <2>2. ASSUME NEW i \in DOMAIN x, x[i].type = "data"
        PROVE  x[i].next = <<x[i].by[1], x[i].by[2] + 1>>
    BY <1>1, <1>2, <2>2 DEF GoodWire
  <2>3. QED
    BY <2>1, <2>2 DEF GoodWire
<1>4. QED
  BY <1>1, <1>3 DEF x

-----------------------------------------------------------------------------
(* A step of one party.                                                    *)

\* The new values of what p keeps.
Changes(p, c, our, their, old, t, sv, pb) ==
    /\ conv' = [conv EXCEPT ![p] = c]
    /\ ourKeyid' = [ourKeyid EXCEPT ![p] = our]
    /\ theirKeyid' = [theirKeyid EXCEPT ![p] = their]
    /\ hasOldY' = [hasOldY EXCEPT ![p] = old]
    /\ sesskeys' = [sesskeys EXCEPT ![p] = t]
    /\ saved' = [saved EXCEPT ![p] = sv]
    /\ published' = [published EXCEPT ![p] = pb]

LEMMA PartyKept ==
  ASSUME KeysInv, NEW p \in Ends, NEW c, NEW our, NEW their, NEW old \in BOOLEAN,
         NEW t, NEW sv, NEW pb, Changes(p, c, our, their, old, t, sv, pb),
         Sound(t, c, our, their, old, pb \cup sv)
  PROVE  KeyTypes' /\ \A q \in Ends : PartyInv(q)'
<1>1. /\ c \in Conversation /\ our \in Nat /\ their \in Nat /\ t \in Table
      /\ sv \in SUBSET (DHKey \X DHKey) /\ pb \in SUBSET (DHKey \X DHKey)
  BY KeysBoundsAssumption DEF Sound, Ids, DeadPairs, Conversation
<1>2. KeyTypes'
  BY <1>1 DEF KeysInv, KeyTypes, Changes
<1>3. ASSUME NEW q \in Ends PROVE PartyInv(q)'
  <2>1. CASE q = p
    <3>1. /\ conv'[q] = c /\ ourKeyid'[q] = our /\ theirKeyid'[q] = their
          /\ hasOldY'[q] = old /\ sesskeys'[q] = t /\ saved'[q] = sv /\ published'[q] = pb
      BY <2>1 DEF KeysInv, KeyTypes, Changes
    <3>2. QED
      BY <3>1, Zenon DEF PartyInv
  <2>2. CASE q # p
    <3>1. /\ conv'[q] = conv[q] /\ ourKeyid'[q] = ourKeyid[q]
          /\ theirKeyid'[q] = theirKeyid[q] /\ hasOldY'[q] = hasOldY[q]
          /\ sesskeys'[q] = sesskeys[q] /\ saved'[q] = saved[q]
          /\ published'[q] = published[q]
      BY <2>2 DEF KeysInv, KeyTypes, Changes
    <3>2. PartyInv(q)
      BY DEF KeysInv
    <3>3. QED
      BY <3>1, <3>2, Zenon DEF PartyInv, Unused
  <2>3. QED
    BY <2>1, <2>2
<1>4. QED
  BY <1>2, <1>3

\* With nothing sealed, only p's own past matters.
LEMMA UsedKept ==
  ASSUME KeysInv, NEW p \in Ends, NEW c, NEW our, NEW their, NEW old,
         NEW t, NEW sv, NEW pb, Changes(p, c, our, their, old, t, sv, pb),
         UNCHANGED used, UsedBelow(p, c, our, their, t[1][0].sendctr)
  PROVE  \A q \in Ends : UsedInv(q)'
<1>1. ASSUME NEW q \in Ends PROVE UsedInv(q)'
  <2>1. CASE q = p
    <3>1. /\ conv'[q] = c /\ ourKeyid'[q] = our /\ theirKeyid'[q] = their /\ sesskeys'[q] = t
      BY <2>1 DEF KeysInv, KeyTypes, Changes
    <3>2. QED
      BY <2>1, <3>1, Zenon DEF UsedInv, UsedBelow
  <2>2. CASE q # p
    <3>1. /\ conv'[q] = conv[q] /\ ourKeyid'[q] = ourKeyid[q]
          /\ theirKeyid'[q] = theirKeyid[q] /\ sesskeys'[q] = sesskeys[q]
      BY <2>2 DEF KeysInv, KeyTypes, Changes
    <3>2. UsedInv(q)
      BY DEF KeysInv
    <3>3. QED
      BY <3>1, <3>2, Zenon DEF UsedInv, UsedBelow
  <2>3. QED
    BY <2>1, <2>2
<1>2. QED
  BY <1>1

\* A pair with a later key has not been used.
LEMMA LaterUnused ==
  ASSUME KeysInv, NEW p \in Ends, NEW c \in Nat, NEW our \in Nat, NEW their \in Nat,
         NEW o \in Nat, NEW h \in Nat, NEW ctr, NEW later,
         UsedBelow(p, c, our, their, ctr), o >= our, h >= their, o > our \/ h > their
  PROVE  UsedBelow(p, c, o, h, later)
<1>1. SUFFICES ASSUME NEW u \in used, u[1] = p
               PROVE  /\ u[2][1] > 0 /\ u[2][1] <= c
                      /\ u[2][1] = c => u[2][2] <= o - 1 /\ u[3][2] <= h
                      /\ ~(u[2] = <<c, o - 1>> /\ u[3] = <<c, h>>)
  BY DEF UsedBelow
<1>2. /\ u[2][1] > 0 /\ u[2][1] <= c
      /\ u[2][1] = c => u[2][2] <= our - 1 /\ u[3][2] <= their
  BY <1>1 DEF UsedBelow
<1>3. u[2][2] \in Nat /\ u[3][2] \in Nat
  BY DEF KeysInv, HistoryTypes, DHKey, KeyId
<1>4. QED
  BY <1>2, <1>3

-----------------------------------------------------------------------------
(* The actions.                                                            *)

\* What the invariant says of one party.
LEMMA PartyFacts ==
  ASSUME KeysInv, NEW p \in Ends
  PROVE  /\ PartyInv(p) /\ UsedInv(p) /\ GoodWire(inTransit[p], conv[p])
         /\ conv[p] \in Conversation /\ ourKeyid[p] \in Nat /\ theirKeyid[p] \in Nat
         /\ hasOldY[p] \in BOOLEAN /\ sesskeys[p] \in Table
         /\ saved[p] \in SUBSET (DHKey \X DHKey)
         /\ published[p] \in SUBSET (DHKey \X DHKey)
         /\ inTransit[p] \in Seq(KeyMessage)
         /\ conv[p] > 0 => Sound(sesskeys[p], conv[p], ourKeyid[p], theirKeyid[p],
                                 hasOldY[p], published[p] \cup saved[p])
         /\ conv[p] \in Nat
<1>1. PartyInv(p) /\ UsedInv(p) /\ GoodWire(inTransit[p], conv[p])
  BY DEF KeysInv
<1>2. /\ conv[p] \in Conversation /\ ourKeyid[p] \in Nat /\ theirKeyid[p] \in Nat
      /\ hasOldY[p] \in BOOLEAN /\ sesskeys[p] \in Table
      /\ saved[p] \in SUBSET (DHKey \X DHKey)
      /\ published[p] \in SUBSET (DHKey \X DHKey)
      /\ inTransit[p] \in Seq(KeyMessage)
  BY DEF KeysInv, KeyTypes, WireTypes
<1>3. conv[p] > 0 => Sound(sesskeys[p], conv[p], ourKeyid[p], theirKeyid[p],
                           hasOldY[p], published[p] \cup saved[p])
  BY <1>1 DEF PartyInv, Unused
<1>4. conv[p] \in Nat
  BY <1>2, KeysBoundsAssumption DEF Conversation
<1>5. QED
  BY <1>1, <1>2, <1>3, <1>4

\* The keys of a new exchange.
LEMMA InstallKept ==
  ASSUME KeysInv, NEW p \in Ends, NEW c, c = conv[p] + 1, c <= MaxConversations,
         Install(p, c), UNCHANGED <<saved, used, published>>
  PROVE  /\ KeyTypes' /\ (\A q \in Ends : PartyInv(q)' /\ UsedInv(q)')
         /\ conv' = [conv EXCEPT ![p] = c]
<1> DEFINE t == [i \in Slot |-> Row(Session(<<c, 2 - i>>, <<c, 1>>), sesskeys[p][i][1])]
<1>0. conv[p] \in Nat
  BY PartyFacts
<1>1. c \in 1..MaxConversations /\ c \in Nat
  BY <1>0, KeysBoundsAssumption
<1>2. ASSUME NEW i \in Slot
      PROVE  /\ t[i] \in [Slot -> SessKeys]
             /\ t[i][0] = Session(<<c, 2 - i>>, <<c, 1>>) /\ t[i][1] = sesskeys[p][i][1]
  <2>1. <<c, 2 - i>> \in DHKey /\ <<c, 1>> \in DHKey
    BY <1>1, KeysBoundsAssumption DEF DHKey, Conversation, KeyId, Slot
  <2>2. Session(<<c, 2 - i>>, <<c, 1>>) \in SessKeys
    BY <2>1, SessionType
  <2>3. sesskeys[p][i][1] \in SessKeys
    BY PartyFacts, CellType DEF Slot
  <2>4. t[i] = Row(Session(<<c, 2 - i>>, <<c, 1>>), sesskeys[p][i][1])
    OBVIOUS
  <2> HIDE DEF t
  <2>5. QED
    <3>1. /\ Row(Session(<<c, 2 - i>>, <<c, 1>>), sesskeys[p][i][1]) \in [Slot -> SessKeys]
          /\ Row(Session(<<c, 2 - i>>, <<c, 1>>), sesskeys[p][i][1])[0]
                = Session(<<c, 2 - i>>, <<c, 1>>)
          /\ Row(Session(<<c, 2 - i>>, <<c, 1>>), sesskeys[p][i][1])[1] = sesskeys[p][i][1]
      BY <2>2, <2>3, RowType
    <3>2. QED
      BY <2>4, <3>1
<1>3. t \in Table
  <2>1. t = [i \in Slot |-> t[i]]
    OBVIOUS
  <2> HIDE DEF t
  <2>2. QED
    BY <1>2, <2>1 DEF Table
<1>4. Changes(p, c, 2, 1, FALSE, t, saved[p], published[p])
  BY DEF Install, Changes, KeysInv, KeyTypes
<1> HIDE DEF t
<1>5. Sound(t, c, 2, 1, FALSE, published[p] \cup saved[p])
  BY <1>1, <1>2, <1>3, InstallSound, PartyFacts
<1>6. UsedBelow(p, c, 2, 1, t[1][0].sendctr)
  <2>1. ASSUME NEW u \in used, u[1] = p
        PROVE  u[2][1] > 0 /\ u[2][1] <= c /\ u[2][1] # c /\ u[2] # <<c, 2 - 1>>
    <3>1. u[2][1] > 0 /\ u[2][1] <= conv[p]
      BY <2>1, PartyFacts DEF UsedInv, UsedBelow
    <3>2. u[2][1] \in Nat
      BY KeysBoundsAssumption DEF KeysInv, HistoryTypes, DHKey, Conversation
    <3>3. u[2][1] <= c /\ u[2][1] # c
      BY <1>0, <3>1, <3>2
    <3>4. QED
      BY <3>1, <3>3
  <2>2. QED
    BY <2>1 DEF UsedBelow
<1>7. KeyTypes' /\ \A q \in Ends : PartyInv(q)'
  BY <1>4, <1>5, PartyKept
<1>8. \A q \in Ends : UsedInv(q)'
  BY <1>4, <1>6, UsedKept
<1>9. QED
  BY <1>7, <1>8 DEF Install

LEMMA SecondKept ==
  ASSUME KeysInv, NEW p \in Ends, ExchangeSecond(p)
  PROVE  KeysInv'
<1> DEFINE q == Correspondent(p)
           c == conv[p] + 1
           m == [type |-> "signature", conv |-> c]
<1>1. /\ conv[p] = conv[q] /\ c <= MaxConversations /\ Install(p, c)
      /\ \A e \in Ends : \A i \in DOMAIN inTransit[e] : inTransit[e][i].type # "signature"
      /\ inTransit' = [inTransit EXCEPT ![q] = Append(inTransit[q], m)]
      /\ UNCHANGED <<saved, sealed, used, reused, accepted, twice, published>>
  BY DEF ExchangeSecond, NoExchangeUnderWay
<1>2. q \in Ends /\ q # p
  BY TwoEnds
<1>3. /\ KeyTypes' /\ (\A e \in Ends : PartyInv(e)' /\ UsedInv(e)')
      /\ conv' = [conv EXCEPT ![p] = c]
  BY <1>1, InstallKept
<1>4. m \in KeyMessage /\ m.type = "signature" /\ m.conv = c
  <2>1. c \in Conversation
    <3>1. conv[p] \in Nat
      BY PartyFacts
    <3>2. QED
      BY <1>1, <3>1, KeysBoundsAssumption DEF Conversation
  <2>2. QED
    BY <2>1 DEF KeyMessage, LastOfExchange
<1> HIDE DEF m
<1>5. /\ Append(inTransit[q], m) \in Seq(KeyMessage)
      /\ GoodWire(Append(inTransit[q], m), conv[q])
  BY <1>1, <1>2, <1>4, PartyFacts, AppendWire
<1>6. WireTypes' /\ \A e \in Ends : GoodWire(inTransit'[e], conv'[e])
  <2>1. inTransit'[q] = Append(inTransit[q], m) /\ conv'[q] = conv[q]
    BY <1>1, <1>2, <1>3 DEF KeysInv, KeyTypes, WireTypes
  <2>2. ASSUME NEW e \in Ends, e # q PROVE GoodWire(inTransit'[e], conv'[e])
    <3>1. inTransit'[e] = inTransit[e]
      BY <1>1, <1>2, <2>2 DEF KeysInv, WireTypes
    <3>2. GoodWire(inTransit[e], conv[e])
      BY PartyFacts
    <3>3. \A d : GoodWire(inTransit[e], d)
      BY <1>1, <3>2 DEF GoodWire
    <3>4. QED
      BY <3>1, <3>3
  <2>3. WireTypes'
    BY <1>1, <1>2, <1>5 DEF KeysInv, WireTypes
  <2>4. QED
    BY <1>5, <2>1, <2>2, <2>3
<1>7. HistoryTypes'
  BY <1>1 DEF KeysInv, HistoryTypes
<1>8. QED
  BY <1>3, <1>6, <1>7 DEF KeysInv

\* A message is taken from the wire.
LEMMA Taken ==
  ASSUME KeysInv, NEW p \in Ends, inTransit[p] # <<>>, NEW d,
         inTransit' = [inTransit EXCEPT ![p] = Tail(inTransit[p])],
         conv' = [conv EXCEPT ![p] = d],
         d = conv[p] \/ Head(inTransit[p]).type = "signature"
  PROVE  WireTypes' /\ \A e \in Ends : GoodWire(inTransit'[e], conv'[e])
<1>1. /\ Tail(inTransit[p]) \in Seq(KeyMessage) /\ GoodWire(Tail(inTransit[p]), d)
  BY PartyFacts, TailWire
<1>2. WireTypes'
  <2>1. inTransit \in [Ends -> Seq(KeyMessage)]
    BY DEF KeysInv, WireTypes
  <2> DEFINE w == Tail(inTransit[p])
  <2>2. w \in Seq(KeyMessage) /\ inTransit' = [inTransit EXCEPT ![p] = w]
    BY <1>1
  <2> HIDE DEF w
  <2>3. inTransit' \in [Ends -> Seq(KeyMessage)]
    BY <2>1, <2>2
  <2>4. QED
    BY <2>3 DEF WireTypes
<1>3. ASSUME NEW e \in Ends PROVE GoodWire(inTransit'[e], conv'[e])
  <2>1. CASE e = p
    <3>1. inTransit'[e] = Tail(inTransit[p]) /\ conv'[e] = d
      BY <2>1 DEF KeysInv, KeyTypes, WireTypes
    <3>2. QED
      BY <1>1, <3>1
  <2>2. CASE e # p
    <3>1. inTransit'[e] = inTransit[e] /\ conv'[e] = conv[e]
      BY <2>2 DEF KeysInv, KeyTypes, WireTypes
    <3>2. QED
      BY <3>1, PartyFacts
  <2>3. QED
    BY <2>1, <2>2
<1>4. QED
  BY <1>2, <1>3

LEMMA FirstKept ==
  ASSUME KeysInv, NEW p \in Ends, ExchangeFirst(p)
  PROVE  KeysInv'
<1> DEFINE c == Head(inTransit[p]).conv
<1>1. /\ inTransit[p] # <<>> /\ Head(inTransit[p]).type = "signature" /\ Install(p, c)
      /\ inTransit' = [inTransit EXCEPT ![p] = Tail(inTransit[p])]
      /\ UNCHANGED <<saved, sealed, used, reused, accepted, twice, published>>
  BY DEF ExchangeFirst
<1>2. c = conv[p] + 1 /\ Head(inTransit[p]) \in KeyMessage
  BY <1>1, PartyFacts, TailWire
<1>3. c <= MaxConversations
  BY <1>1, <1>2, MessageKinds, KeysBoundsAssumption DEF LastOfExchange, Conversation
<1> HIDE DEF c
<1>4. /\ KeyTypes' /\ (\A e \in Ends : PartyInv(e)' /\ UsedInv(e)')
      /\ conv' = [conv EXCEPT ![p] = c]
  BY <1>1, <1>2, <1>3, InstallKept
<1>5. WireTypes' /\ \A e \in Ends : GoodWire(inTransit'[e], conv'[e])
  BY <1>1, <1>4, Taken
<1>6. HistoryTypes'
  BY <1>1 DEF KeysInv, HistoryTypes
<1>7. QED
  BY <1>4, <1>5, <1>6 DEF KeysInv

\* What the keys and the past do not notice.
LEMMA KeysUntouched ==
  ASSUME KeysInv, UNCHANGED <<conv, ourKeyid, theirKeyid, hasOldY, sesskeys, saved, sealed,
                              used, reused, accepted, twice, published>>
  PROVE  KeyTypes' /\ HistoryTypes' /\ \A e \in Ends : PartyInv(e)' /\ UsedInv(e)'
<1>1. KeyTypes' /\ HistoryTypes'
  BY DEF KeysInv, KeyTypes, HistoryTypes
<1>2. ASSUME NEW e \in Ends PROVE PartyInv(e)' /\ UsedInv(e)'
  <2>1. PartyInv(e) /\ UsedInv(e)
    BY PartyFacts
  <2>2. QED
    BY <2>1, Zenon DEF PartyInv, Unused, UsedInv, UsedBelow
<1>3. QED
  BY <1>1, <1>2

LEMMA DroppedKept ==
  ASSUME KeysInv, NEW p \in Ends, RejectUnknown(p) \/ LoseData(p)
  PROVE  KeysInv'
<1>1. /\ inTransit[p] # <<>>
      /\ inTransit' = [inTransit EXCEPT ![p] = Tail(inTransit[p])]
      /\ UNCHANGED <<conv, ourKeyid, theirKeyid, hasOldY, sesskeys, saved, sealed, used,
                     reused, accepted, twice, published>>
  BY DEF RejectUnknown, LoseData, Arrived
<1>2. conv' = [conv EXCEPT ![p] = conv[p]]
  BY <1>1 DEF KeysInv, KeyTypes
<1>3. WireTypes' /\ \A e \in Ends : GoodWire(inTransit'[e], conv'[e])
  BY <1>1, <1>2, Taken
<1>4. QED
  BY <1>1, <1>3, KeysUntouched DEF KeysInv

LEMMA RepeatKept ==
  ASSUME KeysInv, NEW p \in Ends, RepeatData(p)
  PROVE  KeysInv'
<1> DEFINE m == Head(inTransit[p])
<1>1. /\ inTransit[p] # <<>> /\ m.type = "data"
      /\ inTransit' = [inTransit EXCEPT ![p] = Append(inTransit[p], m)]
      /\ UNCHANGED <<conv, ourKeyid, theirKeyid, hasOldY, sesskeys, saved, sealed, used,
                     reused, accepted, twice, published>>
  BY DEF RepeatData, Arrived
<1>2. m \in KeyMessage /\ m.next = <<m.by[1], m.by[2] + 1>>
  BY <1>1, PartyFacts, TailWire
<1> HIDE DEF m
<1>3. Append(inTransit[p], m) \in Seq(KeyMessage) /\ GoodWire(Append(inTransit[p], m), conv[p])
  BY <1>1, <1>2, PartyFacts, AppendWire
<1>4. WireTypes' /\ \A e \in Ends : GoodWire(inTransit'[e], conv'[e])
  BY <1>1, <1>3, PartyFacts DEF KeysInv, WireTypes
<1>5. QED
  BY <1>1, <1>4, KeysUntouched DEF KeysInv

\* One cell of the table is replaced by one with the same keys.
LEMMA CellReplaced ==
  ASSUME NEW t \in Table, NEW i \in Slot, NEW j \in Slot, NEW s \in SessKeys,
         PairOf(s) = PairOf(t[i][j]), s.ours[1] > 0
  PROVE  LET n == [t EXCEPT ![i][j] = s]
         IN  /\ n \in Table /\ n[i][j] = s
             /\ \A k, l \in Slot : k # i \/ l # j => n[k][l] = t[k][l]
             /\ \A k, l \in Slot : /\ PairOf(n[k][l]) = PairOf(t[k][l])
                                   /\ n[k][l].ours[1] > 0 \/ n[k][l] = t[k][l]
<1> DEFINE n == [t EXCEPT ![i][j] = s]
<1>1. n \in Table /\ n[i][j] = s /\ \A k, l \in Slot : k # i \/ l # j => n[k][l] = t[k][l]
  BY DEF Table
<1> HIDE DEF n
<1>2. ASSUME NEW k \in Slot, NEW l \in Slot
      PROVE  /\ PairOf(n[k][l]) = PairOf(t[k][l])
             /\ n[k][l].ours[1] > 0 \/ n[k][l] = t[k][l]
  <2>1. CASE k = i /\ l = j
    BY <1>1, <2>1
  <2>2. CASE k # i \/ l # j
    BY <1>1, <2>2
  <2>3. QED
    BY <2>1, <2>2
<1>3. QED
  BY <1>1, <1>2 DEF n

LEMMA SealKept ==
  ASSUME KeysInv, NEW p \in Ends, Seal(p)
  PROVE  KeysInv'
<1> DEFINE q == Correspondent(p)
           c == conv[p]
           our == ourKeyid[p]
           their == theirKeyid[p]
           old == hasOldY[p]
           dead == published[p] \cup saved[p]
           s == sesskeys[p][1][0]
           s2 == [s EXCEPT !.sendctr = s.sendctr + 1]
           t == [sesskeys[p] EXCEPT ![1][0] = s2]
           mark == <<p, s.ours, s.theirs, s.sendctr + 1>>
           m == [type |-> "data", n |-> sealed[p] + 1, by |-> s.ours,
                 for |-> s.theirs, next |-> OurKey(p, 0), ctr |-> s.sendctr + 1]
<1>1. /\ c > 0 /\ sealed[p] < MaxData
      /\ sealed' = [sealed EXCEPT ![p] = sealed[p] + 1]
      /\ sesskeys' = [sesskeys EXCEPT ![p] = t]
      /\ inTransit' = [inTransit EXCEPT ![q] = Append(inTransit[q], m)]
      /\ reused' = (reused \/ mark \in used) /\ used' = used \cup {mark}
      /\ published' = [published EXCEPT ![p] = dead]
      /\ saved' = [saved EXCEPT ![p] = {}]
      /\ UNCHANGED <<conv, ourKeyid, theirKeyid, hasOldY, accepted, twice>>
  BY DEF Seal
<1>2. /\ Sound(sesskeys[p], c, our, their, old, dead) /\ sesskeys[p] \in Table
      /\ c \in Nat /\ our \in Nat /\ their \in Nat /\ old \in BOOLEAN
  BY <1>1, PartyFacts
<1>3. /\ s \in SessKeys /\ s.ours \in DHKey /\ s.theirs \in DHKey /\ s.sendctr \in Nat
  BY <1>2, CellType DEF Slot
<1>4. s.ours = <<c, our - 1>> /\ s.theirs = <<c, their>> /\ our >= 2
  BY <1>2 DEF Sound, Columns, Ids, PairOf, Slot
<1>5. /\ s2 \in SessKeys /\ PairOf(s2) = PairOf(s) /\ s2.ours[1] > 0
      /\ s2.sendctr = s.sendctr + 1
  <2>1. /\ s2 \in SessKeys /\ s2.ours = s.ours /\ s2.theirs = s.theirs
        /\ s2.sendctr = s.sendctr + 1
    BY <1>3 DEF SessKeys
  <2> HIDE DEF s2
  <2>2. s.ours[1] = c
    BY <1>4
  <2>3. s2.ours[1] > 0
    BY <1>1, <2>1, <2>2
  <2>4. QED
    BY <2>1, <2>3 DEF PairOf
<1>6. OurKey(p, 0) = <<c, our>> /\ OurKey(p, 0) \in DHKey
  <2>1. our - 0 = our
    BY <1>2
  <2>2. OurKey(p, 0) = <<c, our>>
    BY <2>1 DEF OurKey
  <2>3. c \in Conversation
    BY PartyFacts
  <2>4. QED
    BY <1>2, <2>2, <2>3 DEF DHKey, KeyId
<1>7. m \in KeyMessage /\ m.type = "data" /\ m.next = <<m.by[1], m.by[2] + 1>>
  <2>1. sealed[p] + 1 \in 1..MaxData
    BY <1>1, KeysBoundsAssumption DEF KeysInv, HistoryTypes
  <2>2. m \in DataMessage
    BY <1>3, <1>6, <2>1 DEF DataMessage
  <2>3. OurKey(p, 0) = <<s.ours[1], s.ours[2] + 1>>
    BY <1>2, <1>4, <1>6
  <2>4. QED
    BY <2>2, <2>3 DEF KeyMessage
<1>8. mark \notin used
  <2>1. UsedBelow(p, c, our, their, s.sendctr)
    BY PartyFacts DEF UsedInv
  <2>2. \A u \in used : u[1] = p /\ u[2] = <<c, our - 1>> /\ u[3] = <<c, their>>
                            => u[4] <= s.sendctr
    BY <2>1 DEF UsedBelow
  <2>3. /\ mark[1] = p /\ mark[2] = <<c, our - 1>> /\ mark[3] = <<c, their>>
        /\ mark[4] = s.sendctr + 1
    BY <1>4
  <2> HIDE DEF mark
  <2>4. ~(mark[4] <= s.sendctr)
    BY <1>3, <2>3
  <2>5. QED
    BY <2>2, <2>3, <2>4
<1> HIDE DEF m, s2
<1>9. /\ t \in Table /\ t[1][0] = s2
      /\ \A k, l \in Slot : /\ PairOf(t[k][l]) = PairOf(sesskeys[p][k][l])
                            /\ t[k][l].ours[1] > 0 \/ t[k][l] = sesskeys[p][k][l]
  BY <1>2, <1>5, CellReplaced DEF Slot
<1> HIDE DEF t
<1>10. KeyTypes' /\ \A e \in Ends : PartyInv(e)'
  <2>1. Sound(t, c, our, their, old, dead)
    BY <1>2, <1>9, SamePairs
  <2>2. Changes(p, c, our, their, old, t, {}, dead)
    BY <1>1 DEF Changes, KeysInv, KeyTypes
  <2>3. dead \cup {} = dead
    OBVIOUS
  <2>4. QED
    BY <1>2, <2>1, <2>2, <2>3, PartyKept
<1>11. ASSUME NEW e \in Ends PROVE UsedInv(e)'
  <2>1. CASE e # p
    <3>1. /\ conv'[e] = conv[e] /\ ourKeyid'[e] = ourKeyid[e]
          /\ theirKeyid'[e] = theirKeyid[e] /\ sesskeys'[e] = sesskeys[e]
          /\ \A u \in used' : u[1] = e => u \in used
      BY <1>1, <2>1 DEF KeysInv, KeyTypes
    <3>2. UsedInv(e)
      BY PartyFacts
    <3>3. QED
      BY <3>1, <3>2, Zenon DEF UsedInv, UsedBelow
  <2>2. CASE e = p
    <3>1. /\ conv'[p] = c /\ ourKeyid'[p] = our /\ theirKeyid'[p] = their
          /\ sesskeys'[p][1][0].sendctr = s.sendctr + 1
      BY <1>1, <1>5, <1>9 DEF KeysInv, KeyTypes
    <3>2. ASSUME NEW u \in used', u[1] = p
          PROVE  /\ u[2][1] > 0 /\ u[2][1] <= c
                 /\ u[2][1] = c => u[2][2] <= our - 1 /\ u[3][2] <= their
                 /\ u[2] = <<c, our - 1>> /\ u[3] = <<c, their>> => u[4] <= s.sendctr + 1
      <4>1. CASE u \in used
        <5>1. /\ u[2][1] > 0 /\ u[2][1] <= c
              /\ u[2][1] = c => u[2][2] <= our - 1 /\ u[3][2] <= their
              /\ u[2] = <<c, our - 1>> /\ u[3] = <<c, their>> => u[4] <= s.sendctr
          BY <3>2, <4>1, PartyFacts DEF UsedInv, UsedBelow
        <5>2. u[4] \in Nat
          BY <4>1 DEF KeysInv, HistoryTypes
        <5>3. QED
          BY <1>3, <5>1, <5>2
      <4>2. CASE u = mark
        <5>1. u[2] = <<c, our - 1>> /\ u[3] = <<c, their>> /\ u[4] = s.sendctr + 1
          BY <1>4, <4>2
        <5>2. QED
          BY <1>1, <1>2, <1>3, <5>1
      <4>3. QED
        BY <1>1, <3>2, <4>1, <4>2
    <3>3. QED
      BY <2>2, <3>1, <3>2, Zenon DEF UsedInv, UsedBelow
  <2>3. QED
    BY <2>1, <2>2
<1>12. WireTypes' /\ \A e \in Ends : GoodWire(inTransit'[e], conv'[e])
  <2>1. q \in Ends
    BY TwoEnds
  <2>2. /\ Append(inTransit[q], m) \in Seq(KeyMessage)
        /\ GoodWire(Append(inTransit[q], m), conv[q])
    BY <1>7, <2>1, PartyFacts, AppendWire
  <2>3. QED
    BY <1>1, <2>1, <2>2, PartyFacts DEF KeysInv, WireTypes
<1>13. HistoryTypes'
  <2>1. mark \in Ends \X DHKey \X DHKey \X Nat
    BY <1>3
  <2>2. sealed' \in [Ends -> 0..MaxData]
    <3>1. sealed[p] + 1 \in 0..MaxData
      BY <1>1, KeysBoundsAssumption DEF KeysInv, HistoryTypes
    <3>2. QED
      BY <1>1, <3>1 DEF KeysInv, HistoryTypes
  <2> HIDE DEF mark
  <2>3. reused' = FALSE
    BY <1>1, <1>8, Zenon DEF KeysInv, HistoryTypes
  <2>4. QED
    BY <1>1, <2>1, <2>2, <2>3 DEF KeysInv, HistoryTypes
<1>14. QED
  BY <1>10, <1>11, <1>12, <1>13 DEF KeysInv

-----------------------------------------------------------------------------
(* Messages that are accepted, or replayed.                                *)

\* A genuine message names two keys of the table, which are of this
\* conversation; if it is from their newest key, it announces the next one.
LEMMA GenuineFacts ==
  ASSUME KeysInv, NEW p \in Ends, Arrived(p), Genuine(p, Head(inTransit[p]))
  PROVE  LET m == Head(inTransit[p])
             i == Mine(p, m)
             j == Yours(p, m)
         IN  /\ m \in DataMessage /\ i \in Slot /\ j \in Slot /\ conv[p] > 0
             /\ sesskeys[p][i][j].ours[1] = conv[p]
             /\ j = 0 => m.next = <<conv[p], theirKeyid[p] + 1>>
<1> DEFINE m == Head(inTransit[p])
           i == Mine(p, m)
           j == Yours(p, m)
           c == conv[p]
<1>1. /\ m \in DataMessage /\ m.next = <<m.by[1], m.by[2] + 1>>
  BY PartyFacts, TailWire, MessageKinds DEF Arrived
<1>2. /\ theirKeyid[p] > 0 /\ i \in Slot /\ j \in Slot /\ (j = 1 => hasOldY[p])
      /\ sesskeys[p][i][j].ours = m.for /\ sesskeys[p][i][j].theirs = m.by
  BY DEF Genuine, Known
<1> HIDE DEF m, i, j
<1>3. conv[p] > 0
  <2>1. ~Unused(p)
    BY <1>2 DEF Unused
  <2>2. c \in 1..MaxConversations
    BY <2>1, PartyFacts DEF PartyInv, Sound, Ids
  <2>3. QED
    BY <2>2, KeysBoundsAssumption
<1>4. /\ Sound(sesskeys[p], c, ourKeyid[p], theirKeyid[p], hasOldY[p],
              published[p] \cup saved[p])
      /\ theirKeyid[p] \in Nat
  BY <1>3, PartyFacts
<1>5. j = 0 \/ j = 1
  BY <1>2 DEF Slot
<1>6. CASE j = 0
  <2>1. PairOf(sesskeys[p][i][0]) = <<<<c, ourKeyid[p] - i>>, <<c, theirKeyid[p]>>>>
    BY <1>2, <1>4 DEF Sound, Columns
  <2>2. sesskeys[p][i][j].ours[1] = c /\ m.by = <<c, theirKeyid[p]>>
    BY <1>2, <1>6, <2>1 DEF PairOf
  <2>3. QED
    BY <1>1, <1>2, <1>3, <2>2 DEF m, i, j
<1>7. CASE j = 1
  <2>1. PairOf(sesskeys[p][i][1]) = <<<<c, ourKeyid[p] - i>>, <<c, theirKeyid[p] - 1>>>>
    BY <1>2, <1>4, <1>7 DEF Sound, Columns
  <2>2. sesskeys[p][i][j].ours[1] = c
    BY <1>7, <2>1 DEF PairOf
  <2>3. QED
    BY <1>1, <1>2, <1>3, <1>7, <2>2 DEF m, i, j
<1>8. QED
  BY <1>5, <1>6, <1>7

LEMMA MarkedCell ==
  ASSUME NEW s \in SessKeys, NEW ctr \in Nat
  PROVE  /\ Marked(s, ctr) \in SessKeys /\ PairOf(Marked(s, ctr)) = PairOf(s)
         /\ Marked(s, ctr).ours = s.ours /\ Marked(s, ctr).sendctr = s.sendctr
  BY DEF Marked, SessKeys, PairOf

MarkedAt(t, i, j, ctr) == [t EXCEPT ![i][j] = Marked(t[i][j], ctr)]

LEMMA MarkedTable ==
  ASSUME NEW t \in Table, NEW i \in Slot, NEW j \in Slot, NEW ctr \in Nat, NEW n,
         n = MarkedAt(t, i, j, ctr), t[i][j].ours[1] > 0
  PROVE  /\ n \in Table /\ n[i][j] = Marked(t[i][j], ctr)
         /\ \A k, l \in Slot : k # i \/ l # j => n[k][l] = t[k][l]
         /\ \A k, l \in Slot : /\ PairOf(n[k][l]) = PairOf(t[k][l])
                               /\ n[k][l].ours[1] > 0 \/ n[k][l] = t[k][l]
<1> DEFINE x == Marked(t[i][j], ctr)
<1>1. x \in SessKeys /\ PairOf(x) = PairOf(t[i][j]) /\ x.ours[1] > 0
  BY CellType, MarkedCell
<1>2. n = [t EXCEPT ![i][j] = x]
  BY DEF MarkedAt
<1> HIDE DEF x
<1>3. n \in Table /\ n[i][j] = x /\ \A k, l \in Slot : k # i \/ l # j => n[k][l] = t[k][l]
  BY <1>1, <1>2 DEF Table
<1>4. ASSUME NEW k \in Slot, NEW l \in Slot
      PROVE  /\ PairOf(n[k][l]) = PairOf(t[k][l])
             /\ n[k][l].ours[1] > 0 \/ n[k][l] = t[k][l]
  BY <1>1, <1>3
<1>5. QED
  BY <1>3, <1>4 DEF x

\* The table with the key of the message marked.
LEMMA MarkedSound ==
  ASSUME KeysInv, NEW p \in Ends, Arrived(p), Genuine(p, Head(inTransit[p])), NEW ctr \in Nat
  PROVE  LET m == Head(inTransit[p])
             i == Mine(p, m)
             j == Yours(p, m)
             t == [sesskeys[p] EXCEPT ![i][j] = Marked(sesskeys[p][i][j], ctr)]
         IN  /\ Sound(t, conv[p], ourKeyid[p], theirKeyid[p], hasOldY[p],
                       published[p] \cup saved[p])
             /\ t[1][0].sendctr = sesskeys[p][1][0].sendctr
<1> DEFINE m == Head(inTransit[p])
           i == Mine(p, m)
           j == Yours(p, m)
           s == sesskeys[p][i][j]
           t == [sesskeys[p] EXCEPT ![i][j] = Marked(s, ctr)]
<1>1. i \in Slot /\ j \in Slot /\ conv[p] > 0 /\ s.ours[1] = conv[p]
  BY GenuineFacts
<1> HIDE DEF m, i, j
<1>2. sesskeys[p] \in Table /\ s \in SessKeys /\ hasOldY[p] \in BOOLEAN
      /\ Sound(sesskeys[p], conv[p], ourKeyid[p], theirKeyid[p], hasOldY[p],
               published[p] \cup saved[p])
  BY <1>1, PartyFacts, CellType
<1>3. /\ Marked(s, ctr) \in SessKeys /\ PairOf(Marked(s, ctr)) = PairOf(s)
      /\ Marked(s, ctr).ours[1] > 0 /\ Marked(s, ctr).sendctr = s.sendctr
  BY <1>1, <1>2, MarkedCell
<1>4. /\ t \in Table /\ t[i][j] = Marked(s, ctr)
      /\ \A k, l \in Slot : k # i \/ l # j => t[k][l] = sesskeys[p][k][l]
      /\ \A k, l \in Slot : /\ PairOf(t[k][l]) = PairOf(sesskeys[p][k][l])
                            /\ t[k][l].ours[1] > 0 \/ t[k][l] = sesskeys[p][k][l]
  <2> DEFINE tab == sesskeys[p]
  <2>1. tab \in Table /\ tab[i][j].ours[1] > 0 /\ t = MarkedAt(tab, i, j, ctr)
    BY <1>1, <1>2 DEF MarkedAt
  <2>2. s = tab[i][j]
    OBVIOUS
  <2> HIDE DEF tab, s, t
  <2>3. i \in Slot /\ j \in Slot
    BY <1>1
  <2>4. /\ t \in Table /\ t[i][j] = Marked(tab[i][j], ctr)
        /\ \A k, l \in Slot : k # i \/ l # j => t[k][l] = tab[k][l]
        /\ \A k, l \in Slot : /\ PairOf(t[k][l]) = PairOf(tab[k][l])
                              /\ t[k][l].ours[1] > 0 \/ t[k][l] = tab[k][l]
    BY <2>1, <2>3, MarkedTable
  <2>5. QED
    BY <2>1, <2>2, <2>4 DEF tab
<1> HIDE DEF t
<1>5. t[1][0].sendctr = sesskeys[p][1][0].sendctr
  BY <1>3, <1>4 DEF Slot
<1>6. Sound(t, conv[p], ourKeyid[p], theirKeyid[p], hasOldY[p], published[p] \cup saved[p])
  BY <1>2, <1>4, SamePairs
<1>7. QED
  BY <1>5, <1>6 DEF t, i, j, m

\* A replayed message leaves everything but the mark and the wire.
LEMMA ReplayKept ==
  ASSUME KeysInv, NEW p \in Ends, RejectReplay(p)
  PROVE  KeysInv'
<1> DEFINE m == Head(inTransit[p])
           i == Mine(p, m)
           j == Yours(p, m)
           ctr == sesskeys[p][i][j].rcvctr
           t == [sesskeys[p] EXCEPT ![i][j] = Marked(sesskeys[p][i][j], ctr)]
<1>1. /\ Arrived(p) /\ Genuine(p, m)
      /\ sesskeys' = [sesskeys EXCEPT ![p] = t]
      /\ inTransit' = [inTransit EXCEPT ![p] = Tail(inTransit[p])]
      /\ UNCHANGED <<conv, ourKeyid, theirKeyid, hasOldY, saved, sealed, used,
                     reused, accepted, twice, published>>
  BY DEF RejectReplay
<1>2. i \in Slot /\ j \in Slot
  BY <1>1, GenuineFacts
<1>3. ctr \in Nat
  BY <1>2, PartyFacts, CellType DEF SessKeys
<1>4. /\ Sound(t, conv[p], ourKeyid[p], theirKeyid[p], hasOldY[p],
               published[p] \cup saved[p])
      /\ t[1][0].sendctr = sesskeys[p][1][0].sendctr
  <2> HIDE DEF ctr
  <2>1. QED
    BY <1>1, <1>3, MarkedSound
<1> HIDE DEF t
<1>5. Changes(p, conv[p], ourKeyid[p], theirKeyid[p], hasOldY[p], t, saved[p], published[p])
  BY <1>1 DEF Changes, KeysInv, KeyTypes
<1>6. KeyTypes' /\ \A e \in Ends : PartyInv(e)'
  <2>1. hasOldY[p] \in BOOLEAN
    BY PartyFacts
  <2>2. QED
    BY <1>4, <1>5, <2>1, PartyKept
<1>7. \A e \in Ends : UsedInv(e)'
  <2>1. UsedBelow(p, conv[p], ourKeyid[p], theirKeyid[p], t[1][0].sendctr)
    BY <1>4, PartyFacts DEF UsedInv
  <2>2. QED
    BY <1>1, <1>5, <2>1, UsedKept
<1>8. WireTypes' /\ \A e \in Ends : GoodWire(inTransit'[e], conv'[e])
  <2>1. conv' = [conv EXCEPT ![p] = conv[p]]
    BY <1>1 DEF KeysInv, KeyTypes
  <2>2. inTransit[p] # <<>>
    BY <1>1 DEF Arrived
  <2>3. QED
    BY <1>1, <2>1, <2>2, Taken
<1>9. HistoryTypes'
  BY <1>1 DEF KeysInv, HistoryTypes
<1>10. QED
  BY <1>6, <1>7, <1>8, <1>9 DEF KeysInv

\* An accepted message: the mark, then the rotations it calls for.
LEMMA AcceptKept ==
  ASSUME KeysInv, NEW p \in Ends, AcceptData(p)
  PROVE  KeysInv'
<1> DEFINE m == Head(inTransit[p])
           i == Mine(p, m)
           j == Yours(p, m)
           c == conv[p]
           their == theirKeyid[p]
           old == hasOldY[p]
           t0 == [sesskeys[p] EXCEPT ![i][j] = Marked(sesskeys[p][i][j], m.ctr)]
           oldy == IF old THEN TheirKey(p, 1) ELSE NoDHKey
           dh == IF i = 0
                 THEN RotateDHKeys(t0, <<c, ourKeyid[p] + 1>>, TheirKey(p, 0), oldy)
                 ELSE [table |-> t0, macs |-> {}]
           our == IF i = 0 THEN ourKeyid[p] + 1 ELSE ourKeyid[p]
           y == IF j = 0
                THEN RotateYKeys(dh.table, <<c, our>>, <<c, our - 1>>, m.next)
                ELSE [table |-> dh.table, macs |-> {}]
           their2 == IF j = 0 THEN their + 1 ELSE their
           old2 == old \/ j = 0
           dead == published[p] \cup saved[p]
           sv == (saved[p] \cup dh.macs) \cup y.macs
<1>1. /\ Arrived(p) /\ Genuine(p, m)
      /\ sesskeys' = [sesskeys EXCEPT ![p] = y.table]
      /\ ourKeyid' = [ourKeyid EXCEPT ![p] = our]
      /\ theirKeyid' = [theirKeyid EXCEPT ![p] = their2]
      /\ hasOldY' = [hasOldY EXCEPT ![p] = old2]
      /\ saved' = [saved EXCEPT ![p] = sv]
      /\ twice' = (twice \/ m.n \in accepted[p])
      /\ accepted' = [accepted EXCEPT ![p] = accepted[p] \cup {m.n}]
      /\ inTransit' = [inTransit EXCEPT ![p] = Tail(inTransit[p])]
      /\ UNCHANGED <<conv, sealed, used, reused, published>>
  BY DEF AcceptData, Acceptable
<1>2. /\ m \in DataMessage /\ i \in Slot /\ j \in Slot /\ c > 0
      /\ j = 0 => m.next = <<c, their + 1>>
  BY <1>1, GenuineFacts
<1>3. m.ctr \in Nat /\ m.n \in 1..MaxData
  BY <1>2 DEF DataMessage
<1>4. Sound(t0, c, ourKeyid[p], their, old, dead) /\ t0[1][0].sendctr = sesskeys[p][1][0].sendctr
  BY <1>1, <1>3, MarkedSound
<1>5. /\ old \in BOOLEAN /\ ourKeyid[p] \in Nat /\ their \in Nat /\ c \in Nat
      /\ published[p] \in SUBSET (DHKey \X DHKey) /\ saved[p] \in SUBSET (DHKey \X DHKey)
      /\ UsedBelow(p, c, ourKeyid[p], their, sesskeys[p][1][0].sendctr)
  BY PartyFacts DEF UsedInv
<1>6. TheirKey(p, 0) = <<c, their>> /\ oldy = IF old THEN <<c, their - 1>> ELSE NoDHKey
  <2>1. their - 0 = their
    BY <1>5
  <2>2. QED
    BY <2>1 DEF TheirKey
<1> HIDE DEF m, i, j, t0, oldy
<1>7. Sound(dh.table, c, our, their, old, dead \cup dh.macs)
  <2>1. CASE i = 0
    <3> DEFINE rot == RotateDHKeys(t0, <<c, ourKeyid[p] + 1>>, <<c, their>>,
                                   IF old THEN <<c, their - 1>> ELSE NoDHKey)
    <3>1. Sound(rot.table, c, ourKeyid[p] + 1, their, old, dead \cup rot.macs)
      <4>1. Sound(t0, c, ourKeyid[p], their, old, dead) /\ old \in BOOLEAN
        BY <1>4, <1>5
      <4> HIDE DEF dead, old, c, their
      <4>2. QED
        BY <4>1, DHSound, SMTT(60)
    <3>2. dh = rot /\ our = ourKeyid[p] + 1
      BY <1>6, <2>1
    <3> HIDE DEF rot, dh, our
    <3>3. QED
      BY <3>1, <3>2
  <2>2. CASE i # 0
    <3>1. dead \cup {} = dead
      OBVIOUS
    <3>2. dh.table = t0 /\ dh.macs = {} /\ our = ourKeyid[p]
      BY <2>2
    <3>3. QED
      BY <1>4, <3>1, <3>2
  <2>3. QED
    BY <2>1, <2>2
<1>8. i # 0 => dh.table = t0 /\ our = ourKeyid[p]
  OBVIOUS
<1>9. i = 0 => our = ourKeyid[p] + 1
  OBVIOUS
<1> HIDE DEF dh, our
<1>10. Sound(y.table, c, our, their2, old2, (dead \cup dh.macs) \cup y.macs)
  <2>1. CASE j = 0
    <3>1. y = RotateYKeys(dh.table, <<c, our>>, <<c, our - 1>>, <<c, their + 1>>)
      BY <1>2, <2>1
    <3>2. their2 = their + 1 /\ old2 = TRUE
      BY <2>1
    <3> HIDE DEF y, their2, old2
    <3>3. QED
      BY <1>5, <1>7, <3>1, <3>2, YSound
  <2>2. CASE j # 0
    <3>1. (dead \cup dh.macs) \cup {} = dead \cup dh.macs
      OBVIOUS
    <3>2. y.table = dh.table /\ y.macs = {} /\ their2 = their /\ old2 = old
      BY <1>5, <2>2
    <3>3. QED
      BY <1>7, <3>1, <3>2
  <2>3. QED
    BY <2>1, <2>2
<1>11. j # 0 => y.table = dh.table
  OBVIOUS
<1> HIDE DEF y
<1>12. /\ their2 >= their /\ their2 \in Nat /\ our \in Nat /\ our >= ourKeyid[p]
       /\ (j = 0 => their2 > their) /\ (i = 0 => our > ourKeyid[p])
  BY <1>2, <1>5, <1>8, <1>9 DEF Slot
<1>13. old2 \in BOOLEAN
  BY <1>5
<1> HIDE DEF their2, old2
<1>14. Changes(p, c, our, their2, old2, y.table, sv, published[p])
  BY <1>1 DEF Changes, KeysInv, KeyTypes
<1>15. KeyTypes' /\ \A e \in Ends : PartyInv(e)'
  <2>1. (dead \cup dh.macs) \cup y.macs = published[p] \cup sv
    OBVIOUS
  <2>2. Sound(y.table, c, our, their2, old2, published[p] \cup sv)
    BY <1>10, <2>1
  <2> HIDE DEF sv
  <2>3. QED
    BY <1>13, <1>14, <2>2, PartyKept
<1> HIDE DEF sv
<1>16. \A e \in Ends : UsedInv(e)'
  <2>1. CASE i = 0 \/ j = 0
    <3>1. our > ourKeyid[p] \/ their2 > their
      BY <1>12, <2>1
    <3>2. UsedBelow(p, c, our, their2, y.table[1][0].sendctr)
      BY <1>5, <1>12, <3>1, LaterUnused
    <3>3. QED
      BY <1>1, <1>14, <3>2, UsedKept
  <2>2. CASE i # 0 /\ j # 0
    <3>1. y.table = t0 /\ our = ourKeyid[p] /\ their2 = their
      BY <1>8, <1>11, <2>2 DEF their2
    <3>2. UsedBelow(p, c, our, their2, y.table[1][0].sendctr)
      BY <1>4, <1>5, <3>1
    <3>3. QED
      BY <1>1, <1>14, <3>2, UsedKept
  <2>3. QED
    BY <2>1, <2>2
<1>17. WireTypes' /\ \A e \in Ends : GoodWire(inTransit'[e], conv'[e])
  <2>1. conv' = [conv EXCEPT ![p] = c] /\ inTransit[p] # <<>>
    BY <1>1 DEF KeysInv, KeyTypes, Arrived
  <2>2. QED
    BY <1>1, <2>1, Taken
<1>18. HistoryTypes'
  <2>1. accepted' \in [Ends -> SUBSET (1..MaxData)]
    BY <1>1, <1>3 DEF KeysInv, HistoryTypes
  <2>2. twice' \in BOOLEAN
    BY <1>1 DEF KeysInv, HistoryTypes
  <2>3. QED
    BY <1>1, <2>1, <2>2 DEF KeysInv, HistoryTypes
<1>19. QED
  BY <1>15, <1>16, <1>17, <1>18 DEF KeysInv

-----------------------------------------------------------------------------
(* The theorems.                                                           *)

LEMMA InitKeys == KeysInit => KeysInv
<1> SUFFICES ASSUME KeysInit PROVE KeysInv
  OBVIOUS
<1> DEFINE blank == [i \in Slot |-> [j \in Slot |-> BlankKeys]]
<1>1. blank \in Table /\ \A i, j \in Slot : Blank(blank[i][j])
  BY BlankType DEF Table
<1>2. 0 \in Conversation /\ 0 \in 0..MaxData
  BY KeysBoundsAssumption DEF Conversation
<1> HIDE DEF blank
<1>3. sesskeys = [p \in Ends |-> blank]
  BY DEF KeysInit, blank
<1>4. KeyTypes
  BY <1>1, <1>2, <1>3 DEF KeysInit, KeyTypes
<1>5. HistoryTypes
  BY <1>2 DEF KeysInit, HistoryTypes
<1>6. <<>> \in Seq(KeyMessage) /\ DOMAIN <<>> = {}
  OBVIOUS
<1>7. WireTypes
  BY <1>6 DEF KeysInit, WireTypes
<1>8. ASSUME NEW p \in Ends PROVE PartyInv(p) /\ UsedInv(p) /\ GoodWire(inTransit[p], conv[p])
  <2>1. Unused(p)
    BY <1>1, <1>3 DEF KeysInit, Unused
  <2>2. UsedInv(p)
    BY DEF KeysInit, UsedInv, UsedBelow
  <2>3. GoodWire(inTransit[p], conv[p])
    BY <1>6 DEF KeysInit, GoodWire
  <2>4. QED
    BY <2>1, <2>2, <2>3 DEF PartyInv
<1>9. QED
  BY <1>4, <1>5, <1>7, <1>8 DEF KeysInv

LEMMA KeysKept == KeysInv /\ [KeysNext]_keysVars => KeysInv'
<1> SUFFICES ASSUME KeysInv, [KeysNext]_keysVars PROVE KeysInv'
  OBVIOUS
<1>1. ASSUME NEW p \in Ends, ExchangeSecond(p) PROVE KeysInv'
  BY <1>1, SecondKept
<1>2. ASSUME NEW p \in Ends, ExchangeFirst(p) PROVE KeysInv'
  BY <1>2, FirstKept
<1>3. ASSUME NEW p \in Ends, Seal(p) PROVE KeysInv'
  BY <1>3, SealKept
<1>4. ASSUME NEW p \in Ends, AcceptData(p) PROVE KeysInv'
  BY <1>4, AcceptKept
<1>5. ASSUME NEW p \in Ends, RejectReplay(p) PROVE KeysInv'
  BY <1>5, ReplayKept
<1>6. ASSUME NEW p \in Ends, RejectUnknown(p) \/ LoseData(p) PROVE KeysInv'
  BY <1>6, DroppedKept
<1>7. ASSUME NEW p \in Ends, RepeatData(p) PROVE KeysInv'
  BY <1>7, RepeatKept
<1>8. CASE UNCHANGED keysVars
  <2>1. KeyTypes' /\ HistoryTypes' /\ \A e \in Ends : PartyInv(e)' /\ UsedInv(e)'
    BY <1>8, KeysUntouched DEF keysVars
  <2>2. WireTypes' /\ \A e \in Ends : GoodWire(inTransit'[e], conv'[e])
    BY <1>8, PartyFacts DEF KeysInv, WireTypes, keysVars
  <2>3. QED
    BY <2>1, <2>2 DEF KeysInv
<1>9. QED
  BY <1>1, <1>2, <1>3, <1>4, <1>5, <1>6, <1>7, <1>8 DEF KeysNext

\* The table is sound, and its counters run ahead of everything sealed, in
\* every reachable state.
THEOREM KeysInvariant == KeysSpec => []KeysInv
<1>1. KeysInit => KeysInv
  BY InitKeys
<1>2. KeysInv /\ [KeysNext]_keysVars => KeysInv'
  BY KeysKept
<1>3. QED
  BY <1>1, <1>2, PTL DEF KeysSpec

\* Types hold, and the table is in step with the key ids: rotate_dh_keys and
\* rotate_y_keys, in any order, leave every pair of keys where accept_data
\* looks for it.
THEOREM KeysTypeCorrect == KeysSpec => []KeysTypeOK
<1>1. KeysInv => KeysTypeOK
  <2> SUFFICES ASSUME KeysInv PROVE KeysTypeOK
    OBVIOUS
  <2>1. ASSUME NEW p \in Ends, conv[p] > 0, NEW i \in Slot, NEW j \in Slot, j = 0 \/ hasOldY[p]
        PROVE  /\ sesskeys[p][i][j].ours = OurKey(p, i)
               /\ sesskeys[p][i][j].theirs = TheirKey(p, j)
    <3>1. Columns(sesskeys[p], conv[p], ourKeyid[p], theirKeyid[p], hasOldY[p])
      BY <2>1, PartyFacts DEF Sound
    <3>2. theirKeyid[p] \in Nat
      BY PartyFacts
    <3>3. j = 0 \/ j = 1
      BY DEF Slot
    <3>4. CASE j = 0
      <4>1. PairOf(sesskeys[p][i][0]) = <<<<conv[p], ourKeyid[p] - i>>, <<conv[p], theirKeyid[p]>>>>
        BY <3>1 DEF Columns
      <4>2. theirKeyid[p] - 0 = theirKeyid[p]
        BY <3>2
      <4>3. QED
        BY <3>4, <4>1, <4>2 DEF PairOf, OurKey, TheirKey
    <3>5. CASE j = 1
      <4>1. hasOldY[p]
        BY <2>1, <3>5
      <4>2. PairOf(sesskeys[p][i][1])
               = <<<<conv[p], ourKeyid[p] - i>>, <<conv[p], theirKeyid[p] - 1>>>>
        BY <3>1, <4>1 DEF Columns
      <4>3. QED
        BY <3>5, <4>2 DEF PairOf, OurKey, TheirKey
    <3>6. QED
      BY <3>3, <3>4, <3>5
  <2>2. QED
    BY <2>1 DEF KeysTypeOK, KeysInv, KeyTypes, WireTypes, HistoryTypes, KeyMessage, KeyId
<1>2. QED
  BY <1>1, KeysInvariant, PTL

\* No two messages are sealed with the same keys and counter, however the
\* rotations of the two sides interleave and whatever is lost or repeated.
THEOREM NoCounterReused == KeysSpec => []NoCounterReuse
<1>1. KeysInv => NoCounterReuse
  BY DEF KeysInv, HistoryTypes, NoCounterReuse
<1>2. QED
  BY <1>1, KeysInvariant, PTL

\* A MAC key is published only once its owner has no session keys with it.
THEOREM PublishedKeysDead == KeysSpec => []PublishedIsDead
<1>1. KeysInv => PublishedIsDead
  <2> SUFFICES ASSUME KeysInv, NEW p \in Ends, NEW i \in Slot, NEW j \in Slot
               PROVE  PairOf(sesskeys[p][i][j]) \notin published[p] \cup saved[p]
    BY DEF PublishedIsDead, Cells, PairOf
  <2>1. PartyInv(p)
    BY PartyFacts
  <2>2. CASE Unused(p)
    BY <2>2 DEF Unused
  <2>3. CASE Sound(sesskeys[p], conv[p], ourKeyid[p], theirKeyid[p], hasOldY[p],
                   published[p] \cup saved[p])
    BY <2>3 DEF Sound, DeadPairs
  <2>4. QED
    BY <2>1, <2>2, <2>3 DEF PartyInv
<1>2. QED
  BY <1>1, KeysInvariant, PTL

-----------------------------------------------------------------------------
(* What is on its way, and how far the two parties are apart.              *)

Wire(p) == {inTransit[p][i] : i \in DOMAIN inTransit[p]}
Letters(p) == {m \in Wire(p) : m.type = "data"}

\* The number of a message tells it from others, and is known to be used.
Numbered(p) ==
    /\ \A a \in accepted[p] : a <= sealed[Correspondent(p)]
    /\ \A m \in Letters(p) : m.n <= sealed[Correspondent(p)]
    /\ \A m, n \in Letters(p) : m.n = n.n => m = n

\* What the sender of a message still has of it: it has not gone back.
Sender(p) == LET q == Correspondent(p) IN \A m \in Letters(p) :
    /\ m.by[1] = m.for[1] /\ m.by[1] > 0 /\ m.by[1] <= conv[q]
    /\ m.by[2] >= 1 /\ m.for[2] >= 1
    /\ m.by[1] = conv[q] => m.by[2] <= ourKeyid[q] - 1 /\ m.for[2] <= theirKeyid[q]

\* The receiver is not behind a message of its conversation, and not more than
\* one key ahead of one that follows all it has accepted.
Latest(p, m) == \A a \in accepted[p] : a < m.n
Receiver(p) == \A m \in Letters(p) : m.by[1] = conv[p] =>
    /\ m.by[2] <= theirKeyid[p] /\ m.for[2] <= ourKeyid[p]
    /\ Latest(p, m) => m.by[2] >= theirKeyid[p] - 1 /\ m.for[2] >= ourKeyid[p] - 1

\* Later messages are sealed with later keys.
Rising(p) == \A m, n \in Letters(p) : m.n < n.n /\ m.by[1] = n.by[1] =>
    m.by[2] <= n.by[2] /\ m.for[2] <= n.for[2]

\* Who is ahead with an exchange has its first keys; in one conversation a
\* party knows the other's current key or the one before it.
Level(p) == LET q == Correspondent(p) IN
    /\ conv[p] <= conv[q] + 1
    /\ conv[p] = conv[q] =>
          ourKeyid[q] - 1 <= theirKeyid[p] /\ theirKeyid[p] <= ourKeyid[q]
    /\ conv[p] = conv[q] + 1 => ourKeyid[p] = 2 /\ theirKeyid[p] = 1
    /\ theirKeyid[p] >= 2 => hasOldY[p]
    /\ \A m \in Wire(p) : m.type = "signature" => m.conv = conv[q]

Abreast == \A p \in Ends :
    Numbered(p) /\ Sender(p) /\ Receiver(p) /\ Rising(p) /\ Level(p)

LEMMA BothEnds ==
  ASSUME NEW p \in Ends, NEW q, q = Correspondent(p)
  PROVE  /\ q \in Ends /\ q # p /\ Correspondent(q) = p
         /\ \A e \in Ends : e = p \/ e = q
<1>1. PICK a \in Ends, b \in Ends : a # b /\ Ends = {a, b}
  BY EndsAssumption
<1>2. q \in Ends /\ q # p /\ Correspondent(q) \in Ends /\ Correspondent(q) # q
  BY TwoEnds
<1> QED  BY <1>1, <1>2

LEMMA NumberTypes ==
  ASSUME KeysInv, NEW p \in Ends
  PROVE  /\ conv[p] \in Nat /\ ourKeyid[p] \in Nat /\ theirKeyid[p] \in Nat
         /\ hasOldY[p] \in BOOLEAN
         /\ sealed[p] \in Nat /\ sealed[p] <= MaxData /\ MaxData \in Nat
         /\ accepted[p] \in SUBSET (1..MaxData) /\ \A a \in accepted[p] : a \in Nat
         /\ \A m \in Wire(p) : m \in KeyMessage
         /\ \A m \in Letters(p) :
               /\ m \in DataMessage /\ m.n \in Nat /\ m.ctr \in Nat
               /\ m.by \in DHKey /\ m.for \in DHKey
               /\ m.by[1] \in Nat /\ m.by[2] \in Nat /\ m.for[1] \in Nat /\ m.for[2] \in Nat
<1>1. sealed[p] \in 0..MaxData /\ accepted[p] \in SUBSET (1..MaxData) /\ MaxData \in Nat
  BY KeysBoundsAssumption DEF KeysInv, HistoryTypes
<1>2. \A m \in Wire(p) : m \in KeyMessage
  <2> DEFINE w == inTransit[p]
  <2>1. w \in Seq(KeyMessage)
    BY PartyFacts
  <2> HIDE DEF w
  <2>2. \A i \in DOMAIN w : w[i] \in KeyMessage
    BY <2>1
  <2> QED  BY <2>2 DEF Wire, w
<1>3. \A m \in Letters(p) : m \in DataMessage
  BY <1>2, MessageKinds DEF Letters
<1>4. \A d \in DHKey : d[1] \in Nat /\ d[2] \in Nat
  BY KeysBoundsAssumption DEF DHKey, Conversation, KeyId
<1>5. \A m \in DataMessage : m.n \in 1..MaxData /\ m.by \in DHKey /\ m.for \in DHKey
                             /\ m.ctr \in Nat
  BY DEF DataMessage
<1>6. \A k \in 1..MaxData : k \in Nat
  BY <1>1
<1>7. sealed[p] \in Nat /\ sealed[p] <= MaxData
  BY <1>1
<1> QED  BY <1>1, <1>2, <1>3, <1>4, <1>5, <1>6, <1>7, PartyFacts

LEMMA WireTaken ==
  ASSUME KeysInv, NEW p \in Ends, inTransit[p] # <<>>,
         inTransit' = [inTransit EXCEPT ![p] = Tail(inTransit[p])]
  PROVE  /\ Head(inTransit[p]) \in Wire(p)
         /\ \A e \in Ends : Wire(e)' \subseteq Wire(e) /\ Letters(e)' \subseteq Letters(e)
<1> DEFINE w == inTransit[p]
<1>1. w \in Seq(KeyMessage) /\ inTransit \in [Ends -> Seq(KeyMessage)]
  BY PartyFacts DEF KeysInv, WireTypes
<1>2. /\ DOMAIN w = 1..Len(w) /\ Len(w) \in Nat /\ DOMAIN Tail(w) = 1..(Len(w) - 1)
      /\ Head(w) = w[1] /\ 1 \in DOMAIN w
      /\ \A i \in DOMAIN Tail(w) : i + 1 \in DOMAIN w /\ Tail(w)[i] = w[i + 1]
  BY <1>1
<1>3. inTransit'[p] = Tail(w) /\ \A e \in Ends : e # p => inTransit'[e] = inTransit[e]
  BY <1>1
<1> HIDE DEF w
<1>4. Wire(p)' \subseteq Wire(p)
  BY <1>2, <1>3 DEF Wire, w
<1>5. Head(inTransit[p]) \in Wire(p)
  BY <1>2 DEF Wire, w
<1>6. \A e \in Ends : Wire(e)' \subseteq Wire(e)
  BY <1>3, <1>4 DEF Wire
<1> QED  BY <1>5, <1>6 DEF Letters

LEMMA WireSent ==
  ASSUME KeysInv, NEW p \in Ends, NEW m \in KeyMessage,
         inTransit' = [inTransit EXCEPT ![p] = Append(inTransit[p], m)]
  PROVE  /\ Wire(p)' = Wire(p) \cup {m}
         /\ Letters(p)' = Letters(p) \cup (IF m.type = "data" THEN {m} ELSE {})
         /\ \A e \in Ends : e # p => Wire(e)' = Wire(e) /\ Letters(e)' = Letters(e)
<1> DEFINE w == inTransit[p]
           x == Append(w, m)
<1>1. w \in Seq(KeyMessage) /\ inTransit \in [Ends -> Seq(KeyMessage)]
  BY PartyFacts DEF KeysInv, WireTypes
<1>2. /\ DOMAIN x = 1..(Len(w) + 1) /\ Len(w) \in Nat /\ DOMAIN w = 1..Len(w)
      /\ x[Len(w) + 1] = m /\ \A i \in 1..Len(w) : x[i] = w[i]
  BY <1>1
<1>3. inTransit'[p] = x /\ \A e \in Ends : e # p => inTransit'[e] = inTransit[e]
  BY <1>1
<1> HIDE DEF w, x
<1>4. Wire(p)' = Wire(p) \cup {m}
  <2>1. \A i \in DOMAIN x : x[i] \in Wire(p) \cup {m}
    <3>1. \A i \in DOMAIN x : i \in 1..Len(w) \/ i = Len(w) + 1
      BY <1>2
    <3> QED  BY <1>2, <3>1 DEF Wire, w
  <2>2. \A y \in Wire(p) \cup {m} : \E i \in DOMAIN x : y = x[i]
    <3>1. \A i \in 1..Len(w) : i \in DOMAIN x
      BY <1>2
    <3>2. Len(w) + 1 \in DOMAIN x
      BY <1>2
    <3> QED  BY <1>2, <3>1, <3>2 DEF Wire, w
  <2>3. Wire(p)' = {x[i] : i \in DOMAIN x}
    BY <1>3 DEF Wire
  <2> QED  BY <2>1, <2>2, <2>3
<1>5. \A e \in Ends : e # p => Wire(e)' = Wire(e)
  BY <1>3 DEF Wire
<1> QED  BY <1>4, <1>5 DEF Letters

\* Nothing is sealed, accepted or exchanged.
LEMMA StaysAbreast ==
  ASSUME Abreast, \A e \in Ends : Wire(e)' \subseteq Wire(e),
         UNCHANGED <<conv, ourKeyid, theirKeyid, hasOldY, sealed, accepted>>
  PROVE  Abreast'
<1>1. \A e \in Ends : Letters(e)' \subseteq Letters(e)
  BY DEF Letters
<1>2. ASSUME NEW p \in Ends
      PROVE  Numbered(p)' /\ Sender(p)' /\ Receiver(p)' /\ Rising(p)' /\ Level(p)'
  <2>1. Numbered(p) /\ Sender(p) /\ Receiver(p) /\ Rising(p) /\ Level(p)
    BY DEF Abreast
  <2>2. Numbered(p)' /\ Rising(p)'
    BY <1>1, <2>1 DEF Numbered, Rising
  <2>3. Sender(p)' /\ Receiver(p)'
    BY <1>1, <2>1 DEF Sender, Receiver, Latest
  <2>4. Level(p)'
    BY <2>1 DEF Level
  <2> QED  BY <2>2, <2>3, <2>4
<1> QED  BY <1>2 DEF Abreast

\* A message is sealed with the current keys of its sender.
LEMMA SealAbreast ==
  ASSUME KeysInv, Abreast, NEW p \in Ends, Seal(p)
  PROVE  Abreast'
<1> DEFINE q == Correspondent(p)
           c == conv[p]
           our == ourKeyid[p]
           their == theirKeyid[p]
           s == sesskeys[p][1][0]
           m == [type |-> "data", n |-> sealed[p] + 1, by |-> s.ours,
                 for |-> s.theirs, next |-> OurKey(p, 0), ctr |-> s.sendctr + 1]
<1>1. /\ c > 0 /\ sealed[p] < MaxData
      /\ sealed' = [sealed EXCEPT ![p] = sealed[p] + 1]
      /\ inTransit' = [inTransit EXCEPT ![q] = Append(inTransit[q], m)]
      /\ UNCHANGED <<conv, ourKeyid, theirKeyid, hasOldY, accepted>>
  BY DEF Seal
<1>2. /\ q \in Ends /\ q # p /\ Correspondent(q) = p
      /\ \A e \in Ends : e = p \/ e = q
  BY BothEnds
<1>3. /\ Sound(sesskeys[p], c, our, their, hasOldY[p], published[p] \cup saved[p])
      /\ sesskeys[p] \in Table /\ c \in Conversation
  BY <1>1, PartyFacts
<1>4. s.ours = <<c, our - 1>> /\ s.theirs = <<c, their>> /\ our >= 2 /\ their >= 1
  BY <1>3 DEF Sound, Columns, Ids, PairOf, Slot
<1>5. /\ s.sendctr \in Nat /\ c \in Nat /\ our \in Nat /\ their \in Nat /\ sealed[p] \in Nat
      /\ MaxData \in Nat
  BY <1>3, CellType, NumberTypes DEF Slot
<1>6. m \in KeyMessage
  <2>1. s.ours \in DHKey /\ s.theirs \in DHKey
    BY <1>3, CellType DEF Slot
  <2>2. OurKey(p, 0) \in DHKey
    BY <1>3, <1>5 DEF OurKey, DHKey, KeyId
  <2>3. sealed[p] + 1 \in 1..MaxData /\ s.sendctr + 1 \in Nat
    <3>1. \A k \in Nat : k < MaxData => k + 1 \in 1..MaxData
      BY <1>5
    <3>2. \A k \in Nat : k + 1 \in Nat
      OBVIOUS
    <3> HIDE DEF s
    <3> QED  BY <1>1, <1>5, <3>1, <3>2
  <2> HIDE DEF s
  <2> QED  BY <2>1, <2>2, <2>3 DEF KeyMessage, DataMessage
<1>7. /\ m.type = "data" /\ m.n = sealed[p] + 1 /\ m.by[1] = c /\ m.by[2] = our - 1
      /\ m.for[1] = c /\ m.for[2] = their
  BY <1>4
<1> HIDE DEF s, m
<1>8. /\ Wire(q)' = Wire(q) \cup {m} /\ Letters(q)' = Letters(q) \cup {m}
      /\ Wire(p)' = Wire(p) /\ Letters(p)' = Letters(p)
  BY <1>1, <1>2, <1>6, <1>7, WireSent
<1>9. sealed'[p] = sealed[p] + 1 /\ sealed'[q] = sealed[q]
  BY <1>1, <1>2 DEF KeysInv, HistoryTypes
<1>10. /\ Numbered(p) /\ Sender(p) /\ Receiver(p) /\ Rising(p) /\ Level(p)
       /\ Numbered(q) /\ Sender(q) /\ Receiver(q) /\ Rising(q) /\ Level(q)
  BY <1>2 DEF Abreast
<1>11. \A n \in Letters(q) : n.n \in Nat /\ n.by[2] \in Nat /\ n.for[2] \in Nat
  BY <1>2, NumberTypes
<1>12. \A a \in accepted[q] : a \in Nat
  BY <1>2, NumberTypes
<1>13. ourKeyid[q] \in Nat /\ theirKeyid[q] \in Nat /\ conv[q] \in Nat
  BY <1>2, NumberTypes
<1> HIDE DEF q, c, our, their
<1>14. Numbered(p)' /\ Sender(p)' /\ Receiver(p)' /\ Rising(p)'
  BY <1>1, <1>8, <1>9, <1>10 DEF Numbered, Sender, Receiver, Rising, Latest, q
<1>15. Level(p)' /\ Level(q)'
  BY <1>1, <1>2, <1>7, <1>8, <1>10 DEF Level
<1>16. \A n \in Letters(q) : n.n <= sealed[p]
  BY <1>2, <1>10 DEF Numbered
<1>17. Numbered(q)'
  <2>1. \A a \in accepted[q] : a <= sealed[p]
    BY <1>2, <1>10 DEF Numbered
  <2>2. \A a \in accepted'[q] : a <= sealed'[p]
    BY <1>1, <1>5, <1>9, <1>12, <2>1
  <2>3. \A n \in Letters(q)' : n.n <= sealed'[p]
    BY <1>5, <1>7, <1>8, <1>9, <1>11, <1>16
  <2>4. ASSUME NEW x \in Letters(q)', NEW y \in Letters(q)', x.n = y.n PROVE x = y
    BY <1>5, <1>7, <1>8, <1>10, <1>11, <1>16, <2>4 DEF Numbered
  <2> QED  BY <1>2, <2>2, <2>3, <2>4 DEF Numbered
<1>18. Sender(q)'
  <2>1. /\ m.by[1] = m.for[1] /\ m.by[1] > 0 /\ m.by[1] <= c /\ m.by[2] >= 1 /\ m.for[2] >= 1
        /\ m.by[2] <= our - 1 /\ m.for[2] <= their
    BY <1>1, <1>4, <1>5, <1>7
  <2>2. /\ conv'[p] = c /\ ourKeyid'[p] = our /\ theirKeyid'[p] = their
    BY <1>1 DEF c, our, their
  <2>3. \A n \in Letters(q) :
            /\ n.by[1] = n.for[1] /\ n.by[1] > 0 /\ n.by[1] <= c
            /\ n.by[2] >= 1 /\ n.for[2] >= 1
            /\ n.by[1] = c => n.by[2] <= our - 1 /\ n.for[2] <= their
    BY <1>2, <1>10 DEF Sender, c, our, their
  <2> QED  BY <1>2, <1>8, <2>1, <2>2, <2>3 DEF Sender
<1>19. Receiver(q)'
  <2>1. c = conv[q] =>
            /\ our - 1 <= theirKeyid[q] /\ theirKeyid[q] <= our
            /\ ourKeyid[q] - 1 <= their /\ their <= ourKeyid[q]
    BY <1>2, <1>10 DEF Level, c, our, their, q
  <2>2. m.by[1] = conv[q] =>
            /\ m.by[2] <= theirKeyid[q] /\ m.for[2] <= ourKeyid[q]
            /\ m.by[2] >= theirKeyid[q] - 1 /\ m.for[2] >= ourKeyid[q] - 1
    BY <1>5, <1>7, <1>13, <2>1
  <2> QED  BY <1>1, <1>8, <1>10, <2>2 DEF Receiver, Latest
<1>20. Rising(q)'
  <2>1. \A n \in Letters(q) : n.by[1] = c => n.by[2] <= our - 1 /\ n.for[2] <= their
    BY <1>2, <1>10 DEF Sender, c, our, their
  <2>2. \A n \in Letters(q) : ~(m.n < n.n)
    BY <1>5, <1>7, <1>11, <1>16
  <2>3. ~(m.n < m.n)
    BY <1>5, <1>7
  <2> QED  BY <1>7, <1>8, <1>10, <2>1, <2>2, <2>3 DEF Rising
<1> QED  BY <1>2, <1>14, <1>15, <1>17, <1>18, <1>19, <1>20 DEF Abreast

\* The keys a genuine message names, by their ids.
LEMMA GenuineKeys ==
  ASSUME KeysInv, NEW p \in Ends, Arrived(p), Genuine(p, Head(inTransit[p]))
  PROVE  LET m == Head(inTransit[p])
             i == Mine(p, m)
             j == Yours(p, m)
         IN  /\ m \in Letters(p) /\ i \in {0, 1} /\ j \in {0, 1} /\ conv[p] > 0
             /\ PairOf(sesskeys[p][i][j]) = <<m.for, m.by>>
             /\ m.by[1] = conv[p] /\ m.for[1] = conv[p]
             /\ m.by[2] = theirKeyid[p] - j /\ m.for[2] = ourKeyid[p] - i
<1> DEFINE m == Head(inTransit[p])
           i == Mine(p, m)
           j == Yours(p, m)
           c == conv[p]
<1>1. m \in Letters(p)
  <2> DEFINE w == inTransit[p]
  <2>1. w \in Seq(KeyMessage) /\ w # <<>> /\ m = Head(w) /\ m.type = "data"
    BY PartyFacts DEF Arrived
  <2> HIDE DEF w, m
  <2>2. 1 \in DOMAIN w /\ Head(w) = w[1]
    BY <2>1
  <2> QED  BY <2>1, <2>2 DEF Letters, Wire, w
<1>2. i \in Slot /\ j \in Slot /\ c > 0 /\ sesskeys[p][i][j].ours[1] = c
  BY GenuineFacts
<1>3. /\ i \in Slot /\ j \in Slot /\ (j = 1 => hasOldY[p])
      /\ sesskeys[p][i][j].ours = m.for /\ sesskeys[p][i][j].theirs = m.by
  BY DEF Genuine, Known
<1>4. /\ m.by[2] \in Nat /\ m.for[2] \in Nat /\ ourKeyid[p] \in Nat /\ theirKeyid[p] \in Nat
  BY <1>1, NumberTypes
<1>5. m.by[2] = theirKeyid[p] - j /\ m.for[2] = ourKeyid[p] - i
  BY <1>4 DEF Mine, Yours
<1>6. Columns(sesskeys[p], c, ourKeyid[p], theirKeyid[p], hasOldY[p])
  BY <1>2, PartyFacts DEF Sound
<1> HIDE DEF m, i, j
<1>7. sesskeys[p][i][j].theirs[1] = c
  <2>1. j = 0 \/ j = 1
    BY <1>2 DEF Slot
  <2> QED  BY <1>3, <1>6, <2>1 DEF Columns, PairOf
<1> QED  BY <1>1, <1>2, <1>3, <1>5, <1>7 DEF Slot, PairOf, m, i, j

\* A message is accepted: whoever sent it had the keys the receiver moves on
\* from.
LEMMA AcceptAbreast ==
  ASSUME KeysInv, Abreast, NEW p \in Ends, AcceptData(p)
  PROVE  Abreast'
<1> DEFINE q == Correspondent(p)
           m == Head(inTransit[p])
           i == Mine(p, m)
           j == Yours(p, m)
           c == conv[p]
           our == ourKeyid[p]
           their == theirKeyid[p]
           our2 == IF i = 0 THEN our + 1 ELSE our
           their2 == IF j = 0 THEN their + 1 ELSE their
<1>1. /\ Arrived(p) /\ Genuine(p, m)
      /\ ourKeyid' = [ourKeyid EXCEPT ![p] = our2]
      /\ theirKeyid' = [theirKeyid EXCEPT ![p] = their2]
      /\ hasOldY' = [hasOldY EXCEPT ![p] = hasOldY[p] \/ j = 0]
      /\ accepted' = [accepted EXCEPT ![p] = accepted[p] \cup {m.n}]
      /\ inTransit' = [inTransit EXCEPT ![p] = Tail(inTransit[p])]
      /\ UNCHANGED <<conv, sealed>>
  BY DEF AcceptData, Acceptable
<1>2. /\ q \in Ends /\ q # p /\ Correspondent(q) = p
      /\ \A e \in Ends : e = p \/ e = q
  BY BothEnds
<1>3. /\ m \in Letters(p) /\ i \in {0, 1} /\ j \in {0, 1} /\ c > 0
      /\ m.by[1] = c /\ m.for[1] = c /\ m.by[2] = their - j /\ m.for[2] = our - i
  BY <1>1, GenuineKeys
<1>4. \A e \in Ends : Wire(e)' \subseteq Wire(e) /\ Letters(e)' \subseteq Letters(e)
  <2>1. inTransit[p] # <<>>
    BY <1>1 DEF Arrived
  <2> HIDE DEF m
  <2> QED  BY <1>1, <2>1, WireTaken
<1>5. /\ Numbered(p) /\ Sender(p) /\ Receiver(p) /\ Rising(p) /\ Level(p)
      /\ Numbered(q) /\ Sender(q) /\ Receiver(q) /\ Rising(q) /\ Level(q)
  BY <1>2 DEF Abreast
<1>6. /\ ourKeyid'[p] = our2 /\ theirKeyid'[p] = their2 /\ hasOldY'[p] = (hasOldY[p] \/ j = 0)
      /\ accepted'[p] = accepted[p] \cup {m.n}
      /\ ourKeyid'[q] = ourKeyid[q] /\ theirKeyid'[q] = theirKeyid[q]
      /\ hasOldY'[q] = hasOldY[q] /\ accepted'[q] = accepted[q]
  BY <1>1, <1>2 DEF KeysInv, KeyTypes, HistoryTypes
<1>7. /\ c \in Nat /\ our \in Nat /\ their \in Nat /\ conv[q] \in Nat
      /\ ourKeyid[q] \in Nat /\ theirKeyid[q] \in Nat
  BY <1>2, NumberTypes
<1>8. /\ our2 \in Nat /\ their2 \in Nat /\ our <= our2 /\ their <= their2
      /\ (i = 0 => our2 = our + 1 /\ m.for[2] = our) /\ (i # 0 => our2 = our)
      /\ (j = 0 => their2 = their + 1 /\ m.by[2] = their) /\ (j # 0 => their2 = their)
  BY <1>3, <1>7
<1>9. /\ \A n \in Letters(p) : n.n \in Nat /\ n.by[2] \in Nat /\ n.for[2] \in Nat
      /\ \A n \in Letters(q) : n.by[2] \in Nat /\ n.for[2] \in Nat
  BY <1>2, NumberTypes
<1> HIDE DEF m, i, j, our2, their2, q
<1>10. Numbered(p)' /\ Numbered(q)'
  <2>1. m.n <= sealed[q]
    BY <1>3, <1>5 DEF Numbered, q
  <2>2. Numbered(p)'
    BY <1>1, <1>4, <1>5, <1>6, <2>1 DEF Numbered, q
  <2>3. Numbered(q)'
    BY <1>1, <1>2, <1>4, <1>5, <1>6 DEF Numbered
  <2> QED  BY <2>2, <2>3
<1>11. Rising(p)' /\ Rising(q)'
  BY <1>2, <1>4, <1>5 DEF Rising
<1>12. Sender(p)'
  BY <1>1, <1>4, <1>5, <1>6 DEF Sender, q
<1>13. Sender(q)'
  <2>1. SUFFICES ASSUME NEW n \in Letters(q)
                 PROVE  /\ n.by[1] = n.for[1] /\ n.by[1] > 0 /\ n.by[1] <= c
                        /\ n.by[2] >= 1 /\ n.for[2] >= 1
                        /\ n.by[1] = c => n.by[2] <= our2 - 1 /\ n.for[2] <= their2
    BY <1>1, <1>2, <1>4, <1>6 DEF Sender
  <2>2. /\ n.by[1] = n.for[1] /\ n.by[1] > 0 /\ n.by[1] <= c
        /\ n.by[2] >= 1 /\ n.for[2] >= 1
        /\ n.by[1] = c => n.by[2] <= our - 1 /\ n.for[2] <= their
    BY <1>2, <1>5 DEF Sender
  <2>3. n.by[2] \in Nat /\ n.for[2] \in Nat
    BY <1>9
  <2> HIDE DEF our, their
  <2> QED  BY <1>7, <1>8, <2>2, <2>3
<1>14. Receiver(q)'
  BY <1>1, <1>2, <1>4, <1>5, <1>6 DEF Receiver, Latest
<1>15. Receiver(p)'
  <2>1. SUFFICES ASSUME NEW n \in Letters(p), n.by[1] = c
                 PROVE  /\ n.by[2] <= their2 /\ n.for[2] <= our2
                        /\ (\A a \in accepted[p] \cup {m.n} : a < n.n) =>
                              n.by[2] >= their2 - 1 /\ n.for[2] >= our2 - 1
    BY <1>1, <1>4, <1>6 DEF Receiver, Latest
  <2>2. /\ n.by[2] <= their /\ n.for[2] <= our
        /\ (\A a \in accepted[p] : a < n.n) =>
              n.by[2] >= their - 1 /\ n.for[2] >= our - 1
    BY <1>5, <2>1 DEF Receiver, Latest
  <2>3. n.by[2] \in Nat /\ n.for[2] \in Nat
    BY <1>9
  <2>4. n.by[2] <= their2 /\ n.for[2] <= our2
    <3> HIDE DEF our, their
    <3> QED  BY <1>7, <1>8, <2>2, <2>3
  <2>5. ASSUME \A a \in accepted[p] \cup {m.n} : a < n.n
        PROVE  n.by[2] >= their2 - 1 /\ n.for[2] >= our2 - 1
    <3>1. n.by[2] >= their - 1 /\ n.for[2] >= our - 1
      BY <2>2, <2>5
    <3>2. m.by[2] <= n.by[2] /\ m.for[2] <= n.for[2]
      BY <1>3, <1>5, <2>1, <2>5 DEF Rising
    <3> HIDE DEF our, their
    <3>3. n.by[2] >= their2 - 1
      BY <1>7, <1>8, <2>3, <3>1, <3>2
    <3>4. n.for[2] >= our2 - 1
      BY <1>7, <1>8, <2>3, <3>1, <3>2
    <3> QED  BY <3>3, <3>4
  <2> QED  BY <2>4, <2>5
<1>16. /\ c <= conv[q]
       /\ c = conv[q] => /\ j = 0 => their <= ourKeyid[q] - 1
                         /\ i = 0 => our <= theirKeyid[q]
  BY <1>3, <1>5, <1>8 DEF Sender, q
<1>17. Level(p)'
  <2>1. /\ conv[p] <= conv[q] + 1
        /\ c = conv[q] => ourKeyid[q] - 1 <= their /\ their <= ourKeyid[q]
        /\ their >= 2 => hasOldY[p]
        /\ \A n \in Wire(p) : n.type = "signature" => n.conv = conv[q]
    BY <1>5 DEF Level, q
  <2>2. c # conv[q] + 1
    BY <1>7, <1>16
  <2>3. c = conv[q] => ourKeyid[q] - 1 <= their2 /\ their2 <= ourKeyid[q]
    <3> HIDE DEF c, our, their
    <3> QED  BY <1>7, <1>8, <1>16, <2>1
  <2>4. their2 >= 2 => (hasOldY[p] \/ j = 0)
    BY <1>8, <2>1
  <2> QED  BY <1>1, <1>4, <1>6, <2>1, <2>2, <2>3, <2>4 DEF Level, q
<1>18. Level(q)'
  <2>1. /\ conv[q] <= c + 1
        /\ conv[q] = c => our - 1 <= theirKeyid[q] /\ theirKeyid[q] <= our
        /\ conv[q] = c + 1 => ourKeyid[q] = 2 /\ theirKeyid[q] = 1
        /\ theirKeyid[q] >= 2 => hasOldY[q]
        /\ \A n \in Wire(q) : n.type = "signature" => n.conv = c
    BY <1>2, <1>5 DEF Level
  <2>2. conv[q] = c => our2 - 1 <= theirKeyid[q] /\ theirKeyid[q] <= our2
    <3> HIDE DEF c, our, their
    <3> QED  BY <1>7, <1>8, <1>16, <2>1
  <2> QED  BY <1>1, <1>2, <1>4, <1>6, <2>1, <2>2 DEF Level
<1> QED  BY <1>2, <1>10, <1>11, <1>12, <1>13, <1>14, <1>15, <1>17, <1>18 DEF Abreast

\* A new exchange: the second party is ahead until the first follows.
LEMMA SecondAbreast ==
  ASSUME KeysInv, Abreast, NEW p \in Ends, ExchangeSecond(p)
  PROVE  Abreast'
<1> DEFINE q == Correspondent(p)
           c == conv[p] + 1
           m == [type |-> "signature", conv |-> c]
<1>1. /\ conv[p] = conv[q] /\ c <= MaxConversations /\ Install(p, c)
      /\ \A e \in Ends : \A i \in DOMAIN inTransit[e] : inTransit[e][i].type # "signature"
      /\ inTransit' = [inTransit EXCEPT ![q] = Append(inTransit[q], m)]
      /\ UNCHANGED <<sealed, accepted>>
  BY DEF ExchangeSecond, NoExchangeUnderWay
<1>2. /\ q \in Ends /\ q # p /\ Correspondent(q) = p
      /\ \A e \in Ends : e = p \/ e = q
  BY BothEnds
<1>3. conv[p] \in Nat /\ conv[q] \in Nat
  BY <1>2, NumberTypes
<1>4. m \in KeyMessage /\ m.type = "signature" /\ m.conv = c
  <2>1. c \in Conversation
    BY <1>1, <1>3, KeysBoundsAssumption DEF Conversation
  <2> QED  BY <2>1 DEF KeyMessage, LastOfExchange
<1> HIDE DEF m
<1>5. /\ Wire(q)' = Wire(q) \cup {m} /\ Letters(q)' = Letters(q)
      /\ Wire(p)' = Wire(p) /\ Letters(p)' = Letters(p)
  BY <1>1, <1>2, <1>4, WireSent
<1>6. /\ Numbered(p) /\ Sender(p) /\ Receiver(p) /\ Rising(p) /\ Level(p)
      /\ Numbered(q) /\ Sender(q) /\ Receiver(q) /\ Rising(q) /\ Level(q)
  BY <1>2 DEF Abreast
<1>7. /\ conv'[p] = c /\ ourKeyid'[p] = 2 /\ theirKeyid'[p] = 1 /\ hasOldY'[p] = FALSE
      /\ conv'[q] = conv[q] /\ ourKeyid'[q] = ourKeyid[q] /\ theirKeyid'[q] = theirKeyid[q]
      /\ hasOldY'[q] = hasOldY[q]
  BY <1>1, <1>2 DEF Install, KeysInv, KeyTypes
<1>8. \A e \in Ends : \A n \in Wire(e) : n.type # "signature"
  BY <1>1 DEF Wire
<1>9. \A n \in Letters(q) : n.by[1] \in Nat
  BY <1>2, NumberTypes
<1>10. \A n \in Letters(p) : n.by[1] \in Nat
  BY <1>2, NumberTypes
<1> HIDE DEF q
<1>11. Numbered(p)' /\ Numbered(q)' /\ Rising(p)' /\ Rising(q)'
  BY <1>1, <1>5, <1>6 DEF Numbered, Rising
<1>12. Sender(p)'
  BY <1>5, <1>6, <1>7 DEF Sender, q
<1>13. Receiver(q)'
  BY <1>1, <1>5, <1>6, <1>7 DEF Receiver, Latest
<1>14. Sender(q)'
  <2>1. ASSUME NEW n \in Letters(q)
        PROVE  /\ n.by[1] = n.for[1] /\ n.by[1] > 0 /\ n.by[1] <= c /\ n.by[1] # c
               /\ n.by[2] >= 1 /\ n.for[2] >= 1
    <3>1. /\ n.by[1] = n.for[1] /\ n.by[1] > 0 /\ n.by[1] <= conv[p]
          /\ n.by[2] >= 1 /\ n.for[2] >= 1
      BY <1>2, <1>6 DEF Sender
    <3> QED  BY <1>3, <1>9, <3>1
  <2> QED  BY <1>2, <1>5, <1>7, <2>1 DEF Sender
<1>15. Receiver(p)'
  <2>1. ASSUME NEW n \in Letters(p) PROVE n.by[1] # c
    <3>1. n.by[1] <= conv[q]
      BY <1>6 DEF Sender, q
    <3> QED  BY <1>1, <1>3, <1>10, <3>1
  <2> QED  BY <1>5, <1>7, <2>1 DEF Receiver
<1>16. Level(p)'
  <2>1. c <= conv[q] + 1 /\ c # conv[q] /\ ~(1 >= 2)
    BY <1>1, <1>3
  <2> QED  BY <1>2, <1>5, <1>7, <1>8, <2>1 DEF Level, q
<1>17. Level(q)'
  <2>1. conv[q] <= c + 1 /\ c # conv[q] /\ conv[q] # c + 1
    BY <1>1, <1>3
  <2>2. theirKeyid[q] >= 2 => hasOldY[q]
    BY <1>6 DEF Level
  <2> QED  BY <1>2, <1>4, <1>5, <1>7, <1>8, <2>1, <2>2 DEF Level
<1> QED  BY <1>2, <1>11, <1>12, <1>13, <1>14, <1>15, <1>16, <1>17 DEF Abreast

LEMMA FirstAbreast ==
  ASSUME KeysInv, Abreast, NEW p \in Ends, ExchangeFirst(p)
  PROVE  Abreast'
<1> DEFINE q == Correspondent(p)
           m == Head(inTransit[p])
           c == m.conv
<1>1. /\ inTransit[p] # <<>> /\ m.type = "signature" /\ Install(p, c)
      /\ inTransit' = [inTransit EXCEPT ![p] = Tail(inTransit[p])]
      /\ UNCHANGED <<sealed, accepted>>
  BY DEF ExchangeFirst
<1>2. /\ q \in Ends /\ q # p /\ Correspondent(q) = p
      /\ \A e \in Ends : e = p \/ e = q
  BY BothEnds
<1>3. conv[p] \in Nat /\ conv[q] \in Nat
  BY <1>2, NumberTypes
<1>4. m \in Wire(p) /\ \A e \in Ends : Wire(e)' \subseteq Wire(e) /\ Letters(e)' \subseteq Letters(e)
  BY <1>1, WireTaken
<1>5. c = conv[p] + 1
  BY <1>1, PartyFacts, TailWire
<1>6. \A n \in Wire(p)' : n.type # "signature"
  <2> DEFINE w == inTransit[p]
             t == Tail(w)
  <2>1. /\ w \in Seq(KeyMessage) /\ GoodWire(t, 0) /\ GoodWire(t, c)
    <3>1. w \in Seq(KeyMessage) /\ GoodWire(w, conv[p]) /\ w # <<>> /\ Head(w).type = "signature"
      BY <1>1, PartyFacts
    <3> HIDE DEF w, m
    <3>2. \A d : GoodWire(Tail(w), d)
      BY <3>1, TailWire
    <3> QED  BY <3>1, <3>2
  <2>2. inTransit'[p] = t
    BY <1>1 DEF KeysInv, WireTypes
  <2> HIDE DEF w, t
  <2>3. \A i \in DOMAIN t : t[i].type # "signature"
    <3>1. 0 + 1 # c + 1
      BY <1>3, <1>5
    <3> HIDE DEF c
    <3> QED  BY <2>1, <3>1 DEF GoodWire
  <2> QED  BY <2>2, <2>3 DEF Wire
<1>7. /\ Numbered(p) /\ Sender(p) /\ Receiver(p) /\ Rising(p) /\ Level(p)
      /\ Numbered(q) /\ Sender(q) /\ Receiver(q) /\ Rising(q) /\ Level(q)
  BY <1>2 DEF Abreast
<1>8. c = conv[q] /\ conv[q] = conv[p] + 1
  BY <1>1, <1>4, <1>5, <1>7 DEF Level
<1> HIDE DEF c, m
<1>9. /\ conv'[p] = c /\ ourKeyid'[p] = 2 /\ theirKeyid'[p] = 1 /\ hasOldY'[p] = FALSE
      /\ conv'[q] = conv[q] /\ ourKeyid'[q] = ourKeyid[q] /\ theirKeyid'[q] = theirKeyid[q]
      /\ hasOldY'[q] = hasOldY[q]
  BY <1>1, <1>2 DEF Install, KeysInv, KeyTypes
<1>10. ourKeyid[q] = 2 /\ theirKeyid[q] = 1
  BY <1>2, <1>7, <1>8 DEF Level
<1>11. /\ \A n \in Letters(p) : n.by[1] \in Nat /\ n.by[2] \in Nat /\ n.for[2] \in Nat
       /\ \A n \in Letters(q) : n.by[1] \in Nat
  BY <1>2, NumberTypes
<1> HIDE DEF q
<1>12. Numbered(p)' /\ Numbered(q)' /\ Rising(p)' /\ Rising(q)'
  BY <1>1, <1>2, <1>4, <1>7 DEF Numbered, Rising
<1>13. Sender(p)'
  BY <1>4, <1>7, <1>9 DEF Sender, q
<1>14. Receiver(q)'
  BY <1>1, <1>2, <1>4, <1>7, <1>9 DEF Receiver, Latest
<1>15. Sender(q)'
  <2>1. ASSUME NEW n \in Letters(q)
        PROVE  /\ n.by[1] = n.for[1] /\ n.by[1] > 0 /\ n.by[1] <= c /\ n.by[1] # c
               /\ n.by[2] >= 1 /\ n.for[2] >= 1
    <3>1. /\ n.by[1] = n.for[1] /\ n.by[1] > 0 /\ n.by[1] <= conv[p]
          /\ n.by[2] >= 1 /\ n.for[2] >= 1
      BY <1>2, <1>7 DEF Sender
    <3> QED  BY <1>3, <1>5, <1>11, <3>1
  <2> QED  BY <1>2, <1>4, <1>9, <2>1 DEF Sender
<1>16. Receiver(p)'
  <2>1. ASSUME NEW n \in Letters(p), n.by[1] = c
        PROVE  n.by[2] <= 1 /\ n.for[2] <= 2 /\ n.by[2] >= 1 - 1 /\ n.for[2] >= 2 - 1
    <3>1. n.by[2] >= 1 /\ n.for[2] >= 1 /\ n.by[2] <= 2 - 1 /\ n.for[2] <= 1
      BY <1>7, <1>8, <1>10, <2>1 DEF Sender, q
    <3> QED  BY <1>11, <3>1
  <2> QED  BY <1>4, <1>9, <2>1 DEF Receiver
<1>17. Level(p)'
  <2>1. c <= conv[q] + 1 /\ c # conv[q] + 1 /\ ~(1 >= 2) /\ 2 - 1 <= 1 /\ 1 <= 2
    BY <1>3, <1>8
  <2> QED  BY <1>6, <1>9, <1>10, <2>1 DEF Level, q
<1>18. Level(q)'
  <2>1. conv[q] <= c + 1 /\ conv[q] # c + 1 /\ 2 - 1 <= 1 /\ 1 <= 2
    BY <1>3, <1>8
  <2>2. theirKeyid[q] >= 2 => hasOldY[q]
    BY <1>7 DEF Level
  <2>3. \A n \in Wire(q) : n.type # "signature"
    <3>1. ASSUME NEW n \in Wire(q), n.type = "signature" PROVE FALSE
      <4>1. n.conv = conv[p]
        BY <1>2, <1>7, <3>1 DEF Level
      <4>2. n.conv = conv[q] + 1
        <5>1. GoodWire(inTransit[q], conv[q])
          BY <1>2, PartyFacts
        <5> QED  BY <3>1, <5>1 DEF GoodWire, Wire
      <4> QED  BY <1>3, <1>8, <4>1, <4>2
    <3> QED  BY <3>1
  <2> QED  BY <1>2, <1>4, <1>9, <1>10, <2>1, <2>2, <2>3 DEF Level
<1> QED  BY <1>2, <1>12, <1>13, <1>14, <1>15, <1>16, <1>17, <1>18 DEF Abreast

-----------------------------------------------------------------------------
(* That no message is accepted twice.                                      *)

\* The receiver has passed the message: it is sealed with keys no younger than
\* the current ones, and where the table has them, their counter is past it.
Passed(t, c, our, their, m) ==
    /\ m.for[1] > 0 /\ m.for[1] <= c
    /\ m.for[1] = c => m.for[2] <= our /\ m.by[2] <= their
    /\ \A k, l \in Slot : PairOf(t[k][l]) = <<m.for, m.by>> => m.ctr <= t[k][l].rcvctr
Spent(p, m) == Passed(sesskeys[p], conv[p], ourKeyid[p], theirKeyid[p], m)
NumbersSpent == \A p \in Ends : \A m \in Letters(p) : m.n \in accepted[p] => Spent(p, m)

\* A cell of the new table has keys that are younger than any of the old one,
\* or none, or the keys of an old cell and a counter that has not gone back.
Younger(s, c, our, their) ==
    \/ s.ours[1] = 0 \/ s.ours[1] > c
    \/ s.ours[1] = c /\ (s.ours[2] > our \/ s.theirs[2] > their)
Carried(s, t) ==
    \E k, l \in Slot : PairOf(s) = PairOf(t[k][l]) /\ t[k][l].rcvctr <= s.rcvctr
Continues(n, t, c, our, their) ==
    \A k, l \in Slot : Younger(n[k][l], c, our, their) \/ Carried(n[k][l], t)

LEMMA PassedKept ==
  ASSUME NEW t \in Table, NEW n \in Table, NEW m \in DataMessage,
         NEW c \in Nat, NEW our \in Nat, NEW their \in Nat,
         NEW c2 \in Nat, NEW our2 \in Nat, NEW their2 \in Nat,
         Passed(t, c, our, their, m), Continues(n, t, c, our, their),
         c2 > c \/ (c2 = c /\ our2 >= our /\ their2 >= their)
  PROVE  Passed(n, c2, our2, their2, m)
<1>1. /\ m.for \in DHKey /\ m.by \in DHKey /\ m.ctr \in Nat
      /\ m.for[1] \in Nat /\ m.for[2] \in Nat /\ m.by[2] \in Nat
  BY KeysBoundsAssumption DEF DataMessage, DHKey, Conversation, KeyId
<1>2. /\ m.for[1] > 0 /\ m.for[1] <= c
      /\ m.for[1] = c => m.for[2] <= our /\ m.by[2] <= their
  BY DEF Passed
<1>3. ASSUME NEW k \in Slot, NEW l \in Slot, PairOf(n[k][l]) = <<m.for, m.by>>
      PROVE  m.ctr <= n[k][l].rcvctr
  <2>1. n[k][l].ours = m.for /\ n[k][l].theirs = m.by
    BY <1>3 DEF PairOf
  <2>2. ~Younger(n[k][l], c, our, their)
    BY <1>1, <1>2, <2>1 DEF Younger
  <2>3. PICK a \in Slot, b \in Slot :
            PairOf(n[k][l]) = PairOf(t[a][b]) /\ t[a][b].rcvctr <= n[k][l].rcvctr
    BY <2>2 DEF Continues, Carried
  <2>4. m.ctr <= t[a][b].rcvctr
    BY <1>3, <2>3 DEF Passed
  <2>5. t[a][b].rcvctr \in Nat /\ n[k][l].rcvctr \in Nat
    BY CellType DEF SessKeys
  <2> QED  BY <1>1, <2>3, <2>4, <2>5
<1>4. /\ m.for[1] > 0 /\ m.for[1] <= c2
      /\ m.for[1] = c2 => m.for[2] <= our2 /\ m.by[2] <= their2
  BY <1>1, <1>2
<1> QED  BY <1>3, <1>4 DEF Passed

\* A step of p that accepts nothing.
LEMMA PastKept ==
  ASSUME KeysInv, NumbersSpent, NEW p \in Ends, NEW t \in Table, KeyTypes',
         sesskeys' = [sesskeys EXCEPT ![p] = t],
         Continues(t, sesskeys[p], conv[p], ourKeyid[p], theirKeyid[p]),
         \/ conv'[p] > conv[p]
         \/ conv'[p] = conv[p] /\ ourKeyid'[p] = ourKeyid[p] /\ theirKeyid'[p] = theirKeyid[p],
         \A e \in Ends : e # p => /\ conv'[e] = conv[e] /\ ourKeyid'[e] = ourKeyid[e]
                                  /\ theirKeyid'[e] = theirKeyid[e],
         UNCHANGED accepted,
         \A e \in Ends : \A m \in Letters(e)' : m \in Letters(e) \/ m.n \notin accepted[e]
  PROVE  NumbersSpent'
<1>1. ASSUME NEW e \in Ends, NEW m \in Letters(e)', m.n \in accepted[e]
      PROVE  Spent(e, m)'
  <2>1. m \in Letters(e) /\ Spent(e, m) /\ m \in DataMessage
    BY <1>1, NumberTypes DEF NumbersSpent
  <2>2. CASE e = p
    <3>1. sesskeys'[p] = t /\ sesskeys[p] \in Table
      BY DEF KeysInv, KeyTypes
    <3>2. /\ conv[p] \in Nat /\ ourKeyid[p] \in Nat /\ theirKeyid[p] \in Nat
          /\ conv'[p] \in Nat /\ ourKeyid'[p] \in Nat /\ theirKeyid'[p] \in Nat
      <4>1. \A x \in Conversation : x \in Nat
        BY KeysBoundsAssumption DEF Conversation
      <4>2. conv'[p] \in Conversation /\ ourKeyid'[p] \in Nat /\ theirKeyid'[p] \in Nat
        BY DEF KeyTypes
      <4> QED  BY <4>1, <4>2, PartyFacts
    <3>3. Passed(sesskeys[p], conv[p], ourKeyid[p], theirKeyid[p], m)
      BY <2>1, <2>2 DEF Spent
    <3>4. \/ conv'[p] > conv[p]
          \/ conv'[p] = conv[p] /\ ourKeyid'[p] >= ourKeyid[p] /\ theirKeyid'[p] >= theirKeyid[p]
      BY <3>2
    <3>5. Passed(t, conv'[p], ourKeyid'[p], theirKeyid'[p], m)
      BY <2>1, <3>1, <3>2, <3>3, <3>4, PassedKept
    <3> QED  BY <2>2, <3>1, <3>5 DEF Spent
  <2>3. CASE e # p
    <3>1. sesskeys'[e] = sesskeys[e]
      BY <2>3 DEF KeysInv, KeyTypes
    <3> QED  BY <2>1, <2>3, <3>1 DEF Spent, Passed
  <2> QED  BY <2>2, <2>3
<1> QED  BY <1>1 DEF NumbersSpent

LEMMA UnchangedContinues ==
  ASSUME NEW t \in Table, NEW c, NEW our, NEW their
  PROVE  Continues(t, t, c, our, their)
<1>1. \A k, l \in Slot : t[k][l].rcvctr <= t[k][l].rcvctr
  BY CellType DEF SessKeys
<1> QED  BY <1>1 DEF Continues, Carried

\* One cell is replaced by one with the same keys.
LEMMA ReplacedContinues ==
  ASSUME NEW t \in Table, NEW i \in Slot, NEW j \in Slot, NEW s \in SessKeys,
         PairOf(s) = PairOf(t[i][j]), t[i][j].rcvctr <= s.rcvctr,
         NEW c, NEW our, NEW their
  PROVE  LET n == [t EXCEPT ![i][j] = s]
         IN  n \in Table /\ Continues(n, t, c, our, their)
<1> DEFINE n == [t EXCEPT ![i][j] = s]
<1>1. n \in Table /\ n[i][j] = s /\ \A k, l \in Slot : k # i \/ l # j => n[k][l] = t[k][l]
  BY DEF Table
<1> HIDE DEF n
<1>2. \A k, l \in Slot : t[k][l].rcvctr <= t[k][l].rcvctr
  BY CellType DEF SessKeys
<1>3. ASSUME NEW k \in Slot, NEW l \in Slot PROVE Carried(n[k][l], t)
  BY <1>1, <1>2 DEF Carried
<1> QED  BY <1>1, <1>3 DEF Continues, n

LEMMA InstallPast ==
  ASSUME KeysInv, KeysInv', NumbersSpent, NEW p \in Ends, NEW c, c = conv[p] + 1, Install(p, c),
         UNCHANGED accepted, \A e \in Ends : Letters(e)' \subseteq Letters(e)
  PROVE  NumbersSpent'
<1> DEFINE t == [i \in Slot |-> Row(Session(<<c, 2 - i>>, <<c, 1>>), sesskeys[p][i][1])]
<1>1. /\ sesskeys' = [sesskeys EXCEPT ![p] = t] /\ conv' = [conv EXCEPT ![p] = c]
      /\ ourKeyid' = [ourKeyid EXCEPT ![p] = 2] /\ theirKeyid' = [theirKeyid EXCEPT ![p] = 1]
  BY DEF Install
<1>2. \A k \in Slot : t[k][0].ours = <<c, 2 - k>> /\ t[k][1] = sesskeys[p][k][1]
  BY DEF Row, Session, Slot
<1>3. t \in Table
  <2>1. sesskeys'[p] = t
    BY <1>1 DEF KeysInv, KeyTypes
  <2> HIDE DEF t
  <2>2. sesskeys'[p] \in Table
    BY DEF KeysInv, KeyTypes
  <2> QED  BY <2>1, <2>2
<1> HIDE DEF t
<1>4. conv[p] \in Nat /\ sesskeys[p] \in Table
  BY PartyFacts
<1>5. Continues(t, sesskeys[p], conv[p], ourKeyid[p], theirKeyid[p])
  <2>1. \A k \in Slot : Younger(t[k][0], conv[p], ourKeyid[p], theirKeyid[p])
    BY <1>2, <1>4 DEF Younger
  <2>2. \A k \in Slot : Carried(t[k][1], sesskeys[p])
    <3>1. \A k \in Slot : sesskeys[p][k][1].rcvctr <= sesskeys[p][k][1].rcvctr /\ 1 \in Slot
      BY <1>4, CellType DEF SessKeys, Slot
    <3> QED  BY <1>2, <3>1 DEF Carried
  <2>3. \A l \in Slot : l = 0 \/ l = 1
    BY DEF Slot
  <2> QED  BY <2>1, <2>2, <2>3 DEF Continues
<1>6. /\ conv'[p] = c /\ c > conv[p]
      /\ \A e \in Ends : e # p => /\ conv'[e] = conv[e] /\ ourKeyid'[e] = ourKeyid[e]
                                  /\ theirKeyid'[e] = theirKeyid[e]
  BY <1>1, <1>4 DEF KeysInv, KeyTypes
<1>7. KeyTypes'
  BY DEF KeysInv
<1> QED  BY <1>1, <1>3, <1>5, <1>6, <1>7, PastKept

LEMMA ExchangePast ==
  ASSUME KeysInv, KeysInv', NumbersSpent, NEW p \in Ends, ExchangeSecond(p) \/ ExchangeFirst(p)
  PROVE  NumbersSpent'
<1>1. CASE ExchangeSecond(p)
  <2> DEFINE q == Correspondent(p)
             m == [type |-> "signature", conv |-> conv[p] + 1]
  <2>1. /\ conv[p] + 1 <= MaxConversations /\ Install(p, conv[p] + 1)
        /\ inTransit' = [inTransit EXCEPT ![q] = Append(inTransit[q], m)]
        /\ UNCHANGED accepted
    BY <1>1 DEF ExchangeSecond
  <2>2. q \in Ends
    BY BothEnds
  <2>3. m \in KeyMessage /\ m.type = "signature"
    <3>1. conv[p] \in Nat
      BY PartyFacts
    <3> HIDE DEF m, q
    <3>2. conv[p] + 1 \in Conversation
      BY <2>1, <3>1, KeysBoundsAssumption DEF Conversation
    <3> QED  BY <3>2 DEF KeyMessage, LastOfExchange, m
  <2> HIDE DEF m, q
  <2>4. \A e \in Ends : Letters(e)' \subseteq Letters(e)
    BY <2>1, <2>2, <2>3, WireSent
  <2> QED  BY <2>1, <2>4, InstallPast
<1>2. CASE ExchangeFirst(p)
  <2> DEFINE m == Head(inTransit[p])
  <2>1. /\ inTransit[p] # <<>> /\ m.type = "signature" /\ Install(p, m.conv)
        /\ inTransit' = [inTransit EXCEPT ![p] = Tail(inTransit[p])]
        /\ UNCHANGED accepted
    BY <1>2 DEF ExchangeFirst
  <2>2. m.conv = conv[p] + 1
    BY <2>1, PartyFacts, TailWire
  <2>3. \A e \in Ends : Letters(e)' \subseteq Letters(e)
    BY <2>1, WireTaken
  <2> HIDE DEF m
  <2> QED  BY <2>1, <2>2, <2>3, InstallPast
<1> QED  BY <1>1, <1>2

LEMMA SealPast ==
  ASSUME KeysInv, KeysInv', Abreast, NumbersSpent, NEW p \in Ends, Seal(p)
  PROVE  NumbersSpent'
<1> DEFINE q == Correspondent(p)
           s == sesskeys[p][1][0]
           s2 == [s EXCEPT !.sendctr = s.sendctr + 1]
           t == [sesskeys[p] EXCEPT ![1][0] = s2]
           m == [type |-> "data", n |-> sealed[p] + 1, by |-> s.ours,
                 for |-> s.theirs, next |-> OurKey(p, 0), ctr |-> s.sendctr + 1]
<1>1. /\ sesskeys' = [sesskeys EXCEPT ![p] = t]
      /\ inTransit' = [inTransit EXCEPT ![q] = Append(inTransit[q], m)]
      /\ UNCHANGED <<conv, ourKeyid, theirKeyid, accepted>>
  BY DEF Seal
<1>2. /\ q \in Ends /\ q # p /\ Correspondent(q) = p
  BY BothEnds
<1>3. sesskeys[p] \in Table /\ s \in SessKeys /\ 1 \in Slot /\ 0 \in Slot
  BY PartyFacts, CellType DEF Slot
<1>4. s2 \in SessKeys /\ PairOf(s2) = PairOf(s) /\ s.rcvctr <= s2.rcvctr
  BY <1>3 DEF SessKeys, PairOf
<1> HIDE DEF s2
<1>5. t \in Table /\ Continues(t, sesskeys[p], conv[p], ourKeyid[p], theirKeyid[p])
  <2> DEFINE tab == sesskeys[p]
  <2>1. tab \in Table /\ PairOf(s2) = PairOf(tab[1][0]) /\ tab[1][0].rcvctr <= s2.rcvctr
        /\ t = [tab EXCEPT ![1][0] = s2]
    BY <1>3, <1>4
  <2> HIDE DEF tab, s, t
  <2>2. t \in Table /\ Continues(t, tab, conv[p], ourKeyid[p], theirKeyid[p])
    BY <1>3, <1>4, <2>1, ReplacedContinues
  <2> QED  BY <2>2 DEF tab
<1> HIDE DEF t
<1>6. m.n \notin accepted[q] /\ m.n = sealed[p] + 1
  <2>1. \A a \in accepted[q] : a <= sealed[p] /\ a \in Nat
    BY <1>2, NumberTypes DEF Abreast, Numbered
  <2>2. sealed[p] \in Nat
    BY NumberTypes
  <2>3. sealed[p] + 1 \notin accepted[q]
    BY <2>1, <2>2
  <2> QED  BY <2>3
<1> HIDE DEF s, m
<1>7. \A e \in Ends : \A n \in Letters(e)' : n \in Letters(e) \/ n.n \notin accepted[e]
  <2>1. inTransit'[q] = Append(inTransit[q], m)
        /\ \A e \in Ends : e # q => inTransit'[e] = inTransit[e]
    BY <1>1, <1>2 DEF KeysInv, WireTypes
  <2>2. \A n \in Wire(q)' : n \in Wire(q) \/ n = m
    <3> DEFINE w == inTransit[q]
               x == Append(w, m)
    <3>1. w \in Seq(KeyMessage)
      BY <1>2, PartyFacts
    <3>2. /\ DOMAIN x = 1..(Len(w) + 1) /\ Len(w) \in Nat /\ DOMAIN w = 1..Len(w)
          /\ x[Len(w) + 1] = m /\ \A i \in 1..Len(w) : x[i] = w[i]
      BY <3>1
    <3> HIDE DEF w, x
    <3>3. \A i \in DOMAIN x : i \in DOMAIN w \/ i = Len(w) + 1
      BY <3>2
    <3> QED  BY <2>1, <3>2, <3>3 DEF Wire, w, x
  <2>3. \A e \in Ends : e # q => Wire(e)' = Wire(e)
    BY <2>1 DEF Wire
  <2> QED  BY <1>6, <2>2, <2>3 DEF Letters
<1>8. KeyTypes'
  BY DEF KeysInv
<1> QED  BY <1>1, <1>5, <1>7, <1>8, PastKept

LEMMA DropPast ==
  ASSUME KeysInv, KeysInv', NumbersSpent, NEW p \in Ends,
         RejectUnknown(p) \/ LoseData(p) \/ RepeatData(p) \/ UNCHANGED keysVars
  PROVE  NumbersSpent' /\ \A e \in Ends : Wire(e)' \subseteq Wire(e)
<1>1. UNCHANGED <<conv, ourKeyid, theirKeyid, sesskeys, accepted>>
  BY DEF RejectUnknown, LoseData, RepeatData, keysVars
<1>2. \A e \in Ends : Wire(e)' \subseteq Wire(e)
  <2>1. CASE RejectUnknown(p) \/ LoseData(p)
    BY <2>1, WireTaken DEF RejectUnknown, LoseData, Arrived
  <2>2. CASE RepeatData(p)
    <3> DEFINE m == Head(inTransit[p])
               w == inTransit[p]
    <3>1. /\ inTransit[p] # <<>> /\ inTransit' = [inTransit EXCEPT ![p] = Append(inTransit[p], m)]
      BY <2>2 DEF RepeatData, Arrived
    <3>2. w \in Seq(KeyMessage) /\ w # <<>> /\ m = Head(w)
      BY <3>1, PartyFacts
    <3>3. m \in KeyMessage /\ m \in Wire(p)
      <4> HIDE DEF w, m
      <4>1. Head(w) = w[1] /\ 1 \in DOMAIN w /\ w[1] \in KeyMessage
        BY <3>2
      <4> QED  BY <3>2, <4>1 DEF Wire, w
    <3> HIDE DEF m, w
    <3> QED  BY <3>1, <3>3, WireSent
  <2>3. CASE UNCHANGED keysVars
    BY <2>3 DEF keysVars, Wire
  <2> QED  BY <2>1, <2>2, <2>3
<1>3. NumbersSpent'
  BY <1>1, <1>2 DEF NumbersSpent, Letters, Spent, Passed
<1> QED  BY <1>2, <1>3

LEMMA ReplayPast ==
  ASSUME KeysInv, KeysInv', NumbersSpent, NEW p \in Ends, RejectReplay(p)
  PROVE  NumbersSpent' /\ \A e \in Ends : Wire(e)' \subseteq Wire(e)
<1> DEFINE m == Head(inTransit[p])
           i == Mine(p, m)
           j == Yours(p, m)
           s == sesskeys[p][i][j]
           s2 == Marked(s, s.rcvctr)
           t == [sesskeys[p] EXCEPT ![i][j] = s2]
<1>1. /\ Arrived(p) /\ Genuine(p, m)
      /\ sesskeys' = [sesskeys EXCEPT ![p] = t]
      /\ inTransit' = [inTransit EXCEPT ![p] = Tail(inTransit[p])]
      /\ UNCHANGED <<conv, ourKeyid, theirKeyid, accepted>>
  BY DEF RejectReplay
<1>2. i \in Slot /\ j \in Slot
  BY <1>1, GenuineFacts
<1>3. sesskeys[p] \in Table /\ s \in SessKeys
  BY <1>2, PartyFacts, CellType
<1>4. s2 \in SessKeys /\ PairOf(s2) = PairOf(s) /\ s.rcvctr <= s2.rcvctr
  BY <1>3 DEF SessKeys, PairOf, Marked
<1> HIDE DEF s2, i, j
<1>5. t \in Table /\ Continues(t, sesskeys[p], conv[p], ourKeyid[p], theirKeyid[p])
  <2> DEFINE tab == sesskeys[p]
  <2>1. tab \in Table /\ PairOf(s2) = PairOf(tab[i][j]) /\ tab[i][j].rcvctr <= s2.rcvctr
        /\ t = [tab EXCEPT ![i][j] = s2]
    BY <1>3, <1>4
  <2> HIDE DEF tab, s, t
  <2>2. t \in Table /\ Continues(t, tab, conv[p], ourKeyid[p], theirKeyid[p])
    BY <1>2, <1>4, <2>1, ReplacedContinues
  <2> QED  BY <2>2 DEF tab
<1> HIDE DEF t
<1>6. \A e \in Ends : Wire(e)' \subseteq Wire(e) /\ Letters(e)' \subseteq Letters(e)
  BY <1>1, WireTaken DEF Arrived
<1>7. KeyTypes'
  BY DEF KeysInv
<1>8. NumbersSpent'
  BY <1>1, <1>5, <1>6, <1>7, PastKept
<1> QED  BY <1>6, <1>8

\* The rotations: what is new in the table is younger than all it held.
LEMMA DHContinues ==
  ASSUME NEW t \in Table, NEW c \in Conversation, NEW our \in Nat, NEW their \in Nat,
         NEW oldy \in DHKey
  PROVE  LET n == RotateDHKeys(t, <<c, our + 1>>, <<c, their>>, oldy).table
         IN  n \in Table /\ Continues(n, t, c, our, their)
<1> DEFINE n == RotateDHKeys(t, <<c, our + 1>>, <<c, their>>, oldy).table
<1>1. <<c, our + 1>> \in DHKey /\ <<c, their>> \in DHKey
  BY DEF DHKey, KeyId
<1>2. /\ n \in Table
      /\ n[0][0] = Session(<<c, our + 1>>, <<c, their>>)
      /\ n[0][1] = IF oldy = NoDHKey THEN BlankKeys ELSE Session(<<c, our + 1>>, oldy)
      /\ n[1][0] = t[0][0] /\ n[1][1] = t[0][1]
  BY <1>1, DHCells
<1> HIDE DEF n
<1>3. Younger(n[0][0], c, our, their)
  BY <1>2 DEF Younger, Session
<1>4. Younger(n[0][1], c, our, their)
  <2>1. BlankKeys.ours[1] = 0
    BY DEF BlankKeys, Session, NoDHKey
  <2>2. Session(<<c, our + 1>>, oldy).ours = <<c, our + 1>>
    BY DEF Session
  <2> QED  BY <1>2, <2>1, <2>2 DEF Younger
<1>5. Carried(n[1][0], t) /\ Carried(n[1][1], t)
  <2>1. \A l \in Slot : t[0][l].rcvctr <= t[0][l].rcvctr
    BY CellType DEF SessKeys, Slot
  <2> QED  BY <1>2, <2>1 DEF Carried, Slot
<1>6. \A k \in Slot : k = 0 \/ k = 1
  BY DEF Slot
<1> QED  BY <1>2, <1>3, <1>4, <1>5, <1>6 DEF Continues, n

LEMMA YContinues ==
  ASSUME NEW t \in Table, NEW c \in Conversation, NEW our \in Nat, NEW their \in Nat,
         our >= 1
  PROVE  LET n == RotateYKeys(t, <<c, our>>, <<c, our - 1>>, <<c, their + 1>>).table
         IN  n \in Table /\ Continues(n, t, c, our, their)
<1> DEFINE n == RotateYKeys(t, <<c, our>>, <<c, our - 1>>, <<c, their + 1>>).table
<1>1. <<c, our>> \in DHKey /\ <<c, our - 1>> \in DHKey /\ <<c, their + 1>> \in DHKey
  BY DEF DHKey, KeyId
<1>2. /\ n \in Table
      /\ n[0][0] = Session(<<c, our>>, <<c, their + 1>>) /\ n[0][1] = t[0][0]
      /\ n[1][0] = Session(<<c, our - 1>>, <<c, their + 1>>) /\ n[1][1] = t[1][0]
  BY <1>1, YCells
<1> HIDE DEF n
<1>3. Younger(n[0][0], c, our, their) /\ Younger(n[1][0], c, our, their)
  BY <1>2 DEF Younger, Session
<1>4. Carried(n[0][1], t) /\ Carried(n[1][1], t)
  <2>1. \A k \in Slot : t[k][0].rcvctr <= t[k][0].rcvctr
    BY CellType DEF SessKeys, Slot
  <2> QED  BY <1>2, <2>1 DEF Carried, Slot
<1>5. \A k \in Slot : k = 0 \/ k = 1
  BY DEF Slot
<1> QED  BY <1>2, <1>3, <1>4, <1>5 DEF Continues, n

\* A pair of keys is in one cell of the table at most, except for what an
\* earlier conversation left.
LEMMA OneCell ==
  ASSUME NEW t \in Table, NEW c \in Nat, NEW our \in Nat, NEW their \in Nat, NEW old \in BOOLEAN,
         Columns(t, c, our, their, old), NEW i \in Slot, NEW j \in Slot, t[i][j].ours[1] = c,
         NEW k \in Slot, NEW l \in Slot, PairOf(t[k][l]) = PairOf(t[i][j])
  PROVE  k = i /\ l = j
<1>1. \A a, b \in Slot : t[a][b].ours[1] = c =>
          PairOf(t[a][b]) = <<<<c, our - a>>, <<c, their - b>>>>
  <2> SUFFICES ASSUME NEW a \in Slot, NEW b \in Slot, t[a][b].ours[1] = c
               PROVE  PairOf(t[a][b]) = <<<<c, our - a>>, <<c, their - b>>>>
    OBVIOUS
  <2>1. b = 0 \/ b = 1
    BY DEF Slot
  <2>2. CASE b = 0
    <3>1. their - 0 = their
      OBVIOUS
    <3> QED  BY <2>2, <3>1 DEF Columns
  <2>3. CASE b = 1
    <3>1. old
      <4>1. ~(c < c)
        OBVIOUS
      <4> QED  BY <2>3, <4>1 DEF Columns
    <3> QED  BY <2>3, <3>1 DEF Columns
  <2> QED  BY <2>1, <2>2, <2>3
<1>2. t[k][l].ours[1] = c
  BY DEF PairOf
<1>3. our - k = our - i /\ their - l = their - j
  BY <1>1, <1>2
<1> QED  BY <1>3 DEF Slot

\* Accepting a message brings its own counter into the table, and the
\* rotations forget no counter of a pair of keys they keep.
LEMMA AcceptPast ==
  ASSUME KeysInv, KeysInv', Abreast, NumbersSpent, NEW p \in Ends, AcceptData(p)
  PROVE  NumbersSpent' /\ twice' = twice
<1> DEFINE m == Head(inTransit[p])
           i == Mine(p, m)
           j == Yours(p, m)
           c == conv[p]
           our == ourKeyid[p]
           their == theirKeyid[p]
           old == hasOldY[p]
           tab == sesskeys[p]
           s == tab[i][j]
           s2 == Marked(s, m.ctr)
           t0 == [tab EXCEPT ![i][j] = s2]
           oldy == IF old THEN TheirKey(p, 1) ELSE NoDHKey
           our2 == IF i = 0 THEN our + 1 ELSE our
           their2 == IF j = 0 THEN their + 1 ELSE their
           t1 == IF i = 0 THEN RotateDHKeys(t0, <<c, our + 1>>, TheirKey(p, 0), oldy).table
                          ELSE t0
           t2 == IF j = 0 THEN RotateYKeys(t1, <<c, our2>>, <<c, our2 - 1>>, m.next).table
                          ELSE t1
<1>1. /\ Arrived(p) /\ Genuine(p, m) /\ m.ctr > s.rcvctr
      /\ sesskeys' = [sesskeys EXCEPT ![p] = t2]
      /\ ourKeyid' = [ourKeyid EXCEPT ![p] = our2]
      /\ theirKeyid' = [theirKeyid EXCEPT ![p] = their2]
      /\ twice' = (twice \/ m.n \in accepted[p])
      /\ accepted' = [accepted EXCEPT ![p] = accepted[p] \cup {m.n}]
      /\ inTransit' = [inTransit EXCEPT ![p] = Tail(inTransit[p])]
      /\ UNCHANGED conv
  BY DEF AcceptData, Acceptable, Increasing
<1>2. /\ m \in DataMessage /\ i \in Slot /\ j \in Slot /\ c > 0 /\ s.ours[1] = c
      /\ j = 0 => m.next = <<c, their + 1>>
  BY <1>1, GenuineFacts
<1>3. /\ m \in Letters(p) /\ PairOf(s) = <<m.for, m.by>>
      /\ m.for[1] = c /\ m.by[2] = their - j /\ m.for[2] = our - i
  BY <1>1, GenuineKeys
<1>4. /\ c \in Conversation /\ c \in Nat /\ our \in Nat /\ their \in Nat /\ old \in BOOLEAN
      /\ tab \in Table /\ our >= 2 /\ their >= 1
      /\ Columns(tab, c, our, their, old)
  BY <1>2, PartyFacts DEF Sound, Ids
<1>5. TheirKey(p, 0) = <<c, their>> /\ oldy \in DHKey
  <2>1. their - 0 = their /\ their - 1 \in Nat
    BY <1>4
  <2>2. TheirKey(p, 0) = <<c, their>> /\ TheirKey(p, 1) = <<c, their - 1>>
    BY <2>1 DEF TheirKey
  <2>3. <<c, their - 1>> \in DHKey
    BY <1>4, <2>1 DEF DHKey, KeyId
  <2> QED  BY <2>2, <2>3, BlankType
<1>6. s \in SessKeys /\ s2 \in SessKeys /\ PairOf(s2) = PairOf(s) /\ s2.rcvctr = m.ctr
      /\ m.ctr \in Nat /\ s.rcvctr \in Nat
  <2>1. s \in SessKeys /\ m.ctr \in Nat
    BY <1>2, <1>4, CellType DEF DataMessage
  <2> HIDE DEF s, m
  <2> QED  BY <2>1, MarkedCell DEF Marked, SessKeys
<1>7. \A e \in Ends : Letters(e)' \subseteq Letters(e)
  <2>1. inTransit[p] # <<>>
    BY <1>1 DEF Arrived
  <2> HIDE DEF m
  <2> QED  BY <1>1, <2>1, WireTaken
<1>8. /\ sesskeys'[p] = t2 /\ ourKeyid'[p] = our2 /\ theirKeyid'[p] = their2 /\ conv'[p] = c
      /\ accepted'[p] = accepted[p] \cup {m.n}
      /\ \A e \in Ends : e # p =>
            /\ sesskeys'[e] = sesskeys[e] /\ ourKeyid'[e] = ourKeyid[e]
            /\ theirKeyid'[e] = theirKeyid[e] /\ conv'[e] = conv[e]
            /\ accepted'[e] = accepted[e]
  <2> HIDE DEF t2, our2, their2, m
  <2> QED  BY <1>1 DEF KeysInv, KeyTypes, HistoryTypes
<1>9. tab = sesskeys[p] /\ s = tab[i][j] /\ t0 = [tab EXCEPT ![i][j] = s2]
  OBVIOUS
<1>10. /\ i = 0 => t1 = RotateDHKeys(t0, <<c, our + 1>>, <<c, their>>, oldy).table
       /\ i # 0 => t1 = t0
       /\ j = 0 => t2 = RotateYKeys(t1, <<c, our2>>, <<c, our2 - 1>>, <<c, their + 1>>).table
       /\ j # 0 => t2 = t1
       /\ (i = 0 => our2 = our + 1) /\ (i # 0 => our2 = our)
       /\ (j = 0 => their2 = their + 1) /\ (j # 0 => their2 = their)
  BY <1>2, <1>5
<1> HIDE DEF m, i, j, tab, s, s2, t0, oldy, our2, their2, t1, t2
<1>11. t0 \in Table /\ Continues(t0, tab, c, our, their)
  <2>1. s.rcvctr <= s2.rcvctr
    BY <1>1, <1>6
  <2> HIDE DEF c, our, their
  <2> QED  BY <1>2, <1>4, <1>6, <1>9, <2>1, ReplacedContinues
<1>12. our2 \in Nat /\ their2 \in Nat /\ our2 >= our /\ their2 >= their /\ our2 >= 1
  <2> HIDE DEF c, our, their
  <2> QED  BY <1>4, <1>10
<1>13. t1 \in Table /\ t2 \in Table
       /\ \A n \in DataMessage : Passed(t0, c, our, their, n) => Passed(t2, c, our2, their2, n)
  <2> HIDE DEF c, our, their
  <2>1. t1 \in Table /\ Continues(t1, t0, c, our, their)
    <3>1. CASE i = 0
      BY <1>4, <1>5, <1>10, <1>11, <3>1, DHContinues
    <3>2. CASE i # 0
      BY <1>10, <1>11, <3>2, UnchangedContinues
    <3> QED  BY <3>1, <3>2
  <2>2. t2 \in Table /\ Continues(t2, t1, c, our2, their)
    <3>1. CASE j = 0
      BY <1>4, <1>10, <1>12, <2>1, <3>1, YContinues
    <3>2. CASE j # 0
      BY <1>10, <2>1, <3>2, UnchangedContinues
    <3> QED  BY <3>1, <3>2
  <2>3. ASSUME NEW n \in DataMessage, Passed(t0, c, our, their, n)
        PROVE  Passed(t2, c, our2, their2, n)
    <3>1. their >= their /\ our2 >= our2
      BY <1>4, <1>12
    <3>2. Passed(t1, c, our2, their, n)
      BY <1>4, <1>11, <1>12, <2>1, <2>3, <3>1, PassedKept
    <3> QED  BY <1>4, <1>12, <2>1, <2>2, <3>1, <3>2, PassedKept
  <2> QED  BY <2>1, <2>2, <2>3
<1>14. \A n \in DataMessage : Passed(tab, c, our, their, n) => Passed(t0, c, our, their, n)
  <2>1. our >= our /\ their >= their
    BY <1>4
  <2> HIDE DEF c, our, their
  <2> QED  BY <1>4, <1>11, <2>1, PassedKept
<1>15. Passed(t0, c, our, their, m)
  <2>1. m.for[1] > 0 /\ m.for[1] <= c /\ m.for[2] <= our /\ m.by[2] <= their
    <3> HIDE DEF c, our, their
    <3> QED  BY <1>2, <1>3, <1>4 DEF Slot
  <2>2. ASSUME NEW k \in Slot, NEW l \in Slot, PairOf(t0[k][l]) = <<m.for, m.by>>
        PROVE  m.ctr <= t0[k][l].rcvctr
    <3>1. /\ t0[i][j] = s2 /\ \A a, b \in Slot : a # i \/ b # j => t0[a][b] = tab[a][b]
      BY <1>2, <1>4, <1>6, <1>9 DEF Table
    <3>2. PairOf(tab[k][l]) = PairOf(tab[i][j])
      BY <1>3, <1>6, <1>9, <2>2, <3>1
    <3>3. k = i /\ l = j
      <4> HIDE DEF c, our, their, old
      <4> QED  BY <1>2, <1>4, <1>9, <3>2, OneCell
    <3>4. m.ctr <= m.ctr
      BY <1>6
    <3> QED  BY <1>6, <3>1, <3>3, <3>4
  <2> QED  BY <2>1, <2>2 DEF Passed
<1>16. m.n \notin accepted[p]
  <2>1. SUFFICES ASSUME m.n \in accepted[p] PROVE FALSE
    OBVIOUS
  <2>2. Passed(tab, c, our, their, m)
    BY <1>3, <1>9, <2>1 DEF NumbersSpent, Spent
  <2>3. m.ctr <= s.rcvctr
    BY <1>2, <1>3, <1>9, <2>2 DEF Passed
  <2> QED  BY <1>1, <1>6, <2>3
<1>17. ASSUME NEW e \in Ends, NEW n \in Letters(e)', n.n \in accepted'[e]
       PROVE  Spent(e, n)'
  <2>1. n \in Letters(e) /\ n \in DataMessage
    BY <1>7, NumberTypes
  <2>2. CASE e = p
    <3>1. CASE n.n \in accepted[p]
      <4>1. Passed(tab, c, our, their, n)
        BY <1>9, <2>1, <2>2, <3>1 DEF NumbersSpent, Spent
      <4>2. Passed(t2, c, our2, their2, n)
        BY <1>13, <1>14, <2>1, <4>1
      <4> QED  BY <1>8, <2>2, <4>2 DEF Spent
    <3>2. CASE n.n = m.n
      <4>1. n = m
        BY <1>3, <2>1, <2>2, <3>2 DEF Abreast, Numbered
      <4>2. Passed(t2, c, our2, their2, n)
        BY <1>13, <1>15, <2>1, <4>1
      <4> QED  BY <1>8, <2>2, <4>2 DEF Spent
    <3> QED  BY <1>8, <1>17, <2>2, <3>1, <3>2
  <2>3. CASE e # p
    <3>1. Spent(e, n)
      BY <1>8, <1>17, <2>1, <2>3 DEF NumbersSpent
    <3> QED  BY <1>8, <2>3, <3>1 DEF Spent, Passed
  <2> QED  BY <2>2, <2>3
<1>18. twice' = twice
  <2>1. twice \in BOOLEAN
    BY DEF KeysInv, HistoryTypes
  <2> QED  BY <1>1, <1>16, <2>1
<1> QED  BY <1>17, <1>18 DEF NumbersSpent

-----------------------------------------------------------------------------
(* The theorems about the messages.                                        *)

OnceInv == KeysInv /\ Abreast /\ NumbersSpent /\ ~twice

LEMMA InitOnce == KeysInit => OnceInv
<1> SUFFICES ASSUME KeysInit PROVE OnceInv
  OBVIOUS
<1>1. KeysInv /\ ~twice
  BY InitKeys DEF KeysInit
<1>2. ASSUME NEW p \in Ends PROVE Wire(p) = {} /\ Letters(p) = {} /\ accepted[p] = {}
  <2>1. DOMAIN <<>> = {} /\ inTransit[p] = <<>> /\ accepted[p] = {}
    BY DEF KeysInit
  <2> QED  BY <2>1 DEF Wire, Letters
<1>3. ASSUME NEW p \in Ends
      PROVE  Numbered(p) /\ Sender(p) /\ Receiver(p) /\ Rising(p) /\ Level(p)
  <2>1. Numbered(p) /\ Sender(p) /\ Receiver(p) /\ Rising(p)
    BY <1>2 DEF Numbered, Sender, Receiver, Rising
  <2>2. Correspondent(p) \in Ends
    BY TwoEnds
  <2>3. Level(p)
    BY <1>2, <2>2 DEF Level, KeysInit
  <2> QED  BY <2>1, <2>3
<1> QED  BY <1>1, <1>2, <1>3 DEF OnceInv, Abreast, NumbersSpent

LEMMA OnceKept == OnceInv /\ [KeysNext]_keysVars => OnceInv'
<1> SUFFICES ASSUME OnceInv, [KeysNext]_keysVars PROVE OnceInv'
  OBVIOUS
<1>1. KeysInv /\ KeysInv' /\ Abreast /\ NumbersSpent /\ ~twice
  BY KeysKept DEF OnceInv
<1>2. ASSUME NEW p \in Ends, ExchangeSecond(p) \/ ExchangeFirst(p) PROVE OnceInv'
  <2>1. Abreast' /\ NumbersSpent'
    BY <1>1, <1>2, SecondAbreast, FirstAbreast, ExchangePast
  <2>2. twice' = twice
    BY <1>2 DEF ExchangeSecond, ExchangeFirst
  <2> QED  BY <1>1, <2>1, <2>2 DEF OnceInv
<1>3. ASSUME NEW p \in Ends, Seal(p) PROVE OnceInv'
  <2>1. Abreast' /\ NumbersSpent'
    BY <1>1, <1>3, SealAbreast, SealPast
  <2>2. twice' = twice
    BY <1>3 DEF Seal
  <2> QED  BY <1>1, <2>1, <2>2 DEF OnceInv
<1>4. ASSUME NEW p \in Ends, AcceptData(p) PROVE OnceInv'
  <2>1. Abreast' /\ NumbersSpent' /\ twice' = twice
    BY <1>1, <1>4, AcceptAbreast, AcceptPast
  <2> QED  BY <1>1, <2>1 DEF OnceInv
<1>5. ASSUME NEW p \in Ends, RejectReplay(p) PROVE OnceInv'
  <2>1. NumbersSpent' /\ \A e \in Ends : Wire(e)' \subseteq Wire(e)
    BY <1>1, <1>5, ReplayPast
  <2>2. UNCHANGED <<conv, ourKeyid, theirKeyid, hasOldY, sealed, accepted, twice>>
    BY <1>5 DEF RejectReplay
  <2>3. Abreast'
    BY <1>1, <2>1, <2>2, StaysAbreast
  <2> QED  BY <1>1, <2>1, <2>2, <2>3 DEF OnceInv
<1>6. ASSUME NEW p \in Ends,
             RejectUnknown(p) \/ LoseData(p) \/ RepeatData(p) \/ UNCHANGED keysVars
      PROVE  OnceInv'
  <2>1. NumbersSpent' /\ \A e \in Ends : Wire(e)' \subseteq Wire(e)
    BY <1>1, <1>6, DropPast
  <2>2. UNCHANGED <<conv, ourKeyid, theirKeyid, hasOldY, sealed, accepted, twice>>
    BY <1>6 DEF RejectUnknown, LoseData, RepeatData, keysVars
  <2>3. Abreast'
    BY <1>1, <2>1, <2>2, StaysAbreast
  <2> QED  BY <1>1, <2>1, <2>2, <2>3 DEF OnceInv
<1>7. CASE UNCHANGED keysVars
  <2>1. \E e \in Ends : TRUE
    BY EndsAssumption
  <2> QED  BY <1>6, <1>7, <2>1
<1> QED  BY <1>2, <1>3, <1>4, <1>5, <1>6, <1>7 DEF KeysNext

\* The parties stay at most one key apart, and whatever has been accepted is
\* remembered as long as its keys are, in every reachable state.
THEOREM OnceInvariant == KeysSpec => []OnceInv
<1> QED  BY InitOnce, OnceKept, PTL DEF KeysSpec

\* A message that is delivered again, at any time and however the table has
\* been rotated or installed anew since, is never accepted a second time.
THEOREM NeverAcceptedTwice == KeysSpec => []AcceptedOnce
<1>1. OnceInv => AcceptedOnce
  BY DEF OnceInv, AcceptedOnce
<1> QED  BY <1>1, OnceInvariant, PTL

\* Whatever the two sides' rotations and what is lost, a message that comes
\* for the first time, in its order and in the receiver's conversation finds
\* both its keys in the receiver's table.
THEOREM ReadableInOrder == KeysSpec => []StaysReadable
<1>1. OnceInv => StaysReadable
  <2> SUFFICES ASSUME OnceInv, NEW p \in Ends, Arrived(p),
                      NEW m, m = Head(inTransit[p]), m.by[1] = conv[p],
                      accepted[p] \cap (m.n)..MaxData = {}
               PROVE  Genuine(p, m)
    BY DEF StaysReadable
  <2> DEFINE c == conv[p]
             our == ourKeyid[p]
             their == theirKeyid[p]
             i == Mine(p, m)
             j == Yours(p, m)
  <2>1. KeysInv /\ Sender(p) /\ Receiver(p) /\ Level(p)
    BY DEF OnceInv, Abreast
  <2>2. m \in Letters(p)
    <3> DEFINE w == inTransit[p]
    <3>1. w \in Seq(KeyMessage) /\ w # <<>> /\ m = Head(w) /\ m.type = "data"
      BY <2>1, PartyFacts DEF Arrived
    <3> HIDE DEF w
    <3>2. 1 \in DOMAIN w /\ Head(w) = w[1]
      BY <3>1
    <3> QED  BY <3>1, <3>2 DEF Letters, Wire, w
  <2>3. /\ m.n \in Nat /\ m.by \in DHKey /\ m.for \in DHKey
        /\ m.by[2] \in Nat /\ m.for[2] \in Nat
        /\ our \in Nat /\ their \in Nat /\ c \in Nat
    BY <2>1, <2>2, NumberTypes
  <2>4. Latest(p, m)
    <3>1. accepted[p] \in SUBSET (1..MaxData) /\ MaxData \in Nat
      BY <2>1, NumberTypes
    <3>2. \A a \in 1..MaxData : a \notin (m.n)..MaxData => a < m.n
      BY <2>3, <3>1
    <3> QED  BY <3>1, <3>2 DEF Latest
  <2>5. /\ m.for[1] = c /\ c > 0 /\ m.by[2] >= 1 /\ m.for[2] >= 1
    BY <2>1, <2>2 DEF Sender
  <2>6. /\ m.by[2] <= their /\ m.for[2] <= our
        /\ m.by[2] >= their - 1 /\ m.for[2] >= our - 1
    BY <2>1, <2>2, <2>4 DEF Receiver
  <2>7. i = our - m.for[2] /\ j = their - m.by[2]
    BY DEF Mine, Yours
  <2>8. their >= 2 => hasOldY[p]
    BY <2>1 DEF Level
  <2>9. Columns(sesskeys[p], c, our, their, hasOldY[p])
    BY <2>1, <2>5, PartyFacts DEF Sound
  <2> HIDE DEF c, our, their, i, j
  <2>10. /\ i \in Slot /\ j \in Slot /\ their > 0
         /\ m.for[2] = our - i /\ m.by[2] = their - j /\ (j = 1 => their >= 2)
    <3>1. (i = 0 \/ i = 1) /\ (j = 0 \/ j = 1)
      BY <2>3, <2>6, <2>7
    <3> QED  BY <2>3, <2>5, <2>7, <3>1 DEF Slot
  <2>11. Known(p, m)
    <3>1. m.by[2] > 0 /\ m.for[2] > 0
      BY <2>3, <2>5
    <3> QED  BY <2>8, <2>10, <3>1 DEF Known, i, j, their
  <2>12. m.for = <<c, our - i>> /\ m.by = <<c, their - j>>
    <3>1. \A d \in DHKey : d = <<d[1], d[2]>>
      BY DEF DHKey
    <3> QED  BY <2>3, <2>5, <2>10, <3>1 DEF c
  <2>13. PairOf(sesskeys[p][i][j]) = <<<<c, our - i>>, <<c, their - j>>>>
    <3>1. their - 0 = their
      BY <2>3
    <3>2. j = 0 \/ j = 1
      BY <2>10 DEF Slot
    <3> QED  BY <2>8, <2>9, <2>10, <3>1, <3>2 DEF Columns
  <2> QED  BY <2>11, <2>12, <2>13 DEF Genuine, PairOf, i, j
<1> QED  BY <1>1, OnceInvariant, PTL
=============================================================================
