----------------------------- MODULE Hub_proofs -----------------------------
(***************************************************************************)
(* Theorems about Hub: types, and that the cache mirrors the platform, for *)
(* any number of contacts, messages and ids.                               *)
(*                                                                         *)
(* InStep is not inductive: whether an update finds the item it looks for  *)
(* depends on each conversation having one item at most, whether a new     *)
(* item gets an id of its own on ids ending at the last one, whether the   *)
(* mark of a new message can be mistaken on no item being later than the   *)
(* last message, and what a start finds on what the settings had when the  *)
(* process ended.  HubInv says all this of the table the service has, or   *)
(* will have.                                                              *)
(***************************************************************************)
EXTENDS Hub, SequenceTheorems, FiniteSetTheorems, WellFoundedInduction, TLAPS

-----------------------------------------------------------------------------
(* Sequences of items.                                                     *)

\* A set of naturals that is not empty has a least element, as the loops over
\* the cached items find it.
LEMMA LeastNatural ==
    ASSUME NEW A, A \subseteq Nat, A # {}
    PROVE  \E k \in A : \A j \in A : k <= j
<1> DEFINE R == StrictSubsetOrdering(Nat)
           T == {0..k : k \in A}
<1>1. \A k \in A : 0..k \in FiniteSubsetsOf(Nat)
      <2> SUFFICES ASSUME NEW k \in A PROVE 0..k \in FiniteSubsetsOf(Nat)
          OBVIOUS
      <2>1. k \in Nat OBVIOUS
      <2>2. IsFiniteSet(0..k) BY <2>1, FS_Interval
      <2>3. 0..k \subseteq Nat BY <2>1
      <2> QED BY <2>2, <2>3 DEF FiniteSubsetsOf
<1>2. T \subseteq FiniteSubsetsOf(Nat) /\ T # {} BY <1>1
<1>3. IsWellFoundedOn(R, FiniteSubsetsOf(Nat))
      BY FS_StrictSubsetOrderingWellFounded
<1>4. \E x \in T : \A y \in T : <<y, x>> \notin R
      <2> HIDE DEF R, T
      <2> QED BY <1>2, <1>3, WFMin
<1>5. PICK k \in A : \A j \in A : <<0..j, 0..k>> \notin R BY <1>4
<1>6. ASSUME NEW j \in A, j < k PROVE FALSE
      <2>1. j \in Nat /\ k \in Nat OBVIOUS
      <2>2. 0..j \subseteq 0..k /\ 0..j # 0..k /\ 0..j \subseteq Nat /\ 0..k \subseteq Nat
            <3>1. k \in 0..k /\ k \notin 0..j BY <1>6, <2>1
            <3>2. 0..j \subseteq 0..k BY <1>6, <2>1
            <3> QED BY <2>1, <3>1, <3>2
      <2>3. <<0..j, 0..k>> \in R BY <2>2 DEF StrictSubsetOrdering
      <2> QED BY <1>5, <2>3
<1>7. \A j \in A : k <= j BY <1>6
<1> QED BY <1>7

\* The place of an item is the place of an item with that id.
LEMMA PlaceFacts ==
    ASSUME NEW id, items \in Seq(Item)
    PROVE  \/ Place(id) = 0 /\ \A i \in 1..Len(items) : items[i].id # id
           \/ Place(id) \in 1..Len(items) /\ items[Place(id)].id = id
<1> DEFINE A == {i \in 1..Len(items) : items[i].id = id}
           First(i) == items[i].id = id /\ \A j \in 1..(i - 1) : items[j].id # id
<1>1. Len(items) \in Nat /\ DOMAIN items = 1..Len(items) BY LenProperties
<1>2. CASE A = {}
      BY <1>1, <1>2 DEF Place
<1>3. CASE A # {}
      <2>1. A \subseteq Nat BY <1>1
      <2>2. PICK k \in A : \A j \in A : k <= j BY <1>3, <2>1, LeastNatural
      <2>3. ASSUME NEW j \in 1..(k - 1), items[j].id = id PROVE FALSE
            <3>1. k \in 1..Len(items) BY <2>2
            <3>2. j \in 1..Len(items) /\ ~(k <= j) BY <1>1, <3>1
            <3> QED BY <2>2, <2>3, <3>2
      <2>4. k \in DOMAIN items /\ First(k) BY <1>1, <2>2, <2>3
      <2>5. Place(id) = CHOOSE i \in DOMAIN items : First(i)
            BY <2>4 DEF Place
      <2>6. Place(id) \in DOMAIN items /\ First(Place(id))
            <3> HIDE DEF First
            <3> QED BY <2>4, <2>5
      <2> QED BY <1>1, <2>6
<1> QED BY <1>2, <1>3

\* Without leaves out one place.
LEMMA WithoutFacts ==
    ASSUME NEW s \in Seq(Item), NEW n \in 1..Len(s)
    PROVE  /\ Without(s, n) \in Seq(Item)
           /\ Len(Without(s, n)) = Len(s) - 1
           /\ \A i \in 1..(Len(s) - 1) :
                 Without(s, n)[i] = IF i < n THEN s[i] ELSE s[i + 1]
<1> DEFINE a == SubSeq(s, 1, n - 1)
           b == SubSeq(s, n + 1, Len(s))
<1>1. Len(s) \in Nat /\ \A i \in 1..Len(s) : s[i] \in Item
      BY LenProperties, ElementOfSeq
<1>2. /\ a \in Seq(Item) /\ Len(a) = n - 1
      /\ \A i \in 1..(n - 1) : a[i] = s[i]
      <2>1. \A i \in 1..(n - 1) : s[i] \in Item BY <1>1
      <2>2. 1 \in Int /\ n - 1 \in Int BY <1>1
      <2>3. /\ a \in Seq(Item) /\ Len(a) = IF 1 <= n - 1 THEN (n - 1) - 1 + 1 ELSE 0
            /\ \A i \in 1..((n - 1) - 1 + 1) : a[i] = s[1 + i - 1]
            BY <2>1, <2>2, SubSeqProperties
      <2> QED BY <1>1, <2>3
<1>3. /\ b \in Seq(Item) /\ Len(b) = Len(s) - n
      /\ \A i \in 1..(Len(s) - n) : b[i] = s[n + i]
      <2>1. \A i \in (n + 1)..Len(s) : s[i] \in Item BY <1>1
      <2>2. n + 1 \in Int /\ Len(s) \in Int BY <1>1
      <2>3. /\ b \in Seq(Item)
            /\ Len(b) = IF n + 1 <= Len(s) THEN Len(s) - (n + 1) + 1 ELSE 0
            /\ \A i \in 1..(Len(s) - (n + 1) + 1) : b[i] = s[n + 1 + i - 1]
            BY <2>1, <2>2, SubSeqProperties
      <2> QED BY <1>1, <2>3
<1>4. /\ a \o b \in Seq(Item) /\ Len(a \o b) = Len(a) + Len(b)
      /\ \A i \in 1..(Len(a) + Len(b)) :
            (a \o b)[i] = IF i <= Len(a) THEN a[i] ELSE b[i - Len(a)]
      <2> HIDE DEF a, b
      <2> QED BY <1>2, <1>3, ConcatProperties
<1>5. Without(s, n) = a \o b BY DEF Without
<1>6. ASSUME NEW i \in 1..(Len(s) - 1)
      PROVE  (a \o b)[i] = IF i < n THEN s[i] ELSE s[i + 1]
      <2> HIDE DEF a, b
      <2>1. CASE i < n BY <1>1, <1>2, <1>3, <1>4, <2>1
      <2>2. CASE ~(i < n)
            <3>1. (a \o b)[i] = b[i - (n - 1)] BY <1>1, <1>2, <1>3, <1>4, <2>2
            <3>2. i - (n - 1) \in 1..(Len(s) - n) /\ n + (i - (n - 1)) = i + 1
                  BY <1>1, <2>2
            <3>3. b[i - (n - 1)] = s[n + (i - (n - 1))] BY <1>3, <3>2
            <3> QED BY <2>2, <3>1, <3>2, <3>3
      <2> QED BY <2>1, <2>2
<1>7. Len(a \o b) = Len(s) - 1
      <2> HIDE DEF a, b
      <2> QED BY <1>1, <1>2, <1>3, <1>4
<1>8. a \o b \in Seq(Item) BY <1>4
<1> HIDE DEF a, b
<1> QED BY <1>5, <1>6, <1>7, <1>8

-----------------------------------------------------------------------------
(* The invariant.                                                          *)

\* The cached items s, and the items h of the platform, are the same; each
\* conversation has one at most, and ids end at the last one given.
Same(s, h) ==
    /\ \A i \in 1..Len(s) : s[i].id \in DOMAIN h
    /\ \A id \in DOMAIN h : \E i \in 1..Len(s) : s[i].id = id
    /\ \A i \in 1..Len(s) : h[s[i].id].who = s[i].who /\ h[s[i].id].when = s[i].when

OneEach(s, last) ==
    /\ \A i, j \in 1..Len(s) : s[i].id = s[j].id => i = j
    /\ \A i, j \in 1..Len(s) : s[i].who = s[j].who => i = j
    /\ \A i \in 1..Len(s) : s[i].id <= last

\* The marks of h are those of the previews p, of the same messages.
SameMarks(s, h, p) ==
    \A i \in 1..Len(s) :
        p[s[i].who].when = s[i].when => h[s[i].id].read = p[s[i].who].read

\* No item is of a later message than the last one.
NoneLater(s, now) == \A i \in 1..Len(s) : s[i].when <= now

\* The service's table s, with the last id it gave, as it should be.
Fits(s, last) ==
    /\ ~shaky => Same(s, hub) /\ OneEach(s, last) /\ NoneLater(s, clock)
    /\ ~shaky /\ ~missed => SameMarks(s, hub, preview)

\* The items of a loop that marks are cached.
LoopIsCached ==
    work.kind = "markRead" =>
        \A k \in 1..Len(work.todo) : \E i \in 1..Len(items) : items[i] = work.todo[k]

\* What the service has while it runs, and what it will have when it starts.
HubInv ==
    /\ HubTypeOK
    /\ \A c \in Contact : preview[c].when <= clock
    /\ running => nextItemId # 0
    /\ work.kind # "none" => running
    /\ work.kind = "repopulate" => shaky
    /\ LoopIsCached
    /\ IF running THEN Fits(items, lastItemId) ELSE Fits(disk.items, disk.last)

\* The changes to the tables, by name.
Put(h, id, v) == [i \in DOMAIN h \cup {id} |-> IF i = id THEN v ELSE h[i]]
Change(f, k, v) == [f EXCEPT ![k] = v]
Cut(h, id) == [i \in DOMAIN h \ {id} |-> h[i]]

LEMMA InvInStep == HubInv => InStep
<1> SUFFICES ASSUME HubInv, running, ~shaky
             PROVE  /\ DOMAIN hub = {items[i].id : i \in DOMAIN items}
                    /\ \A i \in DOMAIN items :
                          LET it == items[i]  p == preview[it.who] IN
                          /\ hub[it.id].who = it.who /\ hub[it.id].when = it.when
                          /\ ~missed /\ p.when = it.when => hub[it.id].read = p.read
                    /\ \A i, j \in DOMAIN items : items[i].id = items[j].id => i = j
    BY DEF InStep
<1>1. DOMAIN items = 1..Len(items) BY LenProperties DEF HubInv, HubTypeOK
<1>2. Same(items, hub) /\ OneEach(items, lastItemId) BY DEF HubInv, Fits
<1>3. ~missed => SameMarks(items, hub, preview) BY DEF HubInv, Fits
<1>4. DOMAIN hub = {items[i].id : i \in DOMAIN items} BY <1>1, <1>2 DEF Same
<1>5. ASSUME NEW i \in DOMAIN items
      PROVE  LET it == items[i]  p == preview[it.who] IN
             /\ hub[it.id].who = it.who /\ hub[it.id].when = it.when
             /\ ~missed /\ p.when = it.when => hub[it.id].read = p.read
      <2>1. hub[items[i].id].who = items[i].who /\ hub[items[i].id].when = items[i].when
            BY <1>1, <1>2 DEF Same
      <2>2. ASSUME ~missed, preview[items[i].who].when = items[i].when
            PROVE  hub[items[i].id].read = preview[items[i].who].read
            BY <1>1, <1>3, <2>2, Zenon DEF SameMarks
      <2> QED BY <2>1, <2>2, Zenon
<1>6. \A i, j \in DOMAIN items : items[i].id = items[j].id => i = j
      BY <1>1, <1>2 DEF OneEach
<1> QED BY <1>4, <1>5, <1>6

-----------------------------------------------------------------------------
(* What an operation on the two tables preserves.                          *)

\* A new item, under the id after the last one, for a conversation without.
LEMMA AddedStays ==
    ASSUME NEW s \in Seq(Item), NEW h, NEW last \in Nat, NEW it \in Item, NEW v,
           Same(s, h), OneEach(s, last), it.id = last + 1,
           v.who = it.who, v.when = it.when,
           \A i \in 1..Len(s) : s[i].who # it.who
    PROVE  LET t == Append(s, it)
               g == Put(h, it.id, v)
           IN  Same(t, g) /\ OneEach(t, it.id)
<1> DEFINE t == Append(s, it)
           g == Put(h, it.id, v)
<1>1. /\ Len(s) \in Nat /\ Len(t) = Len(s) + 1
      /\ \A i \in 1..Len(s) : t[i] = s[i]
      /\ t[Len(s) + 1] = it
      BY AppendProperties, LenProperties
<1>2. \A i \in 1..Len(t) : i \in 1..Len(s) \/ i = Len(s) + 1 BY <1>1
<1>3. \A i \in 1..Len(s) : s[i].id # it.id /\ s[i].id \in Nat
      <2>1. \A i \in 1..Len(s) : s[i] \in Item BY ElementOfSeq
      <2> QED BY <2>1 DEF OneEach, Item, Id
<1>4. 1..Len(s) \subseteq 1..Len(t) /\ Len(s) + 1 \in 1..Len(t) BY <1>1
<1>5. /\ DOMAIN g = DOMAIN h \cup {it.id} /\ g[it.id] = v
      /\ \A id \in DOMAIN h : id # it.id => g[id] = h[id]
      BY DEF Put
<1> HIDE DEF t, g
<1>6. Same(t, g)
      <2>1. ASSUME NEW i \in 1..Len(t)
            PROVE  t[i].id \in DOMAIN g /\ g[t[i].id].who = t[i].who
                   /\ g[t[i].id].when = t[i].when
            <3>1. CASE i \in 1..Len(s)
                  <4>1. t[i] = s[i] BY <1>1, <3>1
                  <4>2. s[i].id \in DOMAIN h /\ s[i].id # it.id BY <1>3, <3>1 DEF Same
                  <4>3. g[s[i].id] = h[s[i].id] BY <1>5, <4>2
                  <4>4. h[s[i].id].who = s[i].who /\ h[s[i].id].when = s[i].when
                        BY <3>1 DEF Same
                  <4> QED BY <1>5, <4>1, <4>2, <4>3, <4>4
            <3>2. CASE i = Len(s) + 1 BY <1>1, <1>5, <3>2
            <3> QED BY <1>2, <3>1, <3>2
      <2>2. ASSUME NEW id \in DOMAIN g PROVE \E i \in 1..Len(t) : t[i].id = id
            <3>1. CASE id = it.id BY <1>1, <1>4, <3>1
            <3>2. CASE id # it.id
                  <4>1. PICK i \in 1..Len(s) : s[i].id = id BY <1>5, <3>2 DEF Same
                  <4> QED BY <1>1, <1>4, <4>1
            <3> QED BY <3>1, <3>2
      <2> QED BY <2>1, <2>2, Zenon DEF Same
<1>7. OneEach(t, it.id)
      <2>1. \A i, j \in 1..Len(t) : t[i].id = t[j].id => i = j
            BY <1>1, <1>2, <1>3 DEF OneEach
      <2>2. \A i, j \in 1..Len(t) : t[i].who = t[j].who => i = j
            BY <1>1, <1>2 DEF OneEach
      <2>3. \A i \in 1..Len(t) : t[i].id <= it.id
            BY <1>1, <1>2, <1>3 DEF OneEach
      <2> QED BY <2>1, <2>2, <2>3 DEF OneEach
<1> QED BY <1>6, <1>7 DEF t, g

\* A newer message of a conversation that has an item.
LEMMA UpdatedStays ==
    ASSUME NEW s \in Seq(Item), NEW h, NEW last, NEW n \in 1..Len(s), NEW it \in Item, NEW v,
           Same(s, h), OneEach(s, last), it.id = s[n].id, it.who = s[n].who,
           v.who = it.who, v.when = it.when
    PROVE  LET t == Change(s, n, it)
               g == Change(h, it.id, v)
           IN  Same(t, g) /\ OneEach(t, last)
<1> DEFINE t == Change(s, n, it)
           g == Change(h, it.id, v)
<1>1. /\ Len(t) = Len(s)
      /\ \A i \in 1..Len(s) : t[i] = IF i = n THEN it ELSE s[i]
      BY ExceptSeq DEF Change
<1>2. \A i \in 1..Len(s) : i # n => s[i].id # it.id BY DEF OneEach
<1>3. DOMAIN g = DOMAIN h /\ \A id \in DOMAIN h : g[id] = IF id = it.id THEN v ELSE h[id]
      BY DEF Change
<1> HIDE DEF t, g
<1>4. Same(t, g)
      <2>1. ASSUME NEW i \in 1..Len(t)
            PROVE  t[i].id \in DOMAIN g /\ g[t[i].id].who = t[i].who
                   /\ g[t[i].id].when = t[i].when
            <3>1. s[i].id \in DOMAIN h /\ h[s[i].id].who = s[i].who
                  /\ h[s[i].id].when = s[i].when
                  BY <1>1 DEF Same
            <3>2. CASE i = n BY <1>1, <1>3, <3>1, <3>2
            <3>3. CASE i # n
                  <4>1. t[i] = s[i] /\ s[i].id # it.id BY <1>1, <1>2, <3>3
                  <4>2. g[s[i].id] = h[s[i].id] BY <1>3, <3>1, <4>1
                  <4> QED BY <1>3, <3>1, <4>1, <4>2
            <3> QED BY <3>2, <3>3
      <2>2. ASSUME NEW id \in DOMAIN g PROVE \E i \in 1..Len(t) : t[i].id = id
            <3>1. PICK i \in 1..Len(s) : s[i].id = id BY <1>3 DEF Same
            <3> QED BY <1>1, <3>1
      <2> QED BY <2>1, <2>2, Zenon DEF Same
<1>5. OneEach(t, last) BY <1>1 DEF OneEach
<1> QED BY <1>4, <1>5 DEF t, g

\* An item that is removed; the last id may be taken back with it.
LEMMA RemovedStays ==
    ASSUME NEW s \in Seq(Item), NEW h, NEW last \in Nat, NEW n \in 1..Len(s),
           Same(s, h), OneEach(s, last)
    PROVE  LET t == Without(s, n)
               g == Cut(h, s[n].id)
           IN  /\ Same(t, g) /\ OneEach(t, last)
               /\ s[n].id = last => OneEach(t, last - 1)
<1> DEFINE t == Without(s, n)
           g == Cut(h, s[n].id)
           Old(i) == IF i < n THEN i ELSE i + 1
<1>1. /\ Len(s) \in Nat /\ Len(t) = Len(s) - 1
      /\ \A i \in 1..(Len(s) - 1) : t[i] = IF i < n THEN s[i] ELSE s[i + 1]
      BY WithoutFacts, LenProperties
<1>2. \A i \in 1..Len(t) : Old(i) \in 1..Len(s) /\ Old(i) # n /\ t[i] = s[Old(i)]
      BY <1>1
<1>3. \A i, j \in 1..Len(t) : Old(i) = Old(j) => i = j BY <1>1
<1>4. \A k \in 1..Len(s) : k # n => \E i \in 1..Len(t) : Old(i) = k
      <2> SUFFICES ASSUME NEW k \in 1..Len(s), k # n PROVE \E i \in 1..Len(t) : Old(i) = k
          OBVIOUS
      <2>1. CASE k < n
            <3>1. k \in 1..Len(t) BY <1>1, <2>1
            <3> QED BY <2>1, <3>1
      <2>2. CASE k > n
            <3>1. k - 1 \in 1..Len(t) /\ ~(k - 1 < n) /\ (k - 1) + 1 = k BY <1>1, <2>2
            <3> QED BY <3>1
      <2> QED BY <2>1, <2>2
<1>5. /\ DOMAIN g = DOMAIN h \ {s[n].id}
      /\ \A id \in DOMAIN h : id # s[n].id => g[id] = h[id]
      BY DEF Cut
<1>6. \A i \in 1..Len(s) : s[i].id \in Nat
      <2>1. \A i \in 1..Len(s) : s[i] \in Item BY ElementOfSeq
      <2> QED BY <2>1 DEF Item, Id
<1> HIDE DEF t, g, Old
<1>7. Same(t, g)
      <2>1. ASSUME NEW i \in 1..Len(t)
            PROVE  t[i].id \in DOMAIN g /\ g[t[i].id].who = t[i].who
                   /\ g[t[i].id].when = t[i].when
            <3>1. Old(i) \in 1..Len(s) /\ Old(i) # n /\ t[i] = s[Old(i)] BY <1>2
            <3>2. s[Old(i)].id \in DOMAIN h /\ h[s[Old(i)].id].who = s[Old(i)].who
                  /\ h[s[Old(i)].id].when = s[Old(i)].when
                  BY <3>1 DEF Same
            <3>3. s[Old(i)].id # s[n].id BY <3>1 DEF OneEach
            <3>4. g[s[Old(i)].id] = h[s[Old(i)].id] BY <1>5, <3>2, <3>3
            <3> QED BY <1>5, <3>1, <3>2, <3>3, <3>4
      <2>2. ASSUME NEW id \in DOMAIN g PROVE \E i \in 1..Len(t) : t[i].id = id
            <3>1. PICK k \in 1..Len(s) : s[k].id = id BY <1>5 DEF Same
            <3>2. k # n BY <1>5, <3>1
            <3>3. PICK i \in 1..Len(t) : Old(i) = k BY <1>4, <3>2
            <3> QED BY <1>2, <3>1, <3>3
      <2>3. \A i \in 1..Len(t) : t[i].id \in DOMAIN g BY <2>1
      <2>4. \A i \in 1..Len(t) :
               g[t[i].id].who = t[i].who /\ g[t[i].id].when = t[i].when
            BY <2>1
      <2>5. \A id \in DOMAIN g : \E i \in 1..Len(t) : t[i].id = id BY <2>2
      <2> QED BY <2>3, <2>4, <2>5 DEF Same
<1>8. OneEach(t, last)
      <2>1. ASSUME NEW i \in 1..Len(t), NEW j \in 1..Len(t)
            PROVE  /\ t[i].id = t[j].id => i = j
                   /\ t[i].who = t[j].who => i = j
            <3>1. /\ Old(i) \in 1..Len(s) /\ t[i] = s[Old(i)]
                  /\ Old(j) \in 1..Len(s) /\ t[j] = s[Old(j)]
                  BY <1>2
            <3>2. /\ s[Old(i)].id = s[Old(j)].id => Old(i) = Old(j)
                  /\ s[Old(i)].who = s[Old(j)].who => Old(i) = Old(j)
                  BY <3>1 DEF OneEach
            <3>3. Old(i) = Old(j) => i = j BY <1>3
            <3> QED BY <3>1, <3>2, <3>3
      <2>2. ASSUME NEW i \in 1..Len(t) PROVE t[i].id <= last
            <3>1. Old(i) \in 1..Len(s) /\ t[i] = s[Old(i)] BY <1>2
            <3> QED BY <3>1 DEF OneEach
      <2>3. \A i, j \in 1..Len(t) : t[i].id = t[j].id => i = j BY <2>1
      <2>4. \A i, j \in 1..Len(t) : t[i].who = t[j].who => i = j BY <2>1
      <2> QED BY <2>2, <2>3, <2>4 DEF OneEach
<1>9. s[n].id = last => OneEach(t, last - 1)
      <2> SUFFICES ASSUME s[n].id = last PROVE \A i \in 1..Len(t) : t[i].id <= last - 1
          BY <1>8 DEF OneEach
      <2>1. \A i \in 1..Len(t) : t[i].id <= last /\ t[i].id # last /\ t[i].id \in Nat
            BY <1>2, <1>6, <1>8 DEF OneEach
      <2> QED BY <2>1
<1> QED BY <1>7, <1>8, <1>9 DEF t, g

\* The messages the items are of.
LEMMA AddedLater ==
    ASSUME NEW s \in Seq(Item), NEW now, NEW it \in Item, NoneLater(s, now), it.when <= now
    PROVE  NoneLater(Append(s, it), now)
<1> DEFINE t == Append(s, it)
<1>1. /\ Len(s) \in Nat /\ Len(t) = Len(s) + 1
      /\ \A i \in 1..Len(s) : t[i] = s[i]
      /\ t[Len(s) + 1] = it
      BY AppendProperties, LenProperties
<1>2. \A i \in 1..Len(t) : i \in 1..Len(s) \/ i = Len(s) + 1 BY <1>1
<1> HIDE DEF t
<1>3. NoneLater(t, now) BY <1>1, <1>2 DEF NoneLater
<1> QED BY <1>3 DEF t

LEMMA UpdatedLater ==
    ASSUME NEW s \in Seq(Item), NEW now, NEW n \in 1..Len(s), NEW it \in Item,
           NoneLater(s, now), it.when <= now
    PROVE  NoneLater(Change(s, n, it), now)
<1>1. /\ Len(Change(s, n, it)) = Len(s)
      /\ \A i \in 1..Len(s) : Change(s, n, it)[i] = IF i = n THEN it ELSE s[i]
      BY ExceptSeq DEF Change
<1> QED BY <1>1 DEF NoneLater

LEMMA RemovedLater ==
    ASSUME NEW s \in Seq(Item), NEW now, NEW n \in 1..Len(s), NoneLater(s, now)
    PROVE  NoneLater(Without(s, n), now)
<1> DEFINE t == Without(s, n)
<1>1. /\ Len(s) \in Nat /\ Len(t) = Len(s) - 1
      /\ \A i \in 1..(Len(s) - 1) : t[i] = IF i < n THEN s[i] ELSE s[i + 1]
      BY WithoutFacts, LenProperties
<1>2. \A i \in 1..Len(t) : i \in 1..Len(s) /\ i + 1 \in 1..Len(s) BY <1>1
<1> HIDE DEF t
<1>3. NoneLater(t, now) BY <1>1, <1>2 DEF NoneLater
<1> QED BY <1>3 DEF t

\* The marks, when an item is added ...
LEMMA AddedMarks ==
    ASSUME NEW s \in Seq(Item), NEW h, NEW p, NEW it \in Item, NEW v, NEW last \in Nat,
           Same(s, h), OneEach(s, last), it.id = last + 1, SameMarks(s, h, p),
           p[it.who].when = it.when => v.read = p[it.who].read
    PROVE  SameMarks(Append(s, it),
                     Put(h, it.id, v), p)
<1> DEFINE t == Append(s, it)
           g == Put(h, it.id, v)
<1>1. /\ Len(s) \in Nat /\ Len(t) = Len(s) + 1
      /\ \A i \in 1..Len(s) : t[i] = s[i]
      /\ t[Len(s) + 1] = it
      BY AppendProperties, LenProperties
<1>2. \A i \in 1..Len(t) : i \in 1..Len(s) \/ i = Len(s) + 1 BY <1>1
<1>3. \A i \in 1..Len(s) : s[i].id # it.id
      <2>1. \A i \in 1..Len(s) : s[i] \in Item BY ElementOfSeq
      <2> QED BY <2>1 DEF OneEach, Item, Id
<1>4. /\ g[it.id] = v /\ \A id \in DOMAIN h : id # it.id => g[id] = h[id] BY DEF Put
<1> HIDE DEF t, g
<1>5. ASSUME NEW i \in 1..Len(t), p[t[i].who].when = t[i].when
      PROVE  g[t[i].id].read = p[t[i].who].read
      <2>1. CASE i \in 1..Len(s)
            <3>1. t[i] = s[i] /\ s[i].id \in DOMAIN h /\ s[i].id # it.id
                  BY <1>1, <1>3, <2>1 DEF Same
            <3>2. g[s[i].id] = h[s[i].id] BY <1>4, <3>1
            <3>3. h[s[i].id].read = p[s[i].who].read BY <1>5, <2>1, <3>1 DEF SameMarks
            <3> QED BY <3>1, <3>2, <3>3
      <2>2. CASE i = Len(s) + 1
            <3>1. t[i] = it BY <1>1, <2>2
            <3> QED BY <1>4, <1>5, <3>1
      <2> QED BY <1>2, <2>1, <2>2
<1>6. SameMarks(t, g, p) BY <1>5 DEF SameMarks
<1> QED BY <1>6 DEF t, g

\* ... when it is updated, or marked together with its preview ...
LEMMA UpdatedMarks ==
    ASSUME NEW s \in Seq(Item), NEW h, NEW p, NEW q, NEW last, NEW n \in 1..Len(s),
           NEW it \in Item, NEW v,
           Same(s, h), OneEach(s, last), it.id = s[n].id, it.who = s[n].who,
           SameMarks(s, h, p),
           \A c \in Contact : c # it.who => q[c] = p[c],
           q[it.who].when = it.when => v.read = q[it.who].read
    PROVE  SameMarks(Change(s, n, it), Change(h, it.id, v), q)
<1> DEFINE t == Change(s, n, it)
           g == Change(h, it.id, v)
<1>1. /\ Len(t) = Len(s)
      /\ \A i \in 1..Len(s) : t[i] = IF i = n THEN it ELSE s[i]
      BY ExceptSeq DEF Change
<1>2. \A id \in DOMAIN h : g[id] = IF id = it.id THEN v ELSE h[id] BY DEF Change
<1>3. \A i \in 1..Len(s) : s[i] \in Item BY ElementOfSeq
<1> HIDE DEF t, g
<1>4. ASSUME NEW i \in 1..Len(t), q[t[i].who].when = t[i].when
      PROVE  g[t[i].id].read = q[t[i].who].read
      <2>1. s[i].id \in DOMAIN h BY <1>1 DEF Same
      <2>2. CASE i = n
            <3>1. t[i] = it /\ g[it.id] = v BY <1>1, <1>2, <2>1, <2>2
            <3> QED BY <1>4, <3>1
      <2>3. CASE i # n
            <3>1. t[i] = s[i] /\ s[i].id # it.id /\ s[i].who # it.who
                  BY <1>1, <2>3 DEF OneEach
            <3>2. s[i].who \in Contact BY <1>1, <1>3 DEF Item
            <3>3. q[s[i].who] = p[s[i].who] /\ g[s[i].id] = h[s[i].id]
                  BY <1>2, <2>1, <3>1, <3>2
            <3>4. h[s[i].id].read = p[s[i].who].read
                  BY <1>1, <1>4, <3>1, <3>3 DEF SameMarks
            <3> QED BY <3>1, <3>3, <3>4
      <2> QED BY <2>2, <2>3
<1>5. SameMarks(t, g, q) BY <1>4 DEF SameMarks
<1> QED BY <1>5 DEF t, g

\* ... when only a preview is marked, and its item is marked so ...
LEMMA MarkedMarks ==
    ASSUME NEW s \in Seq(Item), NEW h, NEW p, NEW q, NEW last, NEW n \in 1..Len(s),
           OneEach(s, last), SameMarks(s, h, p),
           \A c \in Contact : c # s[n].who => q[c] = p[c],
           q[s[n].who].when = s[n].when => h[s[n].id].read = q[s[n].who].read
    PROVE  SameMarks(s, h, q)
<1>1. \A i \in 1..Len(s) : s[i] \in Item BY ElementOfSeq
<1>2. ASSUME NEW i \in 1..Len(s), q[s[i].who].when = s[i].when
      PROVE  h[s[i].id].read = q[s[i].who].read
      <2>1. CASE i = n BY <1>2, <2>1
      <2>2. CASE i # n
            <3>1. s[i].who \in Contact /\ s[i].who # s[n].who BY <1>1, <2>2 DEF Item, OneEach
            <3>2. q[s[i].who] = p[s[i].who] BY <3>1
            <3> QED BY <1>2, <3>2 DEF SameMarks
      <2> QED BY <2>1, <2>2
<1> QED BY <1>2 DEF SameMarks

\* ... and when a preview is removed, with its item or without.
LEMMA ForgottenMarks ==
    ASSUME NEW s \in Seq(Item), NEW h, NEW p, NEW q, SameMarks(s, h, p),
           \A c \in Contact : q[c] = p[c] \/ q[c] = NoPreview
    PROVE  SameMarks(s, h, q)
<1>1. \A i \in 1..Len(s) : s[i] \in Item BY ElementOfSeq
<1>2. ASSUME NEW i \in 1..Len(s), q[s[i].who].when = s[i].when
      PROVE  h[s[i].id].read = q[s[i].who].read
      <2>1. s[i].who \in Contact /\ s[i].when # 0 BY <1>1 DEF Item, Stamp
      <2>2. q[s[i].who] # NoPreview BY <1>2, <2>1 DEF NoPreview
      <2>3. q[s[i].who] = p[s[i].who] BY <2>1, <2>2
      <2> QED BY <1>2, <2>3 DEF SameMarks
<1> QED BY <1>2 DEF SameMarks

LEMMA RemovedMarks ==
    ASSUME NEW s \in Seq(Item), NEW h, NEW p, NEW n \in 1..Len(s), NEW last,
           Same(s, h), OneEach(s, last), SameMarks(s, h, p)
    PROVE  SameMarks(Without(s, n), Cut(h, s[n].id), p)
<1> DEFINE t == Without(s, n)
           g == Cut(h, s[n].id)
           Old(i) == IF i < n THEN i ELSE i + 1
<1>1. /\ Len(s) \in Nat /\ Len(t) = Len(s) - 1
      /\ \A i \in 1..(Len(s) - 1) : t[i] = IF i < n THEN s[i] ELSE s[i + 1]
      BY WithoutFacts, LenProperties
<1>2. \A i \in 1..Len(t) : Old(i) \in 1..Len(s) /\ Old(i) # n /\ t[i] = s[Old(i)]
      BY <1>1
<1>3. \A id \in DOMAIN h : id # s[n].id => g[id] = h[id] BY DEF Cut
<1> HIDE DEF t, g, Old
<1>4. ASSUME NEW i \in 1..Len(t), p[t[i].who].when = t[i].when
      PROVE  g[t[i].id].read = p[t[i].who].read
      <2>1. Old(i) \in 1..Len(s) /\ Old(i) # n /\ t[i] = s[Old(i)] BY <1>2
      <2>2. s[Old(i)].id \in DOMAIN h /\ s[Old(i)].id # s[n].id
            BY <2>1 DEF Same, OneEach
      <2>3. g[s[Old(i)].id] = h[s[Old(i)].id] BY <1>3, <2>2
      <2>4. h[s[Old(i)].id].read = p[s[Old(i)].who].read BY <1>4, <2>1 DEF SameMarks
      <2> QED BY <2>1, <2>3, <2>4
<1>5. SameMarks(t, g, p) BY <1>4 DEF SameMarks
<1> QED BY <1>5 DEF t, g

-----------------------------------------------------------------------------
(* What the operations of HubAccount preserve.                             *)

HubItem == [who : Contact, when : Stamp, read : BOOLEAN]
TablesTyped ==
    /\ items \in Seq(Item) /\ lastItemId \in 0..MaxId /\ nextItemId \in 1..(MaxId + 1)
    /\ DOMAIN hub \subseteq Id
    /\ \A i \in DOMAIN hub : hub[i] \in HubItem
FlagsTyped == shaky \in BOOLEAN /\ missed \in BOOLEAN
Agreeing == Fits(items, lastItemId)

LEMMA AddTyped ==
    ASSUME TablesTyped, FlagsTyped, NEW c \in Contact, NEW when \in Stamp,
           NEW read \in BOOLEAN, AddHubItem(c, when, read)
    PROVE  TablesTyped' /\ FlagsTyped' /\ nextItemId' >= nextItemId
<1>1. CASE UNCHANGED <<hub, cacheVars, nextItemId, shaky, missed>>
      BY <1>1 DEF TablesTyped, FlagsTyped, cacheVars
<1>2. CASE /\ account /\ nextItemId <= MaxId /\ lastItemId < MaxId
           /\ \E marked \in {FALSE, read} :
                 /\ hub' = NewItem(c, when, marked)
                 /\ missed' = (missed \/ marked # read)
           /\ items' = Append(items, [id |-> nextItemId, who |-> c, when |-> when])
           /\ lastItemId' = lastItemId + 1
           /\ nextItemId' = nextItemId + 1
           /\ shaky' = (shaky \/ nextItemId # lastItemId + 1)
      <2>1. PICK marked \in {FALSE, read} : hub' = NewItem(c, when, marked) BY <1>2
      <2>2. MaxId \in Nat BY HubBoundsAssumption
      <2>3. nextItemId \in Id BY <1>2, <2>2 DEF TablesTyped, Id
      <2>4. [id |-> nextItemId, who |-> c, when |-> when] \in Item BY <2>3 DEF Item
      <2>5. items' \in Seq(Item) BY <1>2, <2>4, AppendProperties DEF TablesTyped
      <2>6. [who |-> c, when |-> when, read |-> marked] \in HubItem BY DEF HubItem
      <2>7. DOMAIN hub' \subseteq Id /\ \A i \in DOMAIN hub' : hub'[i] \in HubItem
            BY <2>1, <2>3, <2>6 DEF NewItem, TablesTyped
      <2>8. /\ lastItemId' \in 0..MaxId /\ nextItemId' \in 1..(MaxId + 1)
            /\ nextItemId' >= nextItemId
            BY <1>2, <2>2 DEF TablesTyped
      <2>9. FlagsTyped' BY <1>2, Zenon DEF FlagsTyped
      <2> QED BY <2>5, <2>7, <2>8, <2>9, Zenon DEF TablesTyped
<1> QED BY <1>1, <1>2, Zenon DEF AddHubItem

LEMMA AddAgrees ==
    ASSUME TablesTyped, Agreeing, NEW c \in Contact, NEW when \in Stamp,
           NEW read \in BOOLEAN, AddHubItem(c, when, read),
           shaky \/ /\ ItemsOf(c) = {} /\ when <= clock
                    /\ preview[c] = [when |-> when, read |-> read],
           preview' = preview, clock' = clock
    PROVE  Agreeing' /\ (shaky => shaky')
<1>1. CASE UNCHANGED <<hub, cacheVars, nextItemId, shaky, missed>>
      BY <1>1 DEF Agreeing, Fits, cacheVars
<1>2. CASE /\ account /\ nextItemId <= MaxId /\ lastItemId < MaxId
           /\ \E marked \in {FALSE, read} :
                 /\ hub' = NewItem(c, when, marked)
                 /\ missed' = (missed \/ marked # read)
           /\ items' = Append(items, [id |-> nextItemId, who |-> c, when |-> when])
           /\ lastItemId' = lastItemId + 1
           /\ nextItemId' = nextItemId + 1
           /\ shaky' = (shaky \/ nextItemId # lastItemId + 1)
      <2>1. PICK marked \in {FALSE, read} :
               hub' = NewItem(c, when, marked) /\ missed' = (missed \/ marked # read)
            BY <1>2, Zenon
      <2> DEFINE it == [id |-> nextItemId, who |-> c, when |-> when]
                 v == [who |-> c, when |-> when, read |-> marked]
      <2>2. ASSUME ~shaky'
            PROVE  /\ Same(items', hub') /\ OneEach(items', lastItemId')
                   /\ NoneLater(items', clock')
                   /\ ~missed' => SameMarks(items', hub', preview')
            <3>1. ~shaky /\ nextItemId = lastItemId + 1 BY <1>2, <2>2, Zenon
            <3>2. Same(items, hub) /\ OneEach(items, lastItemId) /\ NoneLater(items, clock)
                  BY <3>1 DEF Agreeing, Fits
            <3>3. lastItemId \in Nat /\ items \in Seq(Item) BY DEF TablesTyped
            <3>4. it \in Item /\ it.id = lastItemId + 1 /\ it.id = lastItemId'
                  BY <1>2, <3>1, HubBoundsAssumption DEF Item, Id, TablesTyped
            <3>5. \A i \in 1..Len(items) : items[i].who # it.who
                  <4>1. DOMAIN items = 1..Len(items) BY <3>3, LenProperties
                  <4> QED BY <3>1, <4>1 DEF ItemsOf
            <3>6. /\ v.who = it.who /\ v.when = it.when
                  /\ hub' = Put(hub, it.id, v)
                  /\ items' = Append(items, it)
                  BY <1>2, <2>1 DEF NewItem, Put
            <3>7. ASSUME ~missed'
                  PROVE  /\ SameMarks(items, hub, preview)
                         /\ preview[it.who].when = it.when => v.read = preview[it.who].read
                  <4>1. ~missed /\ marked = read BY <2>1, <3>7, Zenon
                  <4>2. SameMarks(items, hub, preview) BY <3>1, <4>1 DEF Agreeing, Fits
                  <4>3. preview[c].read = read BY <3>1
                  <4> QED BY <4>1, <4>2, <4>3
            <3> HIDE DEF it, v
            <3> DEFINE t == Append(items, it)
                       g == Put(hub, it.id, v)
            <3>8. Same(items', hub') /\ OneEach(items', lastItemId')
                  <4>1. Same(t, g) /\ OneEach(t, it.id)
                        BY <3>2, <3>3, <3>4, <3>5, <3>6, AddedStays
                  <4>2. items' = t /\ hub' = g /\ lastItemId' = it.id BY <3>4, <3>6
                  <4> HIDE DEF t, g
                  <4> QED BY <4>1, <4>2, Zenon
            <3>9. ASSUME ~missed' PROVE SameMarks(items', hub', preview)
                  BY <3>2, <3>3, <3>4, <3>6, <3>7, <3>9, AddedMarks
            <3>10. NoneLater(items', clock')
                  <4>1. it.when <= clock BY <3>1 DEF it
                  <4>2. NoneLater(t, clock) BY <3>2, <3>3, <3>4, <4>1, AddedLater
                  <4>3. items' = t BY <3>6
                  <4> HIDE DEF t, g
                  <4> QED BY <4>2, <4>3, Zenon
            <3> QED BY <3>8, <3>9, <3>10
      <2>3. shaky => shaky' BY <1>2, Zenon
      <2> QED BY <2>2, <2>3, Zenon DEF Agreeing, Fits
<1> QED BY <1>1, <1>2, Zenon DEF AddHubItem

LEMMA UpdateTyped ==
    ASSUME TablesTyped, NEW id \in Id, NEW c \in Contact, NEW when \in Stamp,
           NEW read \in BOOLEAN, UpdateHubItem(id, c, when, read)
    PROVE  TablesTyped'
<1>1. CASE UNCHANGED <<hub, items>>
      BY <1>1 DEF UpdateHubItem, TablesTyped
<1>2. CASE /\ id \in DOMAIN hub
           /\ hub' = [hub EXCEPT ![id] = [who |-> c, when |-> when, read |-> read]]
           /\ items' = IF Place(id) = 0 THEN items
                       ELSE [items EXCEPT ![Place(id)] = [id |-> id, who |-> c, when |-> when]]
      <2>1. [id |-> id, who |-> c, when |-> when] \in Item BY DEF Item
      <2>2. items \in Seq(Item) BY DEF TablesTyped
      <2>3. items' \in Seq(Item)
            <3>1. CASE Place(id) = 0 BY <1>2, <2>2, <3>1
            <3>2. CASE Place(id) # 0
                  <4>1. Place(id) \in 1..Len(items) BY <2>2, <3>2, PlaceFacts
                  <4> QED BY <1>2, <2>1, <2>2, <3>2, <4>1, ExceptSeq
            <3> QED BY <3>1, <3>2
      <2>4. [who |-> c, when |-> when, read |-> read] \in HubItem BY DEF HubItem
      <2>5. DOMAIN hub' \subseteq Id /\ \A i \in DOMAIN hub' : hub'[i] \in HubItem
            BY <1>2, <2>4 DEF TablesTyped
      <2>6. lastItemId' = lastItemId /\ nextItemId' = nextItemId BY DEF UpdateHubItem
      <2> QED BY <2>3, <2>5, <2>6 DEF TablesTyped
<1> QED BY <1>1, <1>2, Zenon DEF UpdateHubItem

LEMMA RemoveTyped ==
    ASSUME TablesTyped, FlagsTyped, NEW id \in Id, RemoveHubItem(id)
    PROVE  TablesTyped' /\ FlagsTyped'
<1>0. FlagsTyped' BY DEF RemoveHubItem, FlagsTyped
<1>1. CASE UNCHANGED <<hub, cacheVars>>
      BY <1>0, <1>1 DEF RemoveHubItem, TablesTyped, cacheVars
<1>2. CASE /\ id \in DOMAIN hub
           /\ hub' = [i \in DOMAIN hub \ {id} |-> hub[i]]
           /\ items' = IF Place(id) = 0 THEN items ELSE Without(items, Place(id))
           /\ lastItemId' = IF Place(id) # 0 /\ id = lastItemId THEN lastItemId - 1
                                                               ELSE lastItemId
      <2>1. items \in Seq(Item) BY DEF TablesTyped
      <2>2. items' \in Seq(Item)
            <3>1. CASE Place(id) = 0 BY <1>2, <2>1, <3>1
            <3>2. CASE Place(id) # 0
                  <4>1. Place(id) \in 1..Len(items) BY <2>1, <3>2, PlaceFacts
                  <4> QED BY <1>2, <2>1, <3>2, <4>1, WithoutFacts
            <3> QED BY <3>1, <3>2
      <2>3. DOMAIN hub' \subseteq Id /\ \A i \in DOMAIN hub' : hub'[i] \in HubItem
            BY <1>2 DEF TablesTyped
      <2>4. nextItemId' = nextItemId BY DEF RemoveHubItem
      <2>5. lastItemId' \in 0..MaxId BY <1>2, HubBoundsAssumption DEF TablesTyped, Id
      <2> QED BY <1>0, <2>2, <2>3, <2>4, <2>5 DEF TablesTyped
<1> QED BY <1>1, <1>2, Zenon DEF RemoveHubItem

\* What an update needs of the previews: a step that changes none but c's, which
\* has the mark of the update, or one where a call that failed was noticed.
LEMMA UpdateAgrees ==
    ASSUME TablesTyped, Agreeing, NEW id \in Id, NEW c \in Contact, NEW when \in Stamp,
           NEW read \in BOOLEAN, UpdateHubItem(id, c, when, read), ~shaky,
           NEW k \in 1..Len(items), items[k].id = id, items[k].who = c,
           clock' = clock, when <= clock,
           \A d \in Contact : d # c => preview'[d] = preview[d],
           preview'[c].when = when => preview'[c].read = read,
           ~missed' => ~missed,
           ~missed' => \/ preview'[c] = preview[c]
                       \/ hub'[id].read = read /\ when = items[k].when
    PROVE  Agreeing' /\ shaky' = shaky
<1> DEFINE it == [id |-> id, who |-> c, when |-> when]
           v == [who |-> c, when |-> when, read |-> read]
<1>1. items \in Seq(Item) /\ lastItemId' = lastItemId /\ shaky' = shaky
      BY DEF TablesTyped, UpdateHubItem
<1>2. Same(items, hub) /\ OneEach(items, lastItemId) /\ NoneLater(items, clock)
      BY DEF Agreeing, Fits
<1>3. ~missed' => SameMarks(items, hub, preview) BY DEF Agreeing, Fits
<1>4. CASE UNCHANGED <<hub, items>>
      <2>1. Same(items', hub') /\ OneEach(items', lastItemId') /\ NoneLater(items', clock')
            BY <1>1, <1>2, <1>4
      <2>2. ASSUME ~missed' PROVE SameMarks(items, hub, preview')
            <3>1. SameMarks(items, hub, preview) BY <1>3, <2>2
            <3>2. preview'[c].when = items[k].when => hub[id].read = preview'[c].read
                  <4>1. CASE preview'[c] = preview[c] BY <3>1, <4>1 DEF SameMarks
                  <4>2. CASE hub'[id].read = read /\ when = items[k].when BY <1>4, <4>2
                  <4> QED BY <2>2, <4>1, <4>2
            <3> QED BY <1>1, <1>2, <3>1, <3>2, MarkedMarks
      <2>3. ~missed' => SameMarks(items', hub', preview') BY <1>4, <2>2
      <2> QED BY <1>1, <2>1, <2>3, Zenon DEF Agreeing, Fits
<1>5. CASE /\ id \in DOMAIN hub
           /\ hub' = [hub EXCEPT ![id] = [who |-> c, when |-> when, read |-> read]]
           /\ items' = IF Place(id) = 0 THEN items
                       ELSE [items EXCEPT ![Place(id)] = [id |-> id, who |-> c, when |-> when]]
      <2>1. Place(id) = k /\ k # 0
            <3>1. Place(id) \in 1..Len(items) /\ items[Place(id)].id = id
                  BY <1>1, PlaceFacts
            <3> QED BY <1>2, <3>1 DEF OneEach
      <2>2. it \in Item /\ it.id = items[k].id /\ it.who = items[k].who BY DEF Item
      <2>3. v.who = it.who /\ v.when = it.when OBVIOUS
      <2>4. hub' = Change(hub, it.id, v) /\ items' = Change(items, k, it)
            BY <1>5, <2>1 DEF Change
      <2>5. /\ \A d \in Contact : d # it.who => preview'[d] = preview[d]
            /\ preview'[it.who].when = it.when => v.read = preview'[it.who].read
            OBVIOUS
      <2>6. it.when <= clock OBVIOUS
      <2> HIDE DEF it, v
      <2>7. Same(Change(items, k, it), Change(hub, it.id, v))
            /\ OneEach(Change(items, k, it), lastItemId)
            BY <1>1, <1>2, <2>2, <2>3, UpdatedStays
      <2>8. NoneLater(Change(items, k, it), clock) BY <1>1, <1>2, <2>2, <2>6, UpdatedLater
      <2>9. ~missed' => SameMarks(Change(items, k, it), Change(hub, it.id, v), preview')
            BY <1>1, <1>2, <1>3, <2>2, <2>5, UpdatedMarks
      <2>10. /\ Same(items', hub') /\ OneEach(items', lastItemId') /\ NoneLater(items', clock')
             /\ ~missed' => SameMarks(items', hub', preview')
             BY <1>1, <2>4, <2>7, <2>8, <2>9, Zenon
      <2> QED BY <1>1, <2>10, Zenon DEF Agreeing, Fits
<1> QED BY <1>4, <1>5, Zenon DEF UpdateHubItem

LEMMA RemoveAgrees ==
    ASSUME TablesTyped, Agreeing, NEW id \in Id, RemoveHubItem(id), clock' = clock,
           \A d \in Contact : preview'[d] = preview[d] \/ preview'[d] = NoPreview
    PROVE  Agreeing' /\ shaky' = shaky
<1>1. items \in Seq(Item) /\ lastItemId \in Nat /\ shaky' = shaky /\ missed' = missed
      BY DEF TablesTyped, RemoveHubItem
<1> SUFFICES ASSUME ~shaky PROVE Agreeing'
    BY <1>1 DEF Agreeing, Fits
<1>2. Same(items, hub) /\ OneEach(items, lastItemId) /\ NoneLater(items, clock)
      BY DEF Agreeing, Fits
<1>3. ~missed => SameMarks(items, hub, preview')
      <2>1. ASSUME ~missed PROVE SameMarks(items, hub, preview)
            BY <2>1 DEF Agreeing, Fits
      <2> QED BY <1>1, <2>1, ForgottenMarks
<1>4. CASE UNCHANGED <<hub, cacheVars>>
      <2>1. /\ Same(items', hub') /\ OneEach(items', lastItemId') /\ NoneLater(items', clock')
            /\ ~missed' => SameMarks(items', hub', preview')
            BY <1>1, <1>2, <1>3, <1>4 DEF cacheVars
      <2> QED BY <1>1, <2>1, Zenon DEF Agreeing, Fits
<1>5. CASE /\ id \in DOMAIN hub
           /\ hub' = [i \in DOMAIN hub \ {id} |-> hub[i]]
           /\ items' = IF Place(id) = 0 THEN items ELSE Without(items, Place(id))
           /\ lastItemId' = IF Place(id) # 0 /\ id = lastItemId THEN lastItemId - 1
                                                               ELSE lastItemId
      <2> DEFINE n == Place(id)
      <2>1. n \in 1..Len(items) /\ items[n].id = id /\ n # 0
            <3>1. \E i \in 1..Len(items) : items[i].id = id BY <1>2, <1>5 DEF Same
            <3> QED BY <1>1, <3>1, PlaceFacts
      <2>2. hub' = Cut(hub, items[n].id) /\ items' = Without(items, n)
            BY <1>5, <2>1 DEF Cut
      <2>3. \/ lastItemId' = lastItemId
            \/ items[n].id = lastItemId /\ lastItemId' = lastItemId - 1
            BY <1>5, <2>1
      <2> HIDE DEF n
      <2>4. /\ Same(Without(items, n), Cut(hub, items[n].id))
            /\ OneEach(Without(items, n), lastItemId)
            /\ items[n].id = lastItemId => OneEach(Without(items, n), lastItemId - 1)
            BY <1>1, <1>2, <2>1, RemovedStays
      <2>5. NoneLater(Without(items, n), clock) BY <1>1, <1>2, <2>1, RemovedLater
      <2>6. ~missed => SameMarks(Without(items, n), Cut(hub, items[n].id), preview')
            BY <1>1, <1>2, <1>3, <2>1, RemovedMarks
      <2>7. OneEach(Without(items, n), lastItemId') BY <2>3, <2>4, Zenon
      <2>8. /\ Same(items', hub') /\ OneEach(items', lastItemId') /\ NoneLater(items', clock')
            /\ ~missed' => SameMarks(items', hub', preview')
            BY <1>1, <2>2, <2>4, <2>5, <2>6, <2>7, Zenon
      <2> QED BY <1>1, <2>8, Zenon DEF Agreeing, Fits
<1> QED BY <1>4, <1>5, Zenon DEF RemoveHubItem

PreviewTyped == preview \in [Contact -> {NoPreview} \cup [when : Stamp, read : BOOLEAN]]

\* Marking an item changes nothing in the cache.
LEMMA MarkTyped ==
    ASSUME TablesTyped, FlagsTyped, NEW id \in Id, NEW read \in BOOLEAN, MarkHubItem(id, read)
    PROVE  TablesTyped' /\ FlagsTyped' /\ items' = items
<1>1. items \in Seq(Item) BY DEF TablesTyped
<1>2. CASE Place(id) = 0
      BY <1>2 DEF MarkHubItem, TablesTyped, FlagsTyped, cacheVars
<1>3. CASE Place(id) # 0
      <2> DEFINE n == Place(id)
                 it == items[n]
      <2>1. n \in 1..Len(items) /\ items[n].id = id BY <1>1, <1>3, PlaceFacts
      <2>2. it \in Item BY <1>1, <2>1, ElementOfSeq
      <2>3. it.who \in Contact /\ it.when \in Stamp BY <2>2 DEF Item
      <2>4. /\ UpdateHubItem(id, it.who, it.when, read)
            /\ missed' = (missed \/ (id \in DOMAIN hub /\ hub'[id].read # read))
            BY <1>3, Zenon DEF MarkHubItem
      <2>5. TablesTyped'
            <3> HIDE DEF it
            <3> QED BY <2>3, <2>4, UpdateTyped
      <2>6. FlagsTyped'
            <3>1. shaky' = shaky BY <2>4 DEF UpdateHubItem
            <3> QED BY <2>4, <3>1, Zenon DEF FlagsTyped
      <2>7. items' = items
            <3>1. CASE UNCHANGED <<hub, items>> BY <3>1
            <3>2. CASE items' = IF n = 0 THEN items
                                ELSE [items EXCEPT ![n] =
                                        [id |-> id, who |-> it.who, when |-> it.when]]
                  <4>1. [id |-> id, who |-> it.who, when |-> it.when] = items[n]
                        BY <2>1, <2>2 DEF Item
                  <4>2. items' = [items EXCEPT ![n] = items[n]] BY <1>3, <3>2, <4>1, Zenon
                  <4>3. items \in [1..Len(items) -> Item] BY <1>1, LenProperties, ElementOfSeq
                  <4> HIDE DEF n
                  <4> QED BY <4>2, <4>3
            <3> QED BY <2>4, <3>1, <3>2, Zenon DEF UpdateHubItem
      <2> QED BY <2>5, <2>6, <2>7
<1> QED BY <1>2, <1>3

\* SetRead, read as what it changes.
LEMMA SetReadFacts ==
    ASSUME PreviewTyped, NEW c \in Contact, NEW read \in BOOLEAN, SetRead(c, read)
    PROVE  /\ PreviewTyped'
           /\ \A d \in Contact : preview'[d].when = preview[d].when
           /\ \A d \in Contact : d # c => preview'[d] = preview[d]
           /\ preview'[c].when \in Stamp => preview'[c].read = read
<1>1. preview' = [preview EXCEPT ![c] =
                    IF preview[c] = NoPreview THEN preview[c]
                    ELSE [when |-> preview[c].when, read |-> read]]
      BY DEF SetRead
<1>2. preview[c] = NoPreview \/ preview[c] \in [when : Stamp, read : BOOLEAN]
      BY DEF PreviewTyped
<1>3. 0 \notin Stamp BY DEF Stamp
<1>4. CASE preview[c] = NoPreview
      <2>1. preview' = preview BY <1>1, <1>4 DEF PreviewTyped
      <2> QED BY <1>3, <1>4, <2>1 DEF PreviewTyped, NoPreview
<1>5. CASE preview[c] # NoPreview
      <2>1. [when |-> preview[c].when, read |-> read] \in [when : Stamp, read : BOOLEAN]
            BY <1>2, <1>5
      <2>2. preview' = [preview EXCEPT ![c] = [when |-> preview[c].when, read |-> read]]
            BY <1>1, <1>5
      <2> QED BY <2>1, <2>2 DEF PreviewTyped
<1> QED BY <1>4, <1>5

LEMMA MarkAgrees ==
    ASSUME TablesTyped, Agreeing, PreviewTyped, NEW id \in Id, NEW read \in BOOLEAN,
           MarkHubItem(id, read), clock' = clock, NEW c \in Contact, SetRead(c, read),
           ~shaky => \E k \in 1..Len(items) : items[k].id = id /\ items[k].who = c
    PROVE  Agreeing' /\ shaky' = shaky
<1>1. items \in Seq(Item) BY DEF TablesTyped
<1>2. shaky' = shaky BY DEF MarkHubItem, UpdateHubItem
<1> SUFFICES ASSUME ~shaky PROVE Agreeing'
    BY <1>2 DEF Agreeing, Fits
<1>3. PICK k \in 1..Len(items) : items[k].id = id /\ items[k].who = c OBVIOUS
<1>4. Same(items, hub) /\ OneEach(items, lastItemId) /\ NoneLater(items, clock)
      BY DEF Agreeing, Fits
<1>5. Place(id) = k /\ k # 0
      <2>1. Place(id) \in 1..Len(items) /\ items[Place(id)].id = id
            BY <1>1, <1>3, PlaceFacts
      <2> QED BY <1>3, <1>4, <2>1 DEF OneEach
<1>6. /\ UpdateHubItem(id, c, items[k].when, read)
      /\ missed' = (missed \/ (id \in DOMAIN hub /\ hub'[id].read # read))
      BY <1>3, <1>5, Zenon DEF MarkHubItem
<1>7. items[k].when \in Stamp /\ items[k].when <= clock
      <2>1. items[k] \in Item BY <1>1, ElementOfSeq
      <2> QED BY <1>4, <2>1 DEF Item, NoneLater
<1>8. ~missed' => ~missed /\ hub'[id].read = read
      <2>1. id \in DOMAIN hub BY <1>3, <1>4 DEF Same
      <2> QED BY <1>6, <2>1, Zenon
<1>9. /\ \A d \in Contact : d # c => preview'[d] = preview[d]
      /\ preview'[c].when = items[k].when => preview'[c].read = read
      BY <1>7, SetReadFacts
<1> QED BY <1>3, <1>6, <1>7, <1>8, <1>9, UpdateAgrees

-----------------------------------------------------------------------------
(* The loops.                                                              *)

WorkKind == {"none", "resynch", "markRead", "delete", "repopulate"}
WorkOK(w) ==
    /\ w.kind \in WorkKind
    /\ IF w.kind = "resynch" THEN w.todo \in Seq(Contact) ELSE w.todo \in Seq(Item)
    /\ w = Loop(w.kind, w.todo, w.stamp) /\ w.stamp \in 0..MaxStamp
    /\ w.kind = "none" => w.todo = <<>>

\* A loop over nothing is over.
LEMMA LoopOK ==
    ASSUME NEW kind \in WorkKind, NEW todo, NEW stamp \in 0..MaxStamp,
           IF kind = "resynch" THEN todo \in Seq(Contact) ELSE todo \in Seq(Item),
           kind = "none" => todo = <<>>
    PROVE  /\ WorkOK(Loop(kind, todo, stamp))
           /\ Loop(kind, todo, stamp).todo = todo
           /\ Loop(kind, todo, stamp).kind = IF todo = <<>> THEN "none" ELSE kind
<1> DEFINE w == Loop(kind, todo, stamp)
<1>1. w.kind = (IF todo = <<>> THEN "none" ELSE kind) /\ w.todo = todo /\ w.stamp = stamp
      BY DEF Loop
<1>2. w.kind \in WorkKind BY <1>1 DEF WorkKind
<1>3. IF w.kind = "resynch" THEN w.todo \in Seq(Contact) ELSE w.todo \in Seq(Item)
      <2>1. CASE todo = <<>>
            <3>1. <<>> \in Seq(Item) OBVIOUS
            <3> QED BY <1>1, <2>1, <3>1
      <2>2. CASE todo # <<>> BY <1>1, <2>2
      <2> QED BY <2>1, <2>2
<1>4. Loop(w.kind, todo, stamp) = w BY <1>1 DEF Loop
<1>5. w.kind = "none" => w.todo = <<>> BY <1>1
<1> HIDE DEF w
<1>6. WorkOK(w) BY <1>1, <1>2, <1>3, <1>4, <1>5, Zenon DEF WorkOK
<1> QED BY <1>1, <1>6 DEF w

LEMMA NoWorkOK == WorkOK(NoWork) /\ NoWork.kind = "none"
<1>1. <<>> \in Seq(Item) /\ 0 \in 0..MaxStamp /\ "none" \in WorkKind
      BY HubBoundsAssumption DEF WorkKind
<1>2. IF "none" = "resynch" THEN <<>> \in Seq(Contact) ELSE <<>> \in Seq(Item) BY <1>1
<1>3. /\ WorkOK(Loop("none", <<>>, 0))
      /\ Loop("none", <<>>, 0).kind = IF <<>> = <<>> THEN "none" ELSE "none"
      BY <1>1, <1>2, LoopOK
<1> QED BY <1>3 DEF NoWork

\* A loop that is under way has a next turn.
LEMMA TurnOK ==
    ASSUME NEW w, WorkOK(w), w.kind # "none"
    PROVE  /\ WorkOK(Rest(w)) /\ Rest(w).kind \in {"none", w.kind}
           /\ Rest(w).todo = Tail(w.todo)
           /\ w.kind = "resynch" => Head(w.todo) \in Contact
           /\ w.kind # "resynch" => Head(w.todo) \in Item
           /\ Len(w.todo) \in Nat \ {0} /\ Head(w.todo) = w.todo[1]
           /\ Len(Tail(w.todo)) = Len(w.todo) - 1
           /\ \A k \in 1..(Len(w.todo) - 1) : Tail(w.todo)[k] = w.todo[k + 1]
<1>1. w.todo # <<>>
      <2>1. w.kind = Loop(w.kind, w.todo, w.stamp).kind BY DEF WorkOK
      <2> QED BY <2>1 DEF Loop
<1>2. \A S : w.todo \in Seq(S) =>
         /\ Head(w.todo) \in S /\ Tail(w.todo) \in Seq(S)
         /\ Len(w.todo) \in Nat \ {0} /\ Head(w.todo) = w.todo[1]
         /\ Len(Tail(w.todo)) = Len(w.todo) - 1
         /\ \A k \in 1..(Len(w.todo) - 1) : Tail(w.todo)[k] = w.todo[k + 1]
      <2> SUFFICES ASSUME NEW S, w.todo \in Seq(S)
                   PROVE  /\ Head(w.todo) \in S /\ Tail(w.todo) \in Seq(S)
                          /\ Len(w.todo) \in Nat \ {0} /\ Head(w.todo) = w.todo[1]
                          /\ Len(Tail(w.todo)) = Len(w.todo) - 1
                          /\ \A k \in 1..(Len(w.todo) - 1) : Tail(w.todo)[k] = w.todo[k + 1]
          OBVIOUS
      <2>1. /\ Head(w.todo) \in S /\ Tail(w.todo) \in Seq(S)
            /\ Len(Tail(w.todo)) = Len(w.todo) - 1
            /\ \A k \in 1..(Len(w.todo) - 1) : Tail(w.todo)[k] = w.todo[k + 1]
            BY <1>1, HeadTailProperties
      <2>2. Len(w.todo) \in Nat \ {0} BY <1>1, EmptySeq, LenProperties
      <2>3. Head(w.todo) = w.todo[1] BY <1>1
      <2> QED BY <2>1, <2>2, <2>3
<1>3. w.todo \in Seq(Contact) \/ w.todo \in Seq(Item) BY DEF WorkOK
<1>4. /\ w.kind \in WorkKind /\ w.stamp \in 0..MaxStamp
      /\ IF w.kind = "resynch" THEN Tail(w.todo) \in Seq(Contact)
                               ELSE Tail(w.todo) \in Seq(Item)
      BY <1>2 DEF WorkOK
<1>5. /\ WorkOK(Rest(w)) /\ Rest(w).todo = Tail(w.todo)
      /\ Rest(w).kind = IF Tail(w.todo) = <<>> THEN "none" ELSE w.kind
      <2> DEFINE k == w.kind
                 t == Tail(w.todo)
                 n == w.stamp
      <2>1. /\ k \in WorkKind /\ n \in 0..MaxStamp /\ (k = "none" => t = <<>>)
            /\ IF k = "resynch" THEN t \in Seq(Contact) ELSE t \in Seq(Item)
            BY <1>4
      <2>2. Rest(w) = Loop(k, t, n) BY DEF Rest
      <2> HIDE DEF k, t, n
      <2>3. /\ WorkOK(Loop(k, t, n)) /\ Loop(k, t, n).todo = t
            /\ Loop(k, t, n).kind = IF t = <<>> THEN "none" ELSE k
            BY <2>1, LoopOK
      <2> QED BY <2>2, <2>3 DEF k, t
<1>6. w.kind = "resynch" => Head(w.todo) \in Contact BY <1>2 DEF WorkOK
<1>7. w.kind # "resynch" => Head(w.todo) \in Item BY <1>2 DEF WorkOK
<1> QED BY <1>2, <1>3, <1>5, <1>6, <1>7

\* resynchHub goes over the contacts.
LEMMA ResynchOK ==
    ASSUME Resynch PROVE WorkOK(work') /\ work'.kind \in {"none", "resynch"} /\ complete'
<1>1. [c \in Contact |-> c] \in Seq(Contact)
      <2>1. Contacts \in Nat BY HubBoundsAssumption
      <2>2. [c \in 1..Contacts |-> c] \in [1..Contacts -> Contact] BY DEF Contact
      <2> QED BY <2>1, <2>2, SeqDef DEF Contact
<1>2. 0 \in 0..MaxStamp /\ "resynch" \in WorkKind BY HubBoundsAssumption DEF WorkKind
<1> DEFINE todo == [c \in Contact |-> c]
<1>3. IF "resynch" = "resynch" THEN todo \in Seq(Contact) ELSE todo \in Seq(Item) BY <1>1
<1>4. work' = Loop("resynch", todo, 0) /\ complete' BY DEF Resynch
<1> HIDE DEF todo
<1>5. WorkOK(Loop("resynch", todo, 0))
      /\ Loop("resynch", todo, 0).kind = IF todo = <<>> THEN "none" ELSE "resynch"
      BY <1>2, <1>3, LoopOK
<1> QED BY <1>4, <1>5

-----------------------------------------------------------------------------
(* The invariant in parts.                                                 *)

StoreTyped ==
    /\ PreviewTyped
    /\ named \subseteq Contact
    /\ clock \in 0..MaxStamp
    /\ \A c \in Contact : preview[c].when <= clock
DiskTyped == disk.items \in Seq(Item) /\ disk.last \in 0..MaxId /\ disk.account \in BOOLEAN
SwitchesTyped == account \in BOOLEAN /\ complete \in BOOLEAN
LoopsRight ==
    /\ WorkOK(work)
    /\ work.kind = "repopulate" => shaky
    /\ LoopIsCached

\* While the service runs.
LEMMA Parts ==
    ASSUME HubInv, running
    PROVE  /\ running = TRUE
           /\ TablesTyped /\ FlagsTyped /\ StoreTyped /\ DiskTyped /\ SwitchesTyped
           /\ LoopsRight /\ Agreeing
<1>1. HubTypeOK BY DEF HubInv
<1>2. TablesTyped
      <2>1. nextItemId \in 1..(MaxId + 1)
            <3>1. nextItemId \in 0..(MaxId + 1) /\ nextItemId # 0
                  BY <1>1 DEF HubTypeOK, HubInv
            <3> QED BY <3>1, HubBoundsAssumption
      <2> QED BY <1>1, <2>1 DEF HubTypeOK, TablesTyped, HubItem
<1>3. FlagsTyped /\ DiskTyped /\ SwitchesTyped
      BY <1>1 DEF HubTypeOK, FlagsTyped, DiskTyped, SwitchesTyped
<1>4. StoreTyped BY <1>1 DEF HubTypeOK, HubInv, StoreTyped, PreviewTyped
<1>5. LoopsRight BY <1>1 DEF HubTypeOK, HubInv, LoopsRight, WorkOK, WorkKind
<1>6. Agreeing BY DEF HubInv, Agreeing
<1>7. running = TRUE BY <1>1 DEF HubTypeOK
<1> QED BY <1>2, <1>3, <1>4, <1>5, <1>6, <1>7

\* Together again after a step that leaves it running.
LEMMA Assembled ==
    ASSUME running' = TRUE, TablesTyped', FlagsTyped', StoreTyped', DiskTyped',
           SwitchesTyped', LoopsRight', Agreeing'
    PROVE  HubInv'
<1>1. HubTypeOK'
      <2>1. ({running, account, shaky, missed, complete} \subseteq BOOLEAN)'
            BY DEF FlagsTyped, SwitchesTyped
      <2>2. (preview \in [Contact -> {NoPreview} \cup [when : Stamp, read : BOOLEAN]])'
            /\ (named \subseteq Contact)' /\ (clock \in 0..MaxStamp)'
            BY DEF StoreTyped, PreviewTyped
      <2>3. /\ (items \in Seq(Item) /\ disk.items \in Seq(Item))'
            /\ (disk.account \in BOOLEAN)'
            /\ (DOMAIN hub \subseteq Id)'
            /\ (\A i \in DOMAIN hub : hub[i] \in [who : Contact, when : Stamp, read : BOOLEAN])'
            /\ (lastItemId \in 0..MaxId /\ disk.last \in 0..MaxId)'
            BY DEF TablesTyped, DiskTyped, HubItem
      <2>4. (nextItemId \in 0..(MaxId + 1))'
            BY HubBoundsAssumption DEF TablesTyped
      <2>5. WorkOK(work') BY DEF LoopsRight
      <2>6. (work.kind \in {"none", "resynch", "markRead", "delete", "repopulate"})'
            /\ (IF work.kind = "resynch" THEN work.todo \in Seq(Contact)
                                         ELSE work.todo \in Seq(Item))'
            /\ (work = Loop(work.kind, work.todo, work.stamp) /\ work.stamp \in 0..MaxStamp)'
            /\ (work.kind = "none" => work.todo = <<>>)'
            BY <2>5 DEF WorkOK, WorkKind
      <2> QED BY <2>1, <2>2, <2>3, <2>4, <2>6 DEF HubTypeOK
<1>2. (\A c \in Contact : preview[c].when <= clock)' BY DEF StoreTyped
<1>3. (running => nextItemId # 0)' BY DEF TablesTyped
<1>4. (work.kind = "repopulate" => shaky)' /\ LoopIsCached' BY DEF LoopsRight
<1>5. Fits(items, lastItemId)' BY DEF Agreeing
<1> QED BY <1>1, <1>2, <1>3, <1>4, <1>5, Zenon DEF HubInv

\* A step that touches neither the tables nor the files nor the disk.
LEMMA Untouched ==
    ASSUME TablesTyped, FlagsTyped, StoreTyped, DiskTyped, Agreeing,
           UNCHANGED <<fileVars, platformVars>>
    PROVE  TablesTyped' /\ FlagsTyped' /\ StoreTyped' /\ DiskTyped' /\ Agreeing'
<1>1. UNCHANGED <<preview, named, clock, disk, hub, items, lastItemId, nextItemId, account,
                  shaky, missed>>
      BY DEF fileVars, platformVars, cacheVars
<1>2. TablesTyped' BY <1>1 DEF TablesTyped
<1>3. FlagsTyped' BY <1>1 DEF FlagsTyped
<1>4. StoreTyped' BY <1>1 DEF StoreTyped, PreviewTyped
<1>5. DiskTyped' BY <1>1 DEF DiskTyped
<1>6. Agreeing' BY <1>1 DEF Agreeing, Fits
<1> QED BY <1>2, <1>3, <1>4, <1>5, <1>6

-----------------------------------------------------------------------------
(* One lemma per action.                                                   *)

LEMMA InitInv == HubInit => HubInv
<1> SUFFICES ASSUME HubInit PROVE HubInv
    OBVIOUS
<1>1. 0 \in 0..MaxStamp /\ 0 \in 0..MaxId /\ 0 \in 0..(MaxId + 1)
      BY HubBoundsAssumption
<1>2. WorkOK(work) /\ work.kind = "none" BY NoWorkOK DEF HubInit
<1>3. <<>> \in Seq(Item) /\ Len(<<>>) = 0 OBVIOUS
<1>4. DOMAIN hub = {} BY DEF HubInit, NoItems
<1>5. HubTypeOK
      <2>1. {running, account, shaky, missed, complete} \subseteq BOOLEAN BY DEF HubInit
      <2>2. preview \in [Contact -> {NoPreview} \cup [when : Stamp, read : BOOLEAN]]
            BY DEF HubInit
      <2>3. named \subseteq Contact BY DEF HubInit
      <2>4. /\ items \in Seq(Item) /\ disk.items \in Seq(Item) /\ disk.account \in BOOLEAN
            /\ lastItemId \in 0..MaxId /\ disk.last \in 0..MaxId
            /\ nextItemId \in 0..(MaxId + 1) /\ clock \in 0..MaxStamp
            BY <1>1, <1>3 DEF HubInit
      <2> QED BY <1>2, <1>4, <2>1, <2>2, <2>3, <2>4 DEF HubTypeOK, WorkOK, WorkKind
<1>6. \A c \in Contact : preview[c].when <= clock BY DEF HubInit, NoPreview
<1>7. Fits(disk.items, disk.last)
      <2>1. disk.items = <<>> /\ 1..Len(<<>>) = {} BY <1>3 DEF HubInit
      <2>2. Same(<<>>, hub) BY <1>4, <2>1 DEF Same
      <2>3. OneEach(<<>>, disk.last) /\ NoneLater(<<>>, clock) /\ SameMarks(<<>>, hub, preview)
            BY <2>1 DEF OneEach, NoneLater, SameMarks
      <2> QED BY <2>1, <2>2, <2>3 DEF Fits
<1> QED BY <1>2, <1>5, <1>6, <1>7 DEF HubInv, HubInit, LoopIsCached

LEMMA StopInv == HubInv /\ HubStop => HubInv'
<1> SUFFICES ASSUME HubInv, HubStop PROVE HubInv'
    OBVIOUS
<1> USE DEF HubStop
<1>1. running' = FALSE OBVIOUS
<1>2. StoreTyped /\ DiskTyped /\ FlagsTyped /\ TablesTyped /\ SwitchesTyped /\ Agreeing BY Parts
<1>3. WorkOK(work') /\ work'.kind = "none" BY NoWorkOK
<1>4. <<>> \in Seq(Item) /\ Len(<<>>) = 0 OBVIOUS
<1>5. HubTypeOK'
      <2>1. ({running, account, shaky, missed, complete} \subseteq BOOLEAN)'
            BY <1>2 DEF FlagsTyped, SwitchesTyped
      <2>2. (preview \in [Contact -> {NoPreview} \cup [when : Stamp, read : BOOLEAN]])'
            /\ (named \subseteq Contact)' /\ (clock \in 0..MaxStamp)'
            BY <1>2 DEF StoreTyped, PreviewTyped, fileVars
      <2>3. /\ (items \in Seq(Item) /\ disk.items \in Seq(Item) /\ disk.account \in BOOLEAN)'
            /\ (DOMAIN hub \subseteq Id)'
            /\ (\A i \in DOMAIN hub : hub[i] \in [who : Contact, when : Stamp, read : BOOLEAN])'
            /\ (lastItemId \in 0..MaxId /\ disk.last \in 0..MaxId)'
            /\ (nextItemId \in 0..(MaxId + 1))'
            BY <1>2, <1>4, HubBoundsAssumption DEF TablesTyped, DiskTyped, HubItem
      <2> QED BY <1>3, <2>1, <2>2, <2>3 DEF HubTypeOK, WorkOK, WorkKind
<1>6. (\A c \in Contact : preview[c].when <= clock)' BY <1>2 DEF StoreTyped, fileVars
<1>7. Fits(disk.items, disk.last)'
      <2>1. CASE shaky' BY <2>1 DEF Fits
      <2>2. CASE ~shaky'
            <3>1. ~shaky /\ disk.items = items /\ disk.last = lastItemId BY <2>2, Zenon
            <3>2. UNCHANGED <<disk, hub, missed, preview, clock>> BY DEF fileVars
            <3> QED BY <1>2, <3>1, <3>2 DEF Agreeing, Fits
      <2> QED BY <2>1, <2>2
<1> QED BY <1>1, <1>3, <1>5, <1>6, <1>7, Zenon DEF HubInv, LoopIsCached

LEMMA StartInv ==
    ASSUME HubInv, NEW reload \in BOOLEAN, NEW granted \in BOOLEAN, HubStart(reload, granted)
    PROVE  HubInv'
<1> USE DEF HubStart
<1>1. ~running /\ running' = TRUE OBVIOUS
<1>2. HubTypeOK BY DEF HubInv
<1>3. DiskTyped /\ StoreTyped /\ FlagsTyped /\ SwitchesTyped /\ WorkOK(work)
      BY <1>2 DEF HubTypeOK, HubInv, DiskTyped, StoreTyped, PreviewTyped, FlagsTyped,
                  SwitchesTyped, WorkOK, WorkKind
<1>4. work.kind = "none" BY <1>1 DEF HubInv, HubTypeOK
<1>5. StoreTyped' BY <1>3 DEF StoreTyped, PreviewTyped, fileVars
<1>6. DiskTyped' BY <1>3 DEF DiskTyped
<1>7. SwitchesTyped' BY <1>3 DEF SwitchesTyped, DiskTyped
<1>8. (items \in Seq(Item) /\ lastItemId \in 0..MaxId)' BY <1>3 DEF DiskTyped
<1>9. (nextItemId \in 1..(MaxId + 1))' BY <1>3, HubBoundsAssumption DEF DiskTyped
<1>10. CASE ~reload
      <2>1. UNCHANGED <<hub, work, shaky, missed, preview, clock>> BY <1>10 DEF fileVars
      <2>2. TablesTyped'
            BY <1>2, <1>8, <1>9, <2>1 DEF TablesTyped, HubTypeOK, HubItem
      <2>3. FlagsTyped' BY <1>3, <2>1 DEF FlagsTyped
      <2>4. LoopsRight' BY <1>3, <1>4, <2>1 DEF LoopsRight, LoopIsCached
      <2>5. Agreeing'
            <3>1. Fits(disk.items, disk.last) BY <1>1 DEF HubInv
            <3>2. items' = disk.items /\ lastItemId' = disk.last OBVIOUS
            <3> QED BY <2>1, <3>1, <3>2 DEF Agreeing, Fits
      <2> QED BY <1>1, <1>5, <1>6, <1>7, <2>2, <2>3, <2>4, <2>5, Assembled
<1>11. CASE reload
      <2>1. /\ hub' = NoItems /\ work' = Loop("repopulate", disk.items, 0)
            /\ shaky' = (shaky \/ disk.items # <<>>)
            BY <1>11
      <2>2. DOMAIN hub' = {} BY <2>1 DEF NoItems
      <2>3. TablesTyped' BY <1>8, <1>9, <2>2 DEF TablesTyped
      <2>4. FlagsTyped' BY <1>3, <2>1, Zenon DEF FlagsTyped
      <2> DEFINE todo == disk.items
      <2>5. WorkOK(work') /\ work'.kind = IF todo = <<>> THEN "none" ELSE "repopulate"
            <3>1. todo \in Seq(Item) /\ "repopulate" \in WorkKind /\ 0 \in 0..MaxStamp
                  BY <1>3, HubBoundsAssumption DEF DiskTyped, WorkKind
            <3>2. work' = Loop("repopulate", todo, 0) BY <2>1
            <3> HIDE DEF todo
            <3>3. IF "repopulate" = "resynch" THEN todo \in Seq(Contact)
                                              ELSE todo \in Seq(Item)
                  BY <3>1
            <3>4. /\ WorkOK(Loop("repopulate", todo, 0))
                  /\ Loop("repopulate", todo, 0).kind =
                        IF todo = <<>> THEN "none" ELSE "repopulate"
                  BY <3>1, <3>3, LoopOK
            <3> QED BY <3>2, <3>4
      <2>6. LoopsRight'
            <3>1. work'.kind # "markRead" BY <2>5
            <3>2. work'.kind = "repopulate" => shaky' BY <2>1, <2>5, Zenon
            <3> QED BY <2>5, <3>1, <3>2 DEF LoopsRight, LoopIsCached
      <2>7. Agreeing'
            <3>1. CASE shaky' BY <3>1 DEF Agreeing, Fits
            <3>2. CASE ~shaky'
                  <4>1. items' = <<>> BY <2>1, <3>2, Zenon
                  <4>2. 1..Len(items') = {} BY <4>1
                  <4>3. Same(items', hub') BY <2>2, <4>2 DEF Same
                  <4>4. /\ OneEach(items', lastItemId') /\ NoneLater(items', clock')
                        /\ SameMarks(items', hub', preview')
                        BY <4>2 DEF OneEach, NoneLater, SameMarks
                  <4> QED BY <4>3, <4>4 DEF Agreeing, Fits
            <3> QED BY <3>1, <3>2
      <2> QED BY <1>1, <1>5, <1>6, <1>7, <2>3, <2>4, <2>6, <2>7, Assembled
<1> QED BY <1>10, <1>11

\* A loop of this kind leaves nothing to be cached.
LEMMA OtherLoop ==
    ASSUME WorkOK(work'), work'.kind \in {"none", "resynch", "delete"}
    PROVE  LoopsRight'
BY DEF LoopsRight, LoopIsCached

LEMMA FreeLoop ==
    ASSUME LoopsRight, UNCHANGED work, work.kind = "none"
    PROVE  LoopsRight'
BY OtherLoop DEF LoopsRight

LEMMA SyncInv == HubInv /\ SettingsSync => HubInv'
<1> SUFFICES ASSUME HubInv, SettingsSync PROVE HubInv'
    OBVIOUS
<1> USE DEF SettingsSync
<1>1. running /\ work.kind = "none" BY DEF Free
<1>2. /\ running = TRUE /\ running' = running
      /\ TablesTyped /\ FlagsTyped /\ StoreTyped /\ SwitchesTyped /\ LoopsRight /\ Agreeing
      BY <1>1, Parts
<1>3. UNCHANGED <<preview, named, clock, hub, items, lastItemId, nextItemId, account, work,
                  shaky, missed, complete>>
      BY DEF fileVars, cacheVars
<1>4. DiskTyped' BY <1>2 DEF DiskTyped, TablesTyped, SwitchesTyped
<1>5. TablesTyped' /\ FlagsTyped' BY <1>2, <1>3 DEF TablesTyped, FlagsTyped
<1>6. StoreTyped' BY <1>2, <1>3 DEF StoreTyped, PreviewTyped
<1>7. SwitchesTyped' BY <1>2, <1>3 DEF SwitchesTyped
<1>8. LoopsRight' BY <1>1, <1>2, <1>3, FreeLoop
<1>9. Agreeing' BY <1>2, <1>3 DEF Agreeing, Fits
<1> QED BY <1>2, <1>4, <1>5, <1>6, <1>7, <1>8, <1>9, Assembled

LEMMA MessageInv ==
    ASSUME HubInv, NEW c \in Contact, NEW notify \in BOOLEAN, MessageLogged(c, notify)
    PROVE  HubInv'
<1> USE DEF MessageLogged
<1>1. running /\ work.kind = "none" BY DEF Free
<1>2. /\ running = TRUE /\ running' = running
      /\ TablesTyped /\ FlagsTyped /\ StoreTyped /\ DiskTyped /\ SwitchesTyped
      /\ LoopsRight /\ Agreeing
      BY <1>1, Parts
<1>3. UNCHANGED <<named, disk, hub, items, lastItemId, nextItemId, account, shaky, missed>>
      BY DEF platformVars, cacheVars
<1>4. /\ clock \in 0..MaxStamp /\ clock' = clock + 1 /\ clock' \in Stamp
      BY <1>2, HubBoundsAssumption DEF StoreTyped, Stamp
<1>5. /\ \A d \in Contact : d # c => preview'[d] = preview[d]
      /\ preview'[c] = [when |-> clock', read |-> FALSE] /\ PreviewTyped'
      BY <1>2, <1>4 DEF StoreTyped, PreviewTyped
<1>6. StoreTyped'
      <2>1. (\A d \in Contact : preview[d].when <= clock)'
            <3> SUFFICES ASSUME NEW d \in Contact PROVE preview'[d].when <= clock'
                OBVIOUS
            <3>1. CASE d = c BY <1>4, <1>5, <3>1 DEF Stamp
            <3>2. CASE d # c
                  <4>1. preview[d].when <= clock BY <1>2 DEF StoreTyped
                  <4>2. preview[d].when \in Int
                        <5>1. preview[d] = NoPreview
                              \/ preview[d] \in [when : Stamp, read : BOOLEAN]
                              BY <1>2 DEF StoreTyped, PreviewTyped
                        <5> QED BY <5>1 DEF NoPreview, Stamp
                  <4>3. preview'[d] = preview[d] BY <1>5, <3>2
                  <4> QED BY <1>4, <4>1, <4>2, <4>3
            <3> QED BY <3>1, <3>2
      <2>2. (clock \in 0..MaxStamp)' BY <1>4, HubBoundsAssumption DEF Stamp
      <2>3. (named \subseteq Contact)' BY <1>2, <1>3 DEF StoreTyped
      <2> QED BY <1>5, <2>1, <2>2, <2>3 DEF StoreTyped
<1>7. TablesTyped' /\ FlagsTyped' BY <1>2, <1>3 DEF TablesTyped, FlagsTyped
<1>8. DiskTyped' BY <1>2, <1>3 DEF DiskTyped
<1>9. SwitchesTyped' /\ LoopsRight'
      <2>1. CASE notify
            <3>1. Resynch BY <2>1
            <3>2. WorkOK(work') /\ work'.kind \in {"none", "resynch"} /\ complete'
                  BY <3>1, ResynchOK
            <3>3. complete' = TRUE BY <3>1 DEF Resynch
            <3> QED BY <1>2, <1>3, <3>2, <3>3, OtherLoop DEF SwitchesTyped
      <2>2. CASE ~notify
            <3>1. UNCHANGED <<work, complete>> BY <2>2
            <3> QED BY <1>1, <1>2, <1>3, <3>1, FreeLoop DEF SwitchesTyped
      <2> QED BY <2>1, <2>2
<1>10. Agreeing'
      <2> SUFFICES ASSUME ~shaky PROVE Agreeing'
          BY <1>3 DEF Agreeing, Fits
      <2>1. Same(items, hub) /\ OneEach(items, lastItemId) /\ NoneLater(items, clock)
            BY <1>2 DEF Agreeing, Fits
      <2>2. \A i \in 1..Len(items) : items[i] \in Item
            BY <1>2, ElementOfSeq DEF TablesTyped
      <2>3. \A i \in 1..Len(items) : items[i].when <= clock' /\ items[i].when # clock'
            <3> SUFFICES ASSUME NEW i \in 1..Len(items)
                         PROVE  items[i].when <= clock' /\ items[i].when # clock'
                OBVIOUS
            <3>1. items[i].when \in Nat BY <2>2 DEF Item, Stamp
            <3>2. items[i].when <= clock BY <2>1 DEF NoneLater
            <3> QED BY <1>4, <3>1, <3>2
      <2>4. NoneLater(items, clock') BY <2>3 DEF NoneLater
      <2>5. ASSUME ~missed PROVE SameMarks(items, hub, preview')
            <3>1. SameMarks(items, hub, preview) BY <1>2, <2>5 DEF Agreeing, Fits
            <3>2. ASSUME NEW i \in 1..Len(items), preview'[items[i].who].when = items[i].when
                  PROVE  hub[items[i].id].read = preview'[items[i].who].read
                  <4>1. items[i].who \in Contact BY <2>2 DEF Item
                  <4>2. items[i].who # c BY <1>5, <2>3, <3>2
                  <4>3. preview'[items[i].who] = preview[items[i].who] BY <1>5, <4>1, <4>2
                  <4> QED BY <3>1, <3>2, <4>3 DEF SameMarks
            <3> QED BY <3>2 DEF SameMarks
      <2> QED BY <1>3, <2>1, <2>4, <2>5 DEF Agreeing, Fits
<1> QED BY <1>2, <1>6, <1>7, <1>8, <1>9, <1>10, Assembled

LEMMA UpdateHubInv == HubInv /\ UiUpdateHub => HubInv'
<1> SUFFICES ASSUME HubInv, UiUpdateHub PROVE HubInv'
    OBVIOUS
<1> USE DEF UiUpdateHub
<1>1. running BY DEF Free
<1>2. /\ running = TRUE /\ running' = running
      /\ TablesTyped /\ FlagsTyped /\ StoreTyped /\ DiskTyped /\ SwitchesTyped
      /\ LoopsRight /\ Agreeing
      BY <1>1, Parts
<1>3. TablesTyped' /\ FlagsTyped' /\ StoreTyped' /\ DiskTyped' /\ Agreeing'
      BY <1>2, Untouched
<1>4. WorkOK(work') /\ work'.kind \in {"none", "resynch"} BY ResynchOK
<1>5. complete' = TRUE /\ account' = account BY DEF Resynch, platformVars
<1>6. SwitchesTyped' BY <1>2, <1>5 DEF SwitchesTyped
<1>7. LoopsRight' BY <1>4, OtherLoop
<1> QED BY <1>2, <1>3, <1>6, <1>7, Assembled

LEMMA VCardInv ==
    ASSUME HubInv, NEW c \in Contact, VCardStored(c) PROVE HubInv'
<1> USE DEF VCardStored
<1>1. running /\ work.kind = "none" BY DEF Free
<1>2. /\ running = TRUE /\ running' = running
      /\ TablesTyped /\ FlagsTyped /\ StoreTyped /\ DiskTyped /\ SwitchesTyped
      /\ LoopsRight /\ Agreeing
      BY <1>1, Parts
<1>3. UNCHANGED <<preview, clock, disk, hub, items, lastItemId, nextItemId, account, shaky,
                  missed, work, complete>>
      BY DEF platformVars, cacheVars
<1>4. TablesTyped' /\ FlagsTyped' BY <1>2, <1>3 DEF TablesTyped, FlagsTyped
<1>5. StoreTyped' BY <1>2, <1>3 DEF StoreTyped, PreviewTyped
<1>6. DiskTyped' /\ SwitchesTyped' BY <1>2, <1>3 DEF DiskTyped, SwitchesTyped
<1>7. LoopsRight' BY <1>1, <1>2, <1>3, FreeLoop
<1>8. Agreeing' BY <1>2, <1>3 DEF Agreeing, Fits
<1> QED BY <1>2, <1>4, <1>5, <1>6, <1>7, <1>8, Assembled

LEMMA RepopulateInv == HubInv /\ RepopulateTurn => HubInv'
<1> SUFFICES ASSUME HubInv, RepopulateTurn PROVE HubInv'
    OBVIOUS
<1> USE DEF RepopulateTurn
<1>1. running /\ work.kind = "repopulate" OBVIOUS
<1>2. /\ running = TRUE /\ running' = running
      /\ TablesTyped /\ FlagsTyped /\ StoreTyped /\ DiskTyped /\ SwitchesTyped
      /\ LoopsRight /\ Agreeing
      BY <1>1, Parts
<1> DEFINE it == Head(work.todo)
<1>3. /\ it \in Item /\ WorkOK(work') /\ work'.kind \in {"none", "repopulate"} /\ shaky
      BY <1>1, <1>2, TurnOK DEF LoopsRight
<1>4. it.who \in Contact /\ it.when \in Stamp BY <1>3 DEF Item
<1>5. AddHubItem(it.who, it.when, FALSE) OBVIOUS
<1>6. UNCHANGED <<preview, named, clock, disk, account, complete>> BY DEF fileVars
<1> HIDE DEF it
<1>7. TablesTyped' /\ FlagsTyped' BY <1>2, <1>4, <1>5, AddTyped
<1>8. shaky' BY <1>3, <1>5, Zenon DEF AddHubItem
<1>9. StoreTyped' BY <1>2, <1>6 DEF StoreTyped, PreviewTyped
<1>10. DiskTyped' /\ SwitchesTyped' BY <1>2, <1>6 DEF DiskTyped, SwitchesTyped
<1>11. LoopsRight' BY <1>3, <1>8 DEF LoopsRight, LoopIsCached
<1>12. Agreeing' BY <1>8 DEF Agreeing, Fits
<1> QED BY <1>2, <1>7, <1>9, <1>10, <1>11, <1>12, Assembled

LEMMA ResynchInv == HubInv /\ ResynchTurn => HubInv'
<1> SUFFICES ASSUME HubInv, ResynchTurn PROVE HubInv'
    OBVIOUS
<1> DEFINE c == Head(work.todo)
           e == preview[c]
           First(i) == \A j \in ItemsOf(c) : i <= j
           it == items[CHOOSE i \in ItemsOf(c) : First(i)]
<1>1. /\ running /\ work.kind = "resynch"
      /\ UNCHANGED <<running, preview, named, clock, disk, account>>
      BY DEF ResynchTurn, fileVars
<1>2. /\ running = TRUE /\ running' = running
      /\ TablesTyped /\ FlagsTyped /\ StoreTyped /\ DiskTyped /\ SwitchesTyped
      /\ LoopsRight /\ Agreeing
      BY <1>1, Parts
<1>3. c \in Contact /\ WorkOK(Rest(work)) /\ Rest(work).kind \in {"none", "resynch"}
      BY <1>1, <1>2, TurnOK DEF LoopsRight
<1>4. \/ /\ work' = Rest(work)
         /\ UNCHANGED <<hub, cacheVars, nextItemId, shaky, missed, complete>>
      \/ /\ e # NoPreview /\ ItemsOf(c) # {} /\ it.when # e.when /\ work' = Rest(work)
         /\ UpdateHubItem(it.id, c, e.when, e.read) /\ UNCHANGED missed
         /\ complete' = (complete /\ items' # items)
      \/ /\ e # NoPreview /\ ItemsOf(c) = {} /\ work' = Rest(work)
         /\ AddHubItem(c, e.when, e.read)
         /\ complete' = (complete /\ items' # items)
      \/ /\ work' = NoWork /\ complete' = FALSE
         /\ UNCHANGED <<hub, cacheVars, nextItemId, shaky, missed>>
      BY Zenon DEF ResynchTurn
<1>5. ASSUME e # NoPreview
      PROVE  e = [when |-> e.when, read |-> e.read] /\ e.when \in Stamp /\ e.read \in BOOLEAN
             /\ e.when <= clock
      <2>1. e \in [when : Stamp, read : BOOLEAN]
            BY <1>2, <1>3, <1>5 DEF StoreTyped, PreviewTyped
      <2>2. e.when <= clock BY <1>2, <1>3 DEF StoreTyped
      <2> QED BY <2>1, <2>2
<1>6. LoopsRight'
      <2>1. WorkOK(work') /\ work'.kind \in {"none", "resynch"}
            BY <1>3, <1>4, NoWorkOK, Zenon
      <2> QED BY <2>1, OtherLoop
<1>7. SwitchesTyped'
      <2>1. account' = account BY <1>1
      <2>2. complete \in BOOLEAN /\ account \in BOOLEAN BY <1>2 DEF SwitchesTyped
      <2>3. complete' \in BOOLEAN BY <1>4, <2>2, Zenon
      <2> QED BY <2>1, <2>2, <2>3 DEF SwitchesTyped
<1>8. StoreTyped' BY <1>1, <1>2 DEF StoreTyped, PreviewTyped
<1>9. DiskTyped' BY <1>1, <1>2 DEF DiskTyped
<1>10. TablesTyped' /\ FlagsTyped' /\ Agreeing'
      <2>1. CASE UNCHANGED <<hub, cacheVars, nextItemId, shaky, missed>>
            <3>1. UNCHANGED <<preview, clock, hub, items, lastItemId, nextItemId, shaky, missed>>
                  BY <1>1, <2>1 DEF cacheVars
            <3>2. TablesTyped' /\ FlagsTyped' BY <1>2, <3>1 DEF TablesTyped, FlagsTyped
            <3>3. Agreeing' BY <1>2, <3>1 DEF Agreeing, Fits
            <3> QED BY <3>2, <3>3
      <2>2. CASE /\ e # NoPreview /\ ItemsOf(c) # {}
                 /\ UpdateHubItem(it.id, c, e.when, e.read) /\ UNCHANGED missed
            <3>1. PICK k \in 1..Len(items) : it = items[k] /\ items[k].who = c
                  <4>1. DOMAIN items = 1..Len(items) BY <1>2, LenProperties DEF TablesTyped
                  <4>2. ItemsOf(c) \subseteq Nat BY <4>1 DEF ItemsOf
                  <4>3. \E i \in ItemsOf(c) : First(i)
                        BY <2>2, <4>2, LeastNatural
                  <4>4. (CHOOSE i \in ItemsOf(c) : First(i)) \in ItemsOf(c)
                        <5> HIDE DEF First
                        <5> QED BY <4>3
                  <4> HIDE DEF First, c
                  <4> QED BY <4>1, <4>4 DEF ItemsOf
            <3>2. items[k].id \in Id
                  <4>1. items[k] \in Item BY <1>2, ElementOfSeq DEF TablesTyped
                  <4> QED BY <4>1 DEF Item
            <3>3. UpdateHubItem(items[k].id, c, e.when, e.read) BY <2>2, <3>1
            <3>4. e.when \in Stamp /\ e.read \in BOOLEAN /\ e.when <= clock
                  /\ preview[c].read = e.read
                  BY <1>5, <2>2
            <3>5. preview' = preview /\ clock' = clock /\ missed' = missed BY <1>1, <2>2
            <3>6. preview'[c].when = e.when => preview'[c].read = e.read BY <3>5
            <3>7. /\ \A d \in Contact : d # c => preview'[d] = preview[d]
                  /\ preview'[c] = preview[c]
                  BY <3>5
            <3> DEFINE w == e.when
                       r == e.read
            <3>8. /\ w \in Stamp /\ r \in BOOLEAN /\ w <= clock
                  /\ UpdateHubItem(items[k].id, c, w, r)
                  /\ preview'[c].when = w => preview'[c].read = r
                  BY <3>3, <3>4, <3>6
            <3> HIDE DEF c, it, w, r
            <3>9. TablesTyped' BY <1>2, <1>3, <3>2, <3>8, UpdateTyped
            <3>10. shaky' = shaky BY <3>8 DEF UpdateHubItem
            <3>11. FlagsTyped' BY <1>2, <3>5, <3>10 DEF FlagsTyped
            <3>12. Agreeing'
                  <4>1. CASE shaky BY <3>10, <4>1 DEF Agreeing, Fits
                  <4>2. CASE ~shaky
                        BY <1>2, <1>3, <3>1, <3>2, <3>5, <3>7, <3>8, <4>2, UpdateAgrees
                  <4> QED BY <4>1, <4>2
            <3> QED BY <3>9, <3>11, <3>12
      <2>3. CASE e # NoPreview /\ ItemsOf(c) = {} /\ AddHubItem(c, e.when, e.read)
            <3> DEFINE w == e.when
                       r == e.read
            <3>1. /\ w \in Stamp /\ r \in BOOLEAN /\ w <= clock
                  /\ preview[c] = [when |-> w, read |-> r]
                  /\ AddHubItem(c, w, r)
                  BY <1>5, <2>3
            <3>2. preview' = preview /\ clock' = clock BY <1>1
            <3>3. ItemsOf(c) = {} BY <2>3
            <3> HIDE DEF c, w, r
            <3>4. TablesTyped' /\ FlagsTyped' BY <1>2, <1>3, <3>1, AddTyped
            <3>5. Agreeing' BY <1>2, <1>3, <3>1, <3>2, <3>3, AddAgrees
            <3> QED BY <3>4, <3>5
      <2> QED BY <1>4, <2>1, <2>2, <2>3, Zenon
<1> QED BY <1>2, <1>6, <1>7, <1>8, <1>9, <1>10, Assembled

LEMMA MarkInv ==
    ASSUME HubInv, NEW id \in Id, NEW read \in BOOLEAN, InvokedMark(id, read)
    PROVE  HubInv'
<1> USE DEF InvokedMark
<1>1. running /\ work.kind = "none" BY DEF Free
<1>2. /\ running = TRUE /\ running' = running
      /\ TablesTyped /\ FlagsTyped /\ StoreTyped /\ DiskTyped /\ SwitchesTyped
      /\ LoopsRight /\ Agreeing
      BY <1>1, Parts
<1>3. hub[id].who \in Contact /\ PreviewTyped
      BY <1>2 DEF TablesTyped, HubItem, StoreTyped
<1>4. MarkHubItem(id, read) /\ SetRead(hub[id].who, read) /\ clock' = clock OBVIOUS
<1>5. TablesTyped' /\ FlagsTyped' BY <1>2, <1>4, MarkTyped
<1>6. ~shaky => \E k \in 1..Len(items) : items[k].id = id /\ items[k].who = hub[id].who
      <2> SUFFICES ASSUME ~shaky
                   PROVE  \E k \in 1..Len(items) : items[k].id = id /\ items[k].who = hub[id].who
          OBVIOUS
      <2>1. Same(items, hub) BY <1>2 DEF Agreeing, Fits
      <2> QED BY <2>1 DEF Same
<1>7. Agreeing'
      <2> DEFINE c == hub[id].who
      <2>1. /\ c \in Contact /\ SetRead(c, read)
            /\ ~shaky => \E k \in 1..Len(items) : items[k].id = id /\ items[k].who = c
            BY <1>3, <1>4, <1>6
      <2> HIDE DEF c
      <2> QED BY <1>2, <1>3, <1>4, <2>1, MarkAgrees
<1>8. StoreTyped' BY <1>2, <1>3, <1>4, SetReadFacts DEF StoreTyped
<1>9. DiskTyped' /\ SwitchesTyped' BY <1>2 DEF DiskTyped, SwitchesTyped
<1>10. LoopsRight' BY <1>1, <1>2, FreeLoop
<1> QED BY <1>2, <1>5, <1>7, <1>8, <1>9, <1>10, Assembled

\* A preview that is removed.
LEMMA Forgotten ==
    ASSUME StoreTyped, NEW c \in Contact, preview' = [preview EXCEPT ![c] = NoPreview],
           UNCHANGED <<named, clock>>
    PROVE  StoreTyped' /\ \A d \in Contact : preview'[d] = preview[d] \/ preview'[d] = NoPreview
<1>1. \A d \in Contact : preview'[d] = preview[d] \/ preview'[d] = NoPreview
      BY DEF StoreTyped, PreviewTyped
<1>2. PreviewTyped' BY DEF StoreTyped, PreviewTyped
<1>3. NoPreview.when <= clock BY DEF StoreTyped, NoPreview
<1>4. (\A d \in Contact : preview[d].when <= clock)' BY <1>1, <1>3 DEF StoreTyped
<1> QED BY <1>1, <1>2, <1>4 DEF StoreTyped

LEMMA DeleteInv ==
    ASSUME HubInv, NEW id \in Id, InvokedDelete(id) PROVE HubInv'
<1> USE DEF InvokedDelete
<1>1. running /\ work.kind = "none" BY DEF Free
<1>2. /\ running = TRUE /\ running' = running
      /\ TablesTyped /\ FlagsTyped /\ StoreTyped /\ DiskTyped /\ SwitchesTyped
      /\ LoopsRight /\ Agreeing
      BY <1>1, Parts
<1>3. hub[id].who \in Contact BY <1>2 DEF TablesTyped, HubItem
<1>4. StoreTyped' /\ \A d \in Contact : preview'[d] = preview[d] \/ preview'[d] = NoPreview
      BY <1>2, <1>3, Forgotten
<1>5. TablesTyped' /\ FlagsTyped' BY <1>2, RemoveTyped
<1>6. Agreeing' BY <1>2, <1>4, RemoveAgrees
<1>7. DiskTyped' /\ SwitchesTyped' BY <1>2 DEF DiskTyped, SwitchesTyped
<1>8. LoopsRight' BY <1>1, <1>2, FreeLoop
<1> QED BY <1>2, <1>4, <1>5, <1>6, <1>7, <1>8, Assembled

LEMMA PriorInv ==
    ASSUME HubInv, NEW kind \in {"markRead", "delete"}, NEW stamp \in Stamp,
           InvokedPrior(kind, stamp)
    PROVE  HubInv'
<1> USE DEF InvokedPrior
<1>1. running BY DEF Free
<1>2. /\ running = TRUE /\ running' = running
      /\ TablesTyped /\ FlagsTyped /\ StoreTyped /\ DiskTyped /\ SwitchesTyped
      /\ LoopsRight /\ Agreeing
      BY <1>1, Parts
<1>3. TablesTyped' /\ FlagsTyped' /\ StoreTyped' /\ DiskTyped' /\ Agreeing'
      BY <1>2, Untouched
<1>4. SwitchesTyped' BY <1>2 DEF SwitchesTyped, platformVars
<1>5. /\ kind \in WorkKind /\ stamp \in 0..MaxStamp
      /\ IF kind = "resynch" THEN items \in Seq(Contact) ELSE items \in Seq(Item)
      /\ kind = "none" => items = <<>>
      BY <1>2, HubBoundsAssumption DEF WorkKind, Stamp, TablesTyped
<1>6. work' = Loop(kind, items, stamp) OBVIOUS
<1>7. /\ WorkOK(work') /\ work'.todo = items
      /\ work'.kind = IF items = <<>> THEN "none" ELSE kind
      BY <1>5, <1>6, LoopOK
<1>8. items' = items BY DEF platformVars, cacheVars
<1>9. LoopsRight' BY <1>7, <1>8 DEF LoopsRight, LoopIsCached
<1> QED BY <1>2, <1>3, <1>4, <1>9, Assembled

LEMMA PriorTurnInv == HubInv /\ PriorTurn => HubInv'
<1> SUFFICES ASSUME HubInv, PriorTurn PROVE HubInv'
    OBVIOUS
<1> DEFINE it == Head(work.todo)
<1>1. /\ running /\ work.kind \in {"markRead", "delete"} /\ work' = Rest(work)
      /\ UNCHANGED <<running, named, clock, disk, account, complete>>
      BY DEF PriorTurn
<1>2. /\ running = TRUE /\ running' = running
      /\ TablesTyped /\ FlagsTyped /\ StoreTyped /\ DiskTyped /\ SwitchesTyped
      /\ LoopsRight /\ Agreeing
      BY <1>1, Parts
<1>3. /\ it \in Item /\ WorkOK(work') /\ work'.kind \in {"none", work.kind}
      /\ work'.todo = Tail(work.todo)
      /\ Len(work.todo) \in Nat \ {0} /\ it = work.todo[1]
      /\ Len(Tail(work.todo)) = Len(work.todo) - 1
      /\ \A k \in 1..(Len(work.todo) - 1) : Tail(work.todo)[k] = work.todo[k + 1]
      BY <1>1, <1>2, TurnOK DEF LoopsRight
<1>4. it.who \in Contact /\ it.id \in Id BY <1>3 DEF Item
<1>5. \/ UNCHANGED <<preview, hub, cacheVars, nextItemId, shaky, missed>>
      \/ work.kind = "markRead" /\ SetRead(it.who, TRUE) /\ MarkHubItem(it.id, TRUE)
      \/ /\ work.kind = "delete" /\ preview' = [preview EXCEPT ![it.who] = NoPreview]
         /\ RemoveHubItem(it.id)
      BY Zenon DEF PriorTurn
<1>6. DiskTyped' /\ SwitchesTyped' BY <1>1, <1>2 DEF DiskTyped, SwitchesTyped
<1>7. work.kind = "markRead" => \E i \in 1..Len(items) : items[i] = it
      BY <1>2, <1>3 DEF LoopsRight, LoopIsCached
<1>8. work'.kind \in {"none", "delete"} \/ (work'.kind = "markRead" /\ work.kind = "markRead")
      BY <1>1, <1>3
<1>9. work.kind = "markRead" /\ items' = items => LoopIsCached'
      <2> SUFFICES ASSUME work.kind = "markRead", items' = items
                   PROVE  \A k \in 1..Len(work'.todo) :
                             \E i \in 1..Len(items') : items'[i] = work'.todo[k]
          BY DEF LoopIsCached
      <2>1. \A k \in 1..Len(work.todo) : \E i \in 1..Len(items) : items[i] = work.todo[k]
            BY <1>2 DEF LoopsRight, LoopIsCached
      <2>2. ASSUME NEW k \in 1..Len(work'.todo)
            PROVE  \E i \in 1..Len(items) : items[i] = work'.todo[k]
            <3>1. k + 1 \in 1..Len(work.todo) /\ work'.todo[k] = work.todo[k + 1]
                  BY <1>3
            <3> QED BY <2>1, <3>1
      <2> QED BY <2>2
<1>10. ASSUME work.kind = "markRead" => items' = items PROVE LoopsRight'
      <2>1. LoopIsCached' BY <1>8, <1>9, <1>10 DEF LoopIsCached
      <2>2. work'.kind # "repopulate" BY <1>8
      <2> QED BY <1>3, <2>1, <2>2 DEF LoopsRight
<1> HIDE DEF it
<1>11. CASE UNCHANGED <<preview, hub, cacheVars, nextItemId, shaky, missed>>
      <2>1. UNCHANGED <<preview, named, clock, hub, items, lastItemId, nextItemId, shaky, missed>>
            BY <1>1, <1>11 DEF cacheVars
      <2>2. TablesTyped' /\ FlagsTyped' BY <1>2, <2>1 DEF TablesTyped, FlagsTyped
      <2>3. StoreTyped' BY <1>2, <2>1 DEF StoreTyped, PreviewTyped
      <2>4. Agreeing' BY <1>2, <2>1 DEF Agreeing, Fits
      <2>5. LoopsRight' BY <1>10, <2>1
      <2> QED BY <1>2, <1>6, <2>2, <2>3, <2>4, <2>5, Assembled
<1>12. CASE work.kind = "markRead" /\ SetRead(it.who, TRUE) /\ MarkHubItem(it.id, TRUE)
      <2>1. TablesTyped' /\ FlagsTyped' /\ items' = items BY <1>2, <1>4, <1>12, MarkTyped
      <2>2. PreviewTyped BY <1>2 DEF StoreTyped
      <2>3. StoreTyped' BY <1>1, <1>2, <1>4, <1>12, <2>2, SetReadFacts DEF StoreTyped
      <2>4. Agreeing'
            <3> DEFINE c == it.who
                       id == it.id
            <3>1. \E k \in 1..Len(items) : items[k].id = id /\ items[k].who = c
                  BY <1>7, <1>12
            <3>2. /\ c \in Contact /\ id \in Id /\ SetRead(c, TRUE) /\ MarkHubItem(id, TRUE)
                  /\ clock' = clock
                  BY <1>1, <1>4, <1>12
            <3> HIDE DEF c, id
            <3> QED BY <1>2, <2>2, <3>1, <3>2, MarkAgrees
      <2>5. LoopsRight' BY <1>10, <2>1
      <2> QED BY <1>2, <1>6, <2>1, <2>3, <2>4, <2>5, Assembled
<1>13. CASE /\ work.kind = "delete" /\ preview' = [preview EXCEPT ![it.who] = NoPreview]
            /\ RemoveHubItem(it.id)
      <2>1. StoreTyped' /\ \A d \in Contact : preview'[d] = preview[d] \/ preview'[d] = NoPreview
            BY <1>1, <1>2, <1>4, <1>13, Forgotten
      <2>2. TablesTyped' /\ FlagsTyped' BY <1>2, <1>4, <1>13, RemoveTyped
      <2>3. Agreeing' BY <1>1, <1>2, <1>4, <1>13, <2>1, RemoveAgrees
      <2>4. LoopsRight' BY <1>10, <1>13
      <2> QED BY <1>2, <1>6, <2>1, <2>2, <2>3, <2>4, Assembled
<1> QED BY <1>5, <1>11, <1>12, <1>13, Zenon

LEMMA StepInv == HubInv /\ [HubNext]_hubVars => HubInv'
<1> SUFFICES ASSUME HubInv, [HubNext]_hubVars PROVE HubInv'
    OBVIOUS
<1>1. CASE UNCHANGED hubVars
      <2>1. UNCHANGED <<running, preview, named, clock, disk, hub, items, lastItemId,
                        nextItemId, account, work, shaky, missed, complete>>
            BY <1>1 DEF hubVars, fileVars, cacheVars
      <2>2. HubTypeOK' BY <2>1 DEF HubInv, HubTypeOK
      <2>3. Fits(items, lastItemId)' = Fits(items, lastItemId)
            /\ Fits(disk.items, disk.last)' = Fits(disk.items, disk.last)
            BY <2>1 DEF Fits
      <2>4. LoopIsCached' = LoopIsCached BY <2>1 DEF LoopIsCached
      <2> QED BY <2>1, <2>2, <2>3, <2>4 DEF HubInv
<1>2. ASSUME NEW reload \in BOOLEAN, NEW granted \in BOOLEAN, HubStart(reload, granted)
      PROVE  HubInv'
      BY <1>2, StartInv
<1>3. CASE HubStop BY <1>3, StopInv
<1>4. CASE SettingsSync BY <1>4, SyncInv
<1>5. ASSUME NEW c \in Contact, VCardStored(c) PROVE HubInv' BY <1>5, VCardInv
<1>6. ASSUME NEW c \in Contact, NEW n \in BOOLEAN, MessageLogged(c, n) PROVE HubInv'
      BY <1>6, MessageInv
<1>7. CASE UiUpdateHub BY <1>7, UpdateHubInv
<1>8. CASE ResynchTurn BY <1>8, ResynchInv
<1>9. CASE RepopulateTurn BY <1>9, RepopulateInv
<1>10. ASSUME NEW id \in Id, InvokedDelete(id) PROVE HubInv' BY <1>10, DeleteInv
<1>11. ASSUME NEW id \in Id, NEW r \in BOOLEAN, InvokedMark(id, r) PROVE HubInv'
       BY <1>11, MarkInv
<1>12. ASSUME NEW k \in {"markRead", "delete"}, NEW s \in Stamp, InvokedPrior(k, s)
       PROVE  HubInv'
       BY <1>12, PriorInv
<1>13. CASE PriorTurn BY <1>13, PriorTurnInv
<1> QED BY <1>1, <1>2, <1>3, <1>4, <1>5, <1>6, <1>7, <1>8, <1>9, <1>10, <1>11, <1>12, <1>13,
           Zenon DEF HubNext

-----------------------------------------------------------------------------
(* The theorems.                                                           *)

\* HubInv is an invariant: in every state, running or not, the service's
\* table of items, or the one it will start with, fits the platform's.
THEOREM HubInvariant == HubSpec => []HubInv
<1> QED BY InitInv, StepInv, PTL DEF HubSpec

\* The state of the Hub integration has its types, for any number of contacts,
\* messages and ids.
THEOREM HubTypeCorrect == HubSpec => []HubTypeOK
<1>1. HubInv => HubTypeOK BY DEF HubInv
<1> QED BY <1>1, HubInvariant, PTL

\* HubCache mirrors the platform after any sequence of messages, calls that
\* fail, invocations and restarts, with the exceptions InStep names.
THEOREM CacheMirrors == HubSpec => []InStep
<1> QED BY InvInStep, HubInvariant, PTL

-----------------------------------------------------------------------------
(* resynchHub.                                                             *)

\* A conversation is cached with its last message.
Cached(c) ==
    preview[c] # NoPreview =>
        \E i \in 1..Len(items) : items[i].who = c /\ items[i].when = preview[c].when

\* A loop that has missed nothing has caught up with the contacts it is past.
CaughtUp ==
    work.kind = "resynch" /\ complete /\ ~shaky =>
        \A c \in Contact : (\E k \in 1..Len(work.todo) : work.todo[k] = c) \/ Cached(c)

\* A turn catches up with its contact and keeps what is cached of the others.
LEMMA TurnCatchesUp ==
    ASSUME HubInv, CaughtUp, ResynchTurn, complete', ~shaky', NEW d \in Contact
    PROVE  (\E k \in 1..Len(work'.todo) : work'.todo[k] = d) \/ Cached(d)'
<1> DEFINE c == Head(work.todo)
           e == preview[c]
           First(i) == \A j \in ItemsOf(c) : i <= j
           it == items[CHOOSE i \in ItemsOf(c) : First(i)]
<1>1. /\ running /\ work.kind = "resynch" /\ UNCHANGED preview
      BY DEF ResynchTurn, fileVars
<1>2. TablesTyped /\ FlagsTyped /\ StoreTyped /\ LoopsRight /\ Agreeing BY <1>1, Parts
<1>3. /\ c \in Contact /\ Rest(work).todo = Tail(work.todo)
      /\ Len(work.todo) \in Nat \ {0} /\ c = work.todo[1]
      /\ Len(Tail(work.todo)) = Len(work.todo) - 1
      /\ \A k \in 1..(Len(work.todo) - 1) : Tail(work.todo)[k] = work.todo[k + 1]
      <2>1. WorkOK(work) /\ work.kind # "none" BY <1>1, <1>2 DEF LoopsRight
      <2> QED BY <1>1, <2>1, TurnOK
<1>4. /\ work' = Rest(work)
      /\ \/ /\ e = NoPreview
            /\ UNCHANGED <<hub, cacheVars, nextItemId, shaky, missed, complete>>
         \/ /\ e # NoPreview /\ ItemsOf(c) # {} /\ it.when = e.when
            /\ UNCHANGED <<hub, cacheVars, nextItemId, shaky, missed, complete>>
         \/ /\ e # NoPreview /\ ItemsOf(c) # {}
            /\ UpdateHubItem(it.id, c, e.when, e.read)
            /\ complete' = (complete /\ items' # items)
         \/ /\ e # NoPreview /\ ItemsOf(c) = {}
            /\ AddHubItem(c, e.when, e.read)
            /\ complete' = (complete /\ items' # items)
      BY Zenon DEF ResynchTurn
<1>5. complete /\ ~shaky
      <2>1. complete BY <1>4, Zenon
      <2>2. shaky' = shaky \/ shaky' = (shaky \/ nextItemId # lastItemId + 1)
            BY <1>4, Zenon DEF UpdateHubItem, AddHubItem
      <2>3. ~shaky BY <2>2, Zenon
      <2> QED BY <2>1, <2>3
<1>6. OneEach(items, lastItemId) BY <1>2, <1>5 DEF Agreeing, Fits
<1>7. d = c \/ (\E k \in 1..Len(work'.todo) : work'.todo[k] = d) \/ Cached(d)
      <2>1. CASE \E k \in 1..Len(work.todo) : work.todo[k] = d
            <3>1. PICK k \in 1..Len(work.todo) : work.todo[k] = d BY <2>1
            <3>2. CASE k = 1 BY <1>3, <3>1, <3>2
            <3>3. CASE k # 1
                  <4>1. k - 1 \in 1..(Len(work.todo) - 1) /\ (k - 1) + 1 = k BY <1>3, <3>3
                  <4>2. Tail(work.todo)[k - 1] = d BY <1>3, <3>1, <4>1
                  <4>3. work'.todo = Tail(work.todo) BY <1>3, <1>4
                  <4>4. Len(work'.todo) = Len(work.todo) - 1 BY <1>3, <4>3
                  <4> QED BY <4>1, <4>2, <4>3, <4>4
            <3> QED BY <3>2, <3>3
      <2>2. CASE Cached(d) BY <2>2
      <2> QED BY <1>1, <1>5, <2>1, <2>2 DEF CaughtUp
<1>8. Len(items) \in Nat /\ DOMAIN items = 1..Len(items)
      BY <1>2, LenProperties DEF TablesTyped
<1>9. CASE e = NoPreview /\ UNCHANGED cacheVars
      <2>1. items' = items BY <1>9 DEF cacheVars
      <2>2. Cached(c) BY <1>9 DEF Cached
      <2> QED BY <1>1, <1>7, <2>1, <2>2 DEF Cached
<1>10. ASSUME ItemsOf(c) # {}
       PROVE  \E k \in 1..Len(items) : it = items[k] /\ items[k].who = c
       <2>1. ItemsOf(c) \subseteq Nat BY <1>8 DEF ItemsOf
       <2>2. \E i \in ItemsOf(c) : First(i) BY <1>10, <2>1, LeastNatural
       <2>3. (CHOOSE i \in ItemsOf(c) : First(i)) \in ItemsOf(c)
             <3> HIDE DEF First
             <3> QED BY <2>2
       <2> HIDE DEF First, c
       <2> QED BY <1>8, <2>3 DEF ItemsOf
<1>11. CASE ItemsOf(c) # {} /\ it.when = e.when /\ UNCHANGED cacheVars
       <2>1. items' = items BY <1>11 DEF cacheVars
       <2>2. Cached(c) BY <1>10, <1>11 DEF Cached
       <2> QED BY <1>1, <1>7, <2>1, <2>2 DEF Cached
<1>12. CASE /\ ItemsOf(c) # {} /\ UpdateHubItem(it.id, c, e.when, e.read) /\ items' # items
       <2>1. PICK k \in 1..Len(items) : it = items[k] /\ items[k].who = c BY <1>10, <1>12
       <2>2. items \in Seq(Item) BY <1>2 DEF TablesTyped
       <2>3. Place(items[k].id) = k
             <3> DEFINE p == Place(items[k].id)
             <3>1. \/ p = 0 /\ \A i \in 1..Len(items) : items[i].id # items[k].id
                   \/ p \in 1..Len(items) /\ items[p].id = items[k].id
                   BY <2>2, PlaceFacts
             <3> HIDE DEF p
             <3>2. p = k BY <1>6, <3>1 DEF OneEach
             <3> QED BY <3>2 DEF p
       <2>4. k # 0 BY <1>8
       <2> DEFINE v == [id |-> items[k].id, who |-> c, when |-> e.when]
       <2>5. items' = [items EXCEPT ![k] = v]
             BY <1>12, <2>1, <2>3, <2>4 DEF UpdateHubItem
       <2>6. v.who = c /\ v.when = e.when OBVIOUS
       <2> HIDE DEF v
       <2>7. Len(items') = Len(items) /\ items'[k] = v
             /\ \A i \in 1..Len(items) : i # k => items'[i] = items[i]
             BY <2>2, <2>5, ExceptSeq
       <2>8. CASE d = c
             <3>1. k \in 1..Len(items') /\ items'[k].who = c /\ items'[k].when = preview'[c].when
                   BY <1>1, <2>6, <2>7
             <3> HIDE DEF c
             <3> QED BY <2>8, <3>1 DEF Cached
       <2>9. CASE d # c /\ Cached(d)
             <3> HIDE DEF c
             <3>1. SUFFICES ASSUME preview[d] # NoPreview PROVE Cached(d)'
                   BY <1>1 DEF Cached
             <3>2. PICK i \in 1..Len(items) : items[i].who = d /\ items[i].when = preview[d].when
                   BY <2>9, <3>1 DEF Cached
             <3>3. items'[i] = items[i] BY <2>1, <2>7, <2>9, <3>2
             <3> QED BY <1>1, <2>7, <3>2, <3>3 DEF Cached
       <2> HIDE DEF c
       <2> QED BY <1>7, <2>8, <2>9
<1>13. CASE AddHubItem(c, e.when, e.read) /\ items' # items
       <2> DEFINE v == [id |-> nextItemId, who |-> c, when |-> e.when]
       <2>1. items' = Append(items, v) BY <1>13 DEF AddHubItem, cacheVars
       <2>2. items \in Seq(Item) BY <1>2 DEF TablesTyped
       <2>3. v.who = c /\ v.when = e.when OBVIOUS
       <2> HIDE DEF v
       <2>4. /\ Len(items') = Len(items) + 1 /\ items'[Len(items) + 1] = v
             /\ \A i \in 1..Len(items) : items'[i] = items[i]
             BY <2>1, <2>2, AppendProperties
       <2>5. CASE d = c
             <3>1. /\ Len(items) + 1 \in 1..Len(items')
                   /\ items'[Len(items) + 1].who = c
                   /\ items'[Len(items) + 1].when = preview'[c].when
                   BY <1>1, <1>8, <2>3, <2>4
             <3> HIDE DEF c
             <3> QED BY <2>5, <3>1 DEF Cached
       <2>6. CASE d # c /\ Cached(d)
             <3> HIDE DEF c
             <3>1. SUFFICES ASSUME preview[d] # NoPreview PROVE Cached(d)'
                   BY <1>1 DEF Cached
             <3>2. PICK i \in 1..Len(items) : items[i].who = d /\ items[i].when = preview[d].when
                   BY <2>6, <3>1 DEF Cached
             <3>3. items'[i] = items[i] /\ i \in 1..Len(items') BY <1>8, <2>4, <3>2
             <3> QED BY <1>1, <3>2, <3>3 DEF Cached
       <2> HIDE DEF c
       <2> QED BY <1>7, <2>5, <2>6
<1> HIDE DEF c, e, it
<1> QED BY <1>4, <1>9, <1>11, <1>12, <1>13, Zenon

\* Only a turn goes on with the loop, and only resynchHub begins it.
LEMMA CaughtUpStays == HubInv /\ CaughtUp /\ [HubNext]_hubVars => CaughtUp'
<1> SUFFICES ASSUME HubInv, CaughtUp, [HubNext]_hubVars, work'.kind = "resynch",
                    complete', ~shaky', NEW d \in Contact
             PROVE  (\E k \in 1..Len(work'.todo) : work'.todo[k] = d) \/ Cached(d)'
    BY DEF CaughtUp, Cached
<1>1. work.kind # "none" => running BY DEF HubInv
<1>2. CASE UNCHANGED hubVars
      <2>1. UNCHANGED <<preview, items, work, shaky, complete>>
            BY <1>2 DEF hubVars, fileVars, cacheVars
      <2> QED BY <2>1 DEF CaughtUp, Cached
<1>3. CASE ResynchTurn BY <1>3, TurnCatchesUp
<1>4. ASSUME Resynch PROVE \E k \in 1..Len(work'.todo) : work'.todo[k] = d
      <2>1. work'.todo = [c \in Contact |-> c] BY <1>4 DEF Resynch, Loop
      <2>2. Contacts \in Nat BY HubBoundsAssumption
      <2>3. [c \in 1..Contacts |-> c] \in [1..Contacts -> Contact] BY DEF Contact
      <2>4. Len([c \in 1..Contacts |-> c]) = Contacts
            BY <2>2
      <2> QED BY <2>1, <2>2, <2>4 DEF Contact
<1>5. ASSUME NEW kind \in WorkKind \ {"resynch"}, NEW todo, NEW stamp, work' = Loop(kind, todo, stamp)
      PROVE  FALSE
      BY <1>5 DEF Loop
<1>6. ASSUME work' = Rest(work), work.kind # "resynch" PROVE FALSE
      BY <1>6 DEF Rest, Loop
<1>7. work' = work => work.kind = "resynch" /\ running BY <1>1
<1>8. ASSUME NEW reload \in BOOLEAN, NEW granted \in BOOLEAN, HubStart(reload, granted)
      PROVE  FALSE
      <2>1. ~running BY <1>8 DEF HubStart
      <2>2. work' # work BY <1>7, <2>1
      <2>3. work' = Loop("repopulate", disk.items, 0) BY <1>8, <2>2 DEF HubStart
      <2> QED BY <2>3, <1>5 DEF WorkKind
<1>9. CASE HubStop
      <2>1. work' = Loop("none", <<>>, 0) BY <1>9 DEF HubStop, NoWork
      <2> QED BY <2>1, <1>5 DEF WorkKind
<1>10. ASSUME Free, work' = work PROVE FALSE BY <1>10 DEF Free
<1>11. CASE SettingsSync BY <1>11, <1>10 DEF SettingsSync
<1>12. ASSUME NEW c \in Contact, VCardStored(c) PROVE FALSE
       BY <1>12, <1>10 DEF VCardStored
<1>13. ASSUME NEW c \in Contact, NEW n \in BOOLEAN, MessageLogged(c, n)
       PROVE \E k \in 1..Len(work'.todo) : work'.todo[k] = d
       BY <1>13, <1>4, <1>10 DEF MessageLogged
<1>14. CASE UiUpdateHub BY <1>14, <1>4 DEF UiUpdateHub
<1>15. CASE RepopulateTurn BY <1>15, <1>6 DEF RepopulateTurn
<1>16. ASSUME NEW id \in Id, InvokedDelete(id) PROVE FALSE
       BY <1>16, <1>10 DEF InvokedDelete
<1>17. ASSUME NEW id \in Id, NEW r \in BOOLEAN, InvokedMark(id, r) PROVE FALSE
       BY <1>17, <1>10 DEF InvokedMark
<1>18. ASSUME NEW k \in {"markRead", "delete"}, NEW s \in Stamp, InvokedPrior(k, s)
       PROVE  FALSE
       BY <1>18, <1>5 DEF InvokedPrior, WorkKind
<1>19. CASE PriorTurn BY <1>19, <1>6 DEF PriorTurn
<1> QED BY <1>2, <1>3, <1>8, <1>9, <1>11, <1>12, <1>13, <1>14, <1>15, <1>16, <1>17, <1>18,
           <1>19, Zenon DEF HubNext

\* The step that ends a resynchHub is its last turn, which catches up with
\* what is left.
LEMMA ResynchEnds ==
    HubInv /\ CaughtUp /\ [HubNext]_hubVars =>
      (work.kind = "resynch" /\ work'.kind = "none" /\ running' /\ complete' /\ ~shaky' =>
         \A c \in Contact : preview[c] # NoPreview =>
            \E i \in DOMAIN items' : items'[i].who = c /\ items'[i].when = preview[c].when)
<1> SUFFICES ASSUME HubInv, CaughtUp, [HubNext]_hubVars, work.kind = "resynch",
                    work'.kind = "none", running', complete', ~shaky',
                    NEW c \in Contact, preview[c] # NoPreview
             PROVE  \E i \in DOMAIN items' :
                       items'[i].who = c /\ items'[i].when = preview[c].when
    OBVIOUS
<1>1. running BY DEF HubInv
<1>2. ResynchTurn
      <2>1. ~Free /\ work' # work BY DEF Free
      <2>2. ~UNCHANGED hubVars BY <2>1 DEF hubVars
      <2>3. ~HubStop BY DEF HubStop
      <2>4. \A reload, granted : ~HubStart(reload, granted) BY <1>1 DEF HubStart
      <2>5. ~SettingsSync /\ ~UiUpdateHub BY <2>1 DEF SettingsSync, UiUpdateHub
      <2>6. \A d, n : ~VCardStored(d) /\ ~MessageLogged(d, n)
            BY <2>1 DEF VCardStored, MessageLogged
      <2>7. ~RepopulateTurn /\ ~PriorTurn BY DEF RepopulateTurn, PriorTurn
      <2>8. \A id, r : ~InvokedDelete(id) /\ ~InvokedMark(id, r)
            BY <2>1 DEF InvokedDelete, InvokedMark
      <2>9. \A k, s : ~InvokedPrior(k, s) BY <2>1 DEF InvokedPrior
      <2> QED BY <2>2, <2>3, <2>4, <2>5, <2>6, <2>7, <2>8, <2>9, Zenon DEF HubNext
<1>3. preview' = preview BY <1>2 DEF ResynchTurn, fileVars
<1>4. HubInv' BY StepInv
<1>5. work'.todo = <<>> /\ items' \in Seq(Item) BY <1>4 DEF HubInv, HubTypeOK
<1>6. Len(work'.todo) = 0 BY <1>5
<1>7. ~\E k \in 1..Len(work'.todo) : work'.todo[k] = c BY <1>6
<1>8. Cached(c)' BY <1>2, <1>7, TurnCatchesUp
<1>9. DOMAIN items' = 1..Len(items') BY <1>5, LenProperties
<1> QED BY <1>3, <1>8, <1>9 DEF Cached

\* After a resynchHub in which nothing failed every conversation is cached
\* with its last message, for any number of contacts and messages.
THEOREM ResynchCatchesUp == HubSpec => Resynched
<1>1. HubInit => CaughtUp BY DEF HubInit, CaughtUp, NoWork, Loop
<1> QED BY <1>1, InitInv, StepInv, CaughtUpStays, ResynchEnds, PTL DEF HubSpec, Resynched
=============================================================================
