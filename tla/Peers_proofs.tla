---------------------------- MODULE Peers_proofs ----------------------------
(***************************************************************************)
(* Proofs about calls and file transfers: that the two parties of a call   *)
(* end together (Call, for every number of lost connections), that the     *)
(* pairs of candidates that are used work (Ice, for every set of           *)
(* components and every number of pairs), that the relay's channels are    *)
(* backed (Turn, for every set of remote addresses, every number of        *)
(* channels and every limit on the retries), and that the two ends of a    *)
(* transfer agree on its outcome (Transfer, for every size of the file and *)
(* every number of hosts).                                                 *)
(***************************************************************************)
EXTENDS Call, Ice, Turn, Transfer, Integers, SequenceTheorems, TLAPS


-----------------------------------------------------------------------------
(* Call.  A queue matters only for which stanzas it carries, how often, and *)
(* whether a stanza that ends the call comes after the last that begins it. *)
Stanza == {"initiate", "accept", "terminate", "ack", "content-add",
           "content-accept", "content-reject", "unavailable"}
\* The stanzas after which a party no longer talks.
Enders == {"terminate", "unavailable", "ack"}
Over == {"disconnecting", "finished"}

Carries(s, x) == \E i \in 1..Len(s) : s[i] = x
Harmless(s) == \A i \in 1..Len(s) : s[i] \notin Enders
\* The last stanza of this kind is followed by none that ends the call.
Standing(s, x) == \E i \in 1..Len(s) :
    s[i] = x /\ \A j \in 1..Len(s) : j > i => s[j] \notin Enders
AtMostOnce(s, x) == \A i, j \in 1..Len(s) : s[i] = x /\ s[j] = x => i = j
AtMostTwice(s, x) == \A i, j, k \in 1..Len(s) :
    s[i] = x /\ s[j] = x /\ s[k] = x => i = j \/ i = k \/ j = k

\* There are at most n, for n up to two.
Few(s, x, n) == /\ n = 0 => ~Carries(s, x)
                /\ n = 1 => AtMostOnce(s, x)
                /\ n = 2 => AtMostTwice(s, x)

\* What a queue says of its stanzas after one was taken, put or all were lost.
Removes(s, t, h) ==
    /\ t \in Seq(Stanza)
    /\ h \in Stanza /\ Carries(s, h)
    /\ \A x : Carries(t, x) => Carries(s, x)
    /\ \A x : Carries(s, x) => x = h \/ Carries(t, x)
    /\ \A x : Standing(t, x) => Standing(s, x)
    /\ Harmless(t) => Standing(s, h)
    /\ Harmless(t) /\ h \notin Enders => Harmless(s)
    /\ \A x : AtMostOnce(s, x) => AtMostOnce(t, x)
    /\ AtMostOnce(s, h) => ~Carries(t, h)
    /\ \A x : \A n \in 0..2 : Few(s, x, n) => Few(t, x, n)
    /\ \A n \in 0..2 : Few(s, h, n) => n > 0 /\ Few(t, h, n - 1)

Delivers(s, t, e) ==
    /\ t \in Seq(Stanza)
    /\ \A x : Carries(t, x) <=> Carries(s, x) \/ x = e
    /\ Harmless(t) <=> Harmless(s) /\ e \notin Enders
    /\ \A x : Standing(t, x) <=> x = e \/ (Standing(s, x) /\ e \notin Enders)
    /\ \A x : AtMostOnce(s, x) /\ (x # e \/ ~Carries(s, x)) => AtMostOnce(t, x)
    /\ \A x : \A n \in 0..2 : x # e /\ Few(s, x, n) => Few(t, x, n)
    /\ \A n \in 0..1 : Few(s, e, n) => Few(t, e, n + 1)

\* The queue of a party that has just lost its connection.
LEMMA EmptyQueue ==
  ASSUME NEW x
  PROVE  /\ <<>> \in Seq(Stanza) /\ Len(<<>>) = 0 /\ ~Carries(<<>>, x) /\ Harmless(<<>>)
         /\ ~Standing(<<>>, x) /\ AtMostOnce(<<>>, x) /\ \A n : Few(<<>>, x, n)
BY DEF Carries, Harmless, Standing, AtMostOnce, AtMostTwice, Few

\* What taking the first stanza leaves of a queue.
LEMMA TakenQueue ==
  ASSUME NEW s \in Seq(Stanza), s # <<>>
  PROVE  Removes(s, Tail(s), Head(s))
<1> DEFINE t == Tail(s)
<1>1. /\ t \in Seq(Stanza) /\ Head(s) \in Stanza /\ Head(s) = s[1]
      /\ Len(s) \in Nat /\ Len(s) >= 1 /\ Len(t) = Len(s) - 1
  OBVIOUS
<1>2. \A i \in 1..Len(t) : t[i] = s[i + 1] /\ i + 1 \in 1..Len(s)
  BY <1>1
<1>3. \A j \in 1..Len(s) : j = 1 \/ (j - 1 \in 1..Len(t) /\ t[j - 1] = s[j])
  BY <1>1, <1>2
<1>4. 1 \in 1..Len(s)
  BY <1>1
<1> HIDE DEF t
<1>5. \A x : Carries(t, x) => Carries(s, x)
  BY <1>2 DEF Carries
<1>6. \A x : Carries(s, x) => x = Head(s) \/ Carries(t, x)
  BY <1>1, <1>3 DEF Carries
<1>7. \A x : Standing(t, x) => Standing(s, x)
  <2> SUFFICES ASSUME NEW x, NEW i \in 1..Len(t), t[i] = x,
                      \A j \in 1..Len(t) : j > i => t[j] \notin Enders
               PROVE  Standing(s, x)
    BY DEF Standing
  <2>1. i + 1 \in 1..Len(s) /\ s[i + 1] = x
    BY <1>2
  <2>2. ASSUME NEW j \in 1..Len(s), j > i + 1 PROVE s[j] \notin Enders
    <3>1. j - 1 \in 1..Len(t) /\ t[j - 1] = s[j] /\ j - 1 > i
      BY <1>3, <2>2
    <3> QED  BY <3>1
  <2> QED  BY <2>1, <2>2 DEF Standing
<1>8. Harmless(t) => Standing(s, Head(s))
  <2> SUFFICES ASSUME Harmless(t) PROVE Standing(s, Head(s))
    OBVIOUS
  <2>1. \A j \in 1..Len(s) : j > 1 => s[j] \notin Enders
    BY <1>1, <1>3 DEF Harmless
  <2> QED  BY <1>1, <1>4, <2>1 DEF Standing
<1>9. Harmless(t) /\ Head(s) \notin Enders => Harmless(s)
  BY <1>1, <1>3 DEF Harmless
<1>10. \A x : AtMostOnce(s, x) => AtMostOnce(t, x)
  BY <1>1, <1>2 DEF AtMostOnce
<1>11. AtMostOnce(s, Head(s)) => ~Carries(t, Head(s))
  <2> SUFFICES ASSUME AtMostOnce(s, Head(s)), NEW i \in 1..Len(t), t[i] = Head(s)
               PROVE  FALSE
    BY DEF Carries
  <2> QED  BY <1>1, <1>2, <1>4 DEF AtMostOnce
<1>12. \A x : AtMostTwice(s, x) => AtMostTwice(t, x)
  <2> SUFFICES ASSUME NEW x, AtMostTwice(s, x), NEW i \in 1..Len(t), NEW j \in 1..Len(t),
                      NEW k \in 1..Len(t), t[i] = x, t[j] = x, t[k] = x
               PROVE  i = j \/ i = k \/ j = k
    BY DEF AtMostTwice
  <2>1. /\ i + 1 \in 1..Len(s) /\ s[i + 1] = x /\ j + 1 \in 1..Len(s) /\ s[j + 1] = x
        /\ k + 1 \in 1..Len(s) /\ s[k + 1] = x
    BY <1>2
  <2>2. i + 1 = j + 1 \/ i + 1 = k + 1 \/ j + 1 = k + 1
    BY <2>1 DEF AtMostTwice
  <2> QED  BY <2>2
<1>13. AtMostTwice(s, Head(s)) => AtMostOnce(t, Head(s))
  <2> SUFFICES ASSUME AtMostTwice(s, Head(s)), NEW i \in 1..Len(t), NEW j \in 1..Len(t),
                      t[i] = Head(s), t[j] = Head(s)
               PROVE  i = j
    BY DEF AtMostOnce
  <2>1. /\ i + 1 \in 1..Len(s) /\ s[i + 1] = s[1] /\ j + 1 \in 1..Len(s) /\ s[j + 1] = s[1]
    BY <1>1, <1>2
  <2>2. 1 = i + 1 \/ 1 = j + 1 \/ i + 1 = j + 1
    BY <1>1, <1>4, <2>1 DEF AtMostTwice
  <2> QED  BY <2>2
<1>14. \A x : \A n \in 0..2 : Few(s, x, n) => Few(t, x, n)
  BY <1>5, <1>10, <1>12 DEF Few
<1>15. Carries(s, Head(s))
  BY <1>1, <1>4 DEF Carries
<1>16. \A n \in 0..2 : Few(s, Head(s), n) => n > 0 /\ Few(t, Head(s), n - 1)
  <2> SUFFICES ASSUME NEW n \in 0..2, Few(s, Head(s), n)
               PROVE  n > 0 /\ Few(t, Head(s), n - 1)
    OBVIOUS
  <2>1. n # 0
    BY <1>15 DEF Few
  <2>2. CASE n = 1
    BY <1>11, <2>2 DEF Few
  <2>3. CASE n = 2
    BY <1>13, <2>3 DEF Few
  <2> QED  BY <2>1, <2>2, <2>3
<1> QED
  BY <1>1, <1>5, <1>6, <1>7, <1>8, <1>9, <1>10, <1>11, <1>14, <1>15, <1>16 DEF t, Removes

\* What a stanza sent adds to a queue.
LEMMA SentQueue ==
  ASSUME NEW s \in Seq(Stanza), NEW e \in Stanza
  PROVE  s \o <<>> = s /\ Append(s, e) = s \o <<e>> /\ Delivers(s, s \o <<e>>, e)
<1> DEFINE t == s \o <<e>>
           l == Len(s)
<1>1. l \in Nat /\ Len(t) = l + 1 /\ t \in Seq(Stanza) /\ Append(s, e) = t
  OBVIOUS
<1>2. \A i \in 1..l : t[i] = s[i] /\ i \in 1..Len(t)
  BY <1>1
<1>3. t[l + 1] = e /\ l + 1 \in 1..Len(t)
  BY <1>1
<1>4. \A i \in 1..Len(t) : i = l + 1 \/ i \in 1..l
  BY <1>1
<1>5. 1..l = 1..Len(s)
  OBVIOUS
<1>20. s \o <<>> = s
  OBVIOUS
<1> HIDE DEF t, l
<1>6. \A x : Carries(t, x) <=> Carries(s, x) \/ x = e
  BY <1>2, <1>3, <1>4, <1>5 DEF Carries
<1>7. Harmless(t) <=> Harmless(s) /\ e \notin Enders
  BY <1>2, <1>3, <1>4, <1>5 DEF Harmless
<1>8. \A x : Standing(t, x) <=> x = e \/ (Standing(s, x) /\ e \notin Enders)
  <2> SUFFICES ASSUME NEW x PROVE Standing(t, x) <=> x = e \/ (Standing(s, x) /\ e \notin Enders)
    OBVIOUS
  <2>1. CASE x = e
    <3>1. \A j \in 1..Len(t) : ~(j > l + 1)
      BY <1>1
    <3> QED  BY <2>1, <3>1, <1>3 DEF Standing
  <2>2. CASE x # e
    <3>1. ASSUME Standing(t, x) PROVE Standing(s, x) /\ e \notin Enders
      <4>1. PICK i \in 1..Len(t) : t[i] = x /\ \A j \in 1..Len(t) : j > i => t[j] \notin Enders
        BY <3>1 DEF Standing
      <4>2. i \in 1..l
        BY <4>1, <1>3, <1>4, <2>2
      <4>3. e \notin Enders
        BY <4>1, <4>2, <1>1, <1>3
      <4>4. s[i] = x /\ \A j \in 1..l : j > i => s[j] \notin Enders
        BY <4>1, <4>2, <1>2
      <4> QED  BY <4>2, <4>3, <4>4, <1>5 DEF Standing
    <3>2. ASSUME Standing(s, x), e \notin Enders PROVE Standing(t, x)
      <4>1. PICK i \in 1..l : s[i] = x /\ \A j \in 1..l : j > i => s[j] \notin Enders
        BY <3>2, <1>5 DEF Standing
      <4>2. \A j \in 1..Len(t) : j > i => t[j] \notin Enders
        BY <4>1, <3>2, <1>2, <1>3, <1>4
      <4> QED  BY <4>1, <4>2, <1>2 DEF Standing
    <3> QED  BY <3>1, <3>2, <2>2
  <2> QED  BY <2>1, <2>2
<1>9. \A x : AtMostOnce(s, x) /\ (x # e \/ ~Carries(s, x)) => AtMostOnce(t, x)
  BY <1>2, <1>3, <1>4, <1>5 DEF AtMostOnce, Carries
<1>10. \A x : x # e /\ AtMostTwice(s, x) => AtMostTwice(t, x)
  BY <1>2, <1>3, <1>4, <1>5 DEF AtMostTwice
<1>11. AtMostOnce(s, e) => AtMostTwice(t, e)
  BY <1>2, <1>3, <1>4, <1>5 DEF AtMostTwice, AtMostOnce
<1>12. \A x : \A n \in 0..2 : x # e /\ Few(s, x, n) => Few(t, x, n)
  BY <1>6, <1>9, <1>10 DEF Few
<1>13. \A n \in 0..1 : Few(s, e, n) => Few(t, e, n + 1)
  <2> SUFFICES ASSUME NEW n \in 0..1, Few(s, e, n) PROVE Few(t, e, n + 1)
    OBVIOUS
  <2>1. CASE n = 0
    <3>1. AtMostOnce(s, e)
      BY <2>1 DEF Few, AtMostOnce, Carries
    <3> QED  BY <1>9, <2>1, <3>1 DEF Few
  <2>2. CASE n = 1
    BY <1>11, <2>2 DEF Few
  <2> QED  BY <2>1, <2>2
<1> QED
  BY <1>1, <1>6, <1>7, <1>8, <1>9, <1>12, <1>13, <1>20 DEF t, Delivers

\* The facts about queues that every step needs.
LEMMA QueueFacts ==
  /\ \A s, x : Standing(s, x) => Carries(s, x)
  /\ \A x : ~Carries(<<>>, x) /\ AtMostOnce(<<>>, x) /\ \A n : Few(<<>>, x, n)
  /\ Harmless(<<>>)
BY EmptyQueue DEF Standing, Carries

-----------------------------------------------------------------------------
Caller == callState["caller"]
Callee == callState["callee"]
ToCaller == inbox["caller"]
ToCallee == inbox["callee"]

\* The callee will not talk any more, or never will.
Done == \/ Callee \in Over
        \/ Callee = "unknown" /\ Caller # "unknown" /\ ~Carries(ToCallee, "initiate")
\* The callee will talk, or goes on talking, once it has read its queue.
Prospect == \/ Callee \in {"connecting", "active"} /\ Harmless(ToCallee)
            \/ Standing(ToCallee, "initiate")
\* The caller talks, or will, once it has read its queue.
Talking == \/ Caller = "active" /\ Harmless(ToCaller)
           \/ Standing(ToCaller, "accept")

Types ==
    /\ callState \in [Party ->
          {"unknown", "connecting", "active", "disconnecting", "finished"}]
    /\ unacked \in [Party -> 0..2] /\ forced \in [Party -> 0..2]
    /\ voice \in [Party -> BOOLEAN]
    /\ webcam \in [Party -> {"none", "offered", "described"}]
    /\ online \in [Party -> BOOLEAN]
    /\ inbox \in [Party -> Seq(Stanza)]

\* A party that disconnects has its end forced within 5 s.
Limits == /\ drops \in 0..MaxDrops
          /\ \A p \in Party : callState[p] = "disconnecting" => forced[p] > 0
\* A party that is off line has no stanzas, and has left the call.
Off == /\ ~online["caller"] /\ Caller = "connecting" =>
             Callee = "unknown" /\ ~Carries(ToCallee, "initiate")
       /\ ~online["caller"] => ToCaller = <<>> /\ Caller # "active" /\ ~Prospect
       /\ ~online["callee"] => ToCallee = <<>> /\ ~Live("callee")
\* Nothing happens before the invitation.
Fresh == Caller = "unknown" =>
            /\ Callee = "unknown" /\ forced["caller"] = 0 /\ unacked["caller"] = 0
            /\ \A x \in {"accept", "terminate", "ack"} :
                  ~Carries(ToCaller, x) /\ ~Carries(ToCallee, x)
            /\ ~Carries(ToCallee, "initiate")
\* The invitation goes to the callee and is sent once, its acceptance to the
\* caller.
Route == /\ ~Carries(ToCaller, "initiate") /\ ~Carries(ToCallee, "accept")
         /\ AtMostOnce(ToCallee, "initiate")
         /\ Carries(ToCallee, "initiate") => Callee = "unknown"
\* What ends a call leaves the other party no prospect of talking.
Final == /\ Carries(ToCaller, "terminate") \/ Carries(ToCaller, "ack")
               \/ Carries(ToCallee, "ack") => Done
         /\ forced["callee"] > 0 => Callee \in Over
         /\ forced["caller"] > 0 \/ Caller \in Over => ~Prospect
\* The two parties begin to talk together.
Accepted ==
    /\ Caller = "connecting" /\ Callee = "active" => Carries(ToCaller, "accept")
    /\ Callee \in {"unknown", "connecting"} =>
          Caller # "active" /\ ~Carries(ToCaller, "accept")
    /\ Callee \in Over => ~Talking
\* Descriptions of media: the other party has it or the answer is on its way.
Media ==
    /\ Callee \in {"connecting", "active"} => voice["callee"]
    /\ Caller = "active" => voice["caller"]
    /\ Callee \in {"unknown", "connecting"} => \A p \in Party :
          webcam[p] = "none" /\ ~Carries(inbox[p], "content-add")
    /\ \A p \in Party :
         /\ Carries(inbox[p], "content-accept") => webcam[Peer(p)] = "described"
         /\ Callee = "active" /\ Harmless(ToCallee)
               /\ webcam[Peer(p)] = "described" /\ webcam[p] # "described"
            => Carries(inbox[p], "content-accept")
\* The call ends at most twice at the caller, at most once at the callee.
Counts ==
    /\ AtMostOnce(ToCaller, "accept")
    /\ Caller = "connecting" => forced["caller"] = 0 /\ unacked["caller"] = 0
    /\ Callee \notin Over => forced["callee"] = 0 /\ unacked["callee"] = 0
    /\ Caller = "active" => ~Carries(ToCaller, "accept")
    /\ Caller = "active" \/ Carries(ToCaller, "accept")
          \/ Callee \in {"unknown", "connecting"} =>
              unacked["caller"] <= 1 /\ forced["caller"] <= 1
    /\ unacked["callee"] <= 1 /\ forced["callee"] <= 1
\* Every acknowledgement that is to come is of a session-terminate.
Claims == \A p \in Party : callState[p] # "unknown" =>
    \E m, n \in 0..2 : /\ m + n <= unacked[p]
                       /\ Few(inbox[p], "ack", m) /\ Few(inbox[Peer(p)], "terminate", n)

\* The inductive invariant.
CallInv == Types /\ Limits /\ Off /\ Fresh /\ Route /\ Final /\ Accepted /\ Media
           /\ Counts /\ Claims

-----------------------------------------------------------------------------
\* The effects on the queues of what a party sends.
Delivered(p, e) ==
    /\ inbox' \in [Party -> Seq(Stanza)]
    /\ IF online[Peer(p)] THEN Delivers(inbox[Peer(p)], inbox'[Peer(p)], e)
                          ELSE inbox'[Peer(p)] = inbox[Peer(p)]
SaysNothing(p) ==
    /\ inbox' \in [Party -> Seq(Stanza)]
    /\ inbox'[Peer(p)] = inbox[Peer(p)]
TookStanza(p) == Removes(inbox[p], inbox'[p], Head(inbox[p]))

\* A stanza handled is taken from its queue, and the answer put in the other.
LEMMA AnswerEffect ==
  ASSUME Types, NEW p \in Party, inbox[p] # <<>>, NEW e \in Stanza
  PROVE  /\ Answer(p, <<e>>) => TookStanza(p) /\ Delivered(p, e)
         /\ Answer(p, <<>>) => TookStanza(p) /\ SaysNothing(p)
<1> DEFINE q == Peer(p)
<1>1. q \in Party /\ q # p
  BY DEF Peer, Party
<1>2. inbox \in [Party -> Seq(Stanza)] /\ inbox[p] \in Seq(Stanza) /\ inbox[q] \in Seq(Stanza)
  BY <1>1 DEF Types
<1>3. /\ Removes(inbox[p], Tail(inbox[p]), Head(inbox[p])) /\ Tail(inbox[p]) \in Seq(Stanza)
      /\ Delivers(inbox[q], inbox[q] \o <<e>>, e) /\ inbox[q] \o <<e>> \in Seq(Stanza)
      /\ inbox[q] \o <<>> = inbox[q]
  BY <1>2, TakenQueue, SentQueue DEF Removes, Delivers
<1> HIDE DEF q
<1> QED  BY <1>1, <1>2, <1>3 DEF Answer, TookStanza, Delivered, SaysNothing, q

\* A stanza sent is put in the queue of the other party if both are on line.
LEMMA PostEffect ==
  ASSUME Types, NEW p \in Party, NEW e \in Stanza, Post(p, <<e>>)
  PROVE  /\ inbox' \in [Party -> Seq(Stanza)] /\ inbox'[p] = inbox[p]
         /\ IF online[p] /\ online[Peer(p)] THEN Delivers(inbox[Peer(p)], inbox'[Peer(p)], e)
                                           ELSE inbox'[Peer(p)] = inbox[Peer(p)]
<1> DEFINE q == Peer(p)
<1>1. q \in Party /\ q # p
  BY DEF Peer, Party
<1>2. inbox \in [Party -> Seq(Stanza)] /\ inbox[q] \in Seq(Stanza)
  BY <1>1 DEF Types
<1>3. Delivers(inbox[q], inbox[q] \o <<e>>, e) /\ inbox[q] \o <<e>> \in Seq(Stanza)
  BY <1>2, SentQueue DEF Delivers
<1> HIDE DEF q
<1> QED  BY <1>1, <1>2, <1>3 DEF Post, q

\* A lost connection empties a queue and tells the other party.
LEMMA DropEffect ==
  ASSUME Types, NEW p \in Party, DropLine(p)
  PROVE  /\ inbox' \in [Party -> Seq(Stanza)] /\ inbox'[p] = <<>>
         /\ IF online[Peer(p)] THEN Delivers(inbox[Peer(p)], inbox'[Peer(p)], "unavailable")
                               ELSE inbox'[Peer(p)] = inbox[Peer(p)]
<1> DEFINE q == Peer(p)
<1>1. q \in Party /\ q # p
  BY DEF Peer, Party
<1>2. inbox \in [Party -> Seq(Stanza)] /\ inbox[q] \in Seq(Stanza) /\ "unavailable" \in Stanza
  BY <1>1 DEF Types, Stanza
<1>3. /\ Delivers(inbox[q], inbox[q] \o <<"unavailable">>, "unavailable")
      /\ inbox[q] \o <<"unavailable">> \in Seq(Stanza)
      /\ Append(inbox[q], "unavailable") = inbox[q] \o <<"unavailable">>
  BY <1>2, SentQueue DEF Delivers
<1>4. <<>> \in Seq(Stanza)
  BY EmptyQueue
<1> HIDE DEF q
<1> QED  BY <1>1, <1>2, <1>3, <1>4 DEF DropLine, q

\* The other party has ended the call.
LEMMA TerminateHandled ==
  ASSUME CallInv, NEW p \in Party, online[p], inbox[p] # <<>>,
         HandleTerminate(p), Lines
  PROVE  CallInv'
<1> USE DEF CallInv, Types, Lines, Steady, Streams, Peer, Party, Live, Caller, Callee,
            ToCaller, ToCallee, Over, Enders, Done, Prospect, Talking
<1>0. /\ \A s, x : Standing(s, x) => Carries(s, x)
      /\ \A x : ~Carries(<<>>, x) /\ AtMostOnce(<<>>, x) /\ \A n : Few(<<>>, x, n)
      /\ Harmless(<<>>)
  BY QueueFacts
<1>1. /\ TookStanza(p) /\ Delivered(p, "ack") /\ Head(inbox[p]) = "terminate"
      /\ callState[p] # "unknown" /\ callState' = [callState EXCEPT ![p] = "finished"]
      /\ online[p] /\ UNCHANGED <<unacked, forced, voice, webcam, online, drops>>
  BY AnswerEffect DEF HandleTerminate, Stanza
<1>2. Types'
  BY <1>0, <1>1 DEF TookStanza, Removes, Delivered, Delivers, Types, Counts, Claims
<1>3. Limits'
  BY <1>0, <1>1 DEF TookStanza, Removes, Delivered, Delivers, Limits
<1>4. Off'
  BY <1>0, <1>1 DEF TookStanza, Removes, Delivered, Delivers, Off, Fresh, Route, Final
<1>5. Fresh'
  BY <1>0, <1>1 DEF TookStanza, Removes, Delivered, Delivers, Fresh, Route, Final
<1>6. Route'
  BY <1>0, <1>1 DEF TookStanza, Removes, Delivered, Delivers, Route, Fresh, Final
<1>7. Final'
  BY <1>0, <1>1 DEF TookStanza, Removes, Delivered, Delivers, Final, Route, Fresh, Off, Accepted
<1>8. Accepted'
  BY <1>0, <1>1 DEF TookStanza, Removes, Delivered, Delivers, Accepted, Final, Route, Fresh, Off
<1>9. Media'
  BY <1>0, <1>1 DEF TookStanza, Removes, Delivered, Delivers, Media, Accepted, Final, Route, Fresh, Off
<1>10. Counts'
  BY <1>0, <1>1 DEF TookStanza, Removes, Delivered, Delivers, Counts, Accepted, Final, Route, Fresh, Off
<1>11. Claims'
  BY <1>0, <1>1 DEF TookStanza, Removes, Delivered, Delivers, Claims, Counts, Accepted, Final, Route, Fresh, Off
<1> QED  BY <1>2, <1>3, <1>4, <1>5, <1>6, <1>7, <1>8, <1>9, <1>10, <1>11

\* The end of the call is acknowledged.
LEMMA AckHandled ==
  ASSUME CallInv, NEW p \in Party, online[p], inbox[p] # <<>>,
         HandleAck(p), Lines
  PROVE  CallInv'
<1> USE DEF CallInv, Types, Lines, Steady, Streams, Peer, Party, Live, Caller, Callee,
            ToCaller, ToCallee, Over, Enders, Done, Prospect, Talking
<1>0. /\ \A s, x : Standing(s, x) => Carries(s, x)
      /\ \A x : ~Carries(<<>>, x) /\ AtMostOnce(<<>>, x) /\ \A n : Few(<<>>, x, n)
      /\ Harmless(<<>>)
  BY QueueFacts
<1>1. /\ TookStanza(p) /\ SaysNothing(p) /\ Head(inbox[p]) = "ack" /\ callState[p] # "unknown"
      /\ callState' = [callState EXCEPT ![p] = "finished"]
      /\ unacked' = [unacked EXCEPT ![p] = @ - 1]
      /\ online[p] /\ UNCHANGED <<forced, voice, webcam, online, drops>>
  BY AnswerEffect DEF HandleAck, Stanza
<1>2. Types'
  BY <1>0, <1>1 DEF TookStanza, Removes, SaysNothing, Types, Counts, Claims
<1>3. Limits'
  BY <1>0, <1>1 DEF TookStanza, Removes, SaysNothing, Limits
<1>4. Off'
  BY <1>0, <1>1 DEF TookStanza, Removes, SaysNothing, Off, Fresh, Route, Final
<1>5. Fresh'
  BY <1>0, <1>1 DEF TookStanza, Removes, SaysNothing, Fresh, Route, Final
<1>6. Route'
  BY <1>0, <1>1 DEF TookStanza, Removes, SaysNothing, Route, Fresh, Final
<1>7. Final'
  BY <1>0, <1>1 DEF TookStanza, Removes, SaysNothing, Final, Route, Fresh, Off, Accepted
<1>8. Accepted'
  BY <1>0, <1>1 DEF TookStanza, Removes, SaysNothing, Accepted, Final, Route, Fresh, Off
<1>9. Media'
  BY <1>0, <1>1 DEF TookStanza, Removes, SaysNothing, Media, Accepted, Final, Route, Fresh, Off
<1>10. Counts'
  BY <1>0, <1>1 DEF TookStanza, Removes, SaysNothing, Counts, Accepted, Final, Route, Fresh, Off
<1>11. Claims'
  BY <1>0, <1>1 DEF TookStanza, Removes, SaysNothing, Claims, Counts, Accepted, Final, Route, Fresh, Off
<1> QED  BY <1>2, <1>3, <1>4, <1>5, <1>6, <1>7, <1>8, <1>9, <1>10, <1>11

\* A stanza that changes nothing but its queue.
LEMMA StanzaSkipped ==
  ASSUME CallInv, NEW p \in Party, TookStanza(p), SaysNothing(p), online[p],
         Head(inbox[p]) # "initiate",
         ~Live(p) \/ Head(inbox[p]) \in {"content-add", "content-reject"},
         UNCHANGED <<callState, unacked, forced, voice, webcam, online, drops>>
  PROVE  CallInv'
<1> USE DEF CallInv, Types, Lines, Steady, Streams, Peer, Party, Live, Caller, Callee,
            ToCaller, ToCallee, Over, Enders, Done, Prospect, Talking
<1>0. /\ \A s, x : Standing(s, x) => Carries(s, x)
      /\ \A x : ~Carries(<<>>, x) /\ AtMostOnce(<<>>, x) /\ \A n : Few(<<>>, x, n)
      /\ Harmless(<<>>)
  BY QueueFacts
<1>1. /\ TookStanza(p) /\ SaysNothing(p) /\ Head(inbox[p]) # "initiate"
      /\ UNCHANGED <<callState, unacked, forced, voice, webcam, online, drops>>
  OBVIOUS
<1>2. Types'
  BY <1>0, <1>1 DEF TookStanza, Removes, SaysNothing, Types, Counts, Claims
<1>3. Limits'
  BY <1>0, <1>1 DEF TookStanza, Removes, SaysNothing, Limits
<1>4. Off'
  BY <1>0, <1>1 DEF TookStanza, Removes, SaysNothing, Off, Fresh, Route, Final
<1>5. Fresh'
  BY <1>0, <1>1 DEF TookStanza, Removes, SaysNothing, Fresh, Route, Final
<1>6. Route'
  BY <1>0, <1>1 DEF TookStanza, Removes, SaysNothing, Route, Fresh, Final
<1>7. Final'
  BY <1>0, <1>1 DEF TookStanza, Removes, SaysNothing, Final, Route, Fresh, Off, Accepted
<1>8. Accepted'
  BY <1>0, <1>1 DEF TookStanza, Removes, SaysNothing, Accepted, Final, Route, Fresh, Off
<1>9. Media'
  BY <1>0, <1>1 DEF TookStanza, Removes, SaysNothing, Media, Accepted, Final, Route, Fresh, Off
<1>10. Counts'
  BY <1>0, <1>1 DEF TookStanza, Removes, SaysNothing, Counts, Accepted, Final, Route, Fresh, Off
<1>11. Claims'
  BY <1>0, <1>1 DEF TookStanza, Removes, SaysNothing, Claims, Counts, Accepted, Final, Route, Fresh, Off
<1> QED  BY <1>2, <1>3, <1>4, <1>5, <1>6, <1>7, <1>8, <1>9, <1>10, <1>11

\* A video stream that does not fit is refused.
LEMMA ContentRefused ==
  ASSUME CallInv, NEW p \in Party, TookStanza(p), Delivered(p, "content-reject"), online[p],
         Head(inbox[p]) = "content-add", callState[p] # "unknown",
         UNCHANGED <<callState, unacked, forced, voice, webcam, online, drops>>
  PROVE  CallInv'
<1> USE DEF CallInv, Types, Lines, Steady, Streams, Peer, Party, Live, Caller, Callee,
            ToCaller, ToCallee, Over, Enders, Done, Prospect, Talking
<1>0. /\ \A s, x : Standing(s, x) => Carries(s, x)
      /\ \A x : ~Carries(<<>>, x) /\ AtMostOnce(<<>>, x) /\ \A n : Few(<<>>, x, n)
      /\ Harmless(<<>>)
  BY QueueFacts
<1>1. /\ TookStanza(p) /\ Delivered(p, "content-reject") /\ Head(inbox[p]) = "content-add"
      /\ UNCHANGED <<callState, unacked, forced, voice, webcam, online, drops>>
  OBVIOUS
<1>2. Types'
  BY <1>0, <1>1 DEF TookStanza, Removes, Delivered, Delivers, Types, Counts, Claims
<1>3. Limits'
  BY <1>0, <1>1 DEF TookStanza, Removes, Delivered, Delivers, Limits
<1>4. Off'
  BY <1>0, <1>1 DEF TookStanza, Removes, Delivered, Delivers, Off, Fresh, Route, Final
<1>5. Fresh'
  BY <1>0, <1>1 DEF TookStanza, Removes, Delivered, Delivers, Fresh, Route, Final
<1>6. Route'
  BY <1>0, <1>1 DEF TookStanza, Removes, Delivered, Delivers, Route, Fresh, Final
<1>7. Final'
  BY <1>0, <1>1 DEF TookStanza, Removes, Delivered, Delivers, Final, Route, Fresh, Off, Accepted
<1>8. Accepted'
  BY <1>0, <1>1 DEF TookStanza, Removes, Delivered, Delivers, Accepted, Final, Route, Fresh, Off
<1>9. Media'
  BY <1>0, <1>1 DEF TookStanza, Removes, Delivered, Delivers, Media, Accepted, Final, Route, Fresh, Off
<1>10. Counts'
  BY <1>0, <1>1 DEF TookStanza, Removes, Delivered, Delivers, Counts, Accepted, Final, Route, Fresh, Off
<1>11. Claims'
  BY <1>0, <1>1 DEF TookStanza, Removes, Delivered, Delivers, Claims, Counts, Accepted, Final, Route, Fresh, Off
<1> QED  BY <1>2, <1>3, <1>4, <1>5, <1>6, <1>7, <1>8, <1>9, <1>10, <1>11

\* An invitation that does not fit is refused; the callee stays unknown.
LEMMA CallRefused ==
  ASSUME CallInv, NEW p \in Party, TookStanza(p), Delivered(p, "terminate"), online[p],
         Head(inbox[p]) = "initiate",
         UNCHANGED <<callState, unacked, forced, voice, webcam, online, drops>>
  PROVE  CallInv'
<1> USE DEF CallInv, Types, Lines, Steady, Streams, Peer, Party, Live, Caller, Callee,
            ToCaller, ToCallee, Over, Enders, Done, Prospect, Talking
<1>0. /\ \A s, x : Standing(s, x) => Carries(s, x)
      /\ \A x : ~Carries(<<>>, x) /\ AtMostOnce(<<>>, x) /\ \A n : Few(<<>>, x, n)
      /\ Harmless(<<>>)
  BY QueueFacts
<1>1. /\ TookStanza(p) /\ Delivered(p, "terminate") /\ Head(inbox[p]) = "initiate" /\ p = "callee"
      /\ Callee = "unknown" /\ Caller # "unknown"
      /\ UNCHANGED <<callState, unacked, forced, voice, webcam, online, drops>>
  BY DEF TookStanza, Removes, Route, Fresh
<1>2. Types'
  BY <1>0, <1>1 DEF TookStanza, Removes, Delivered, Delivers, Types, Counts, Claims
<1>3. Limits'
  BY <1>0, <1>1 DEF TookStanza, Removes, Delivered, Delivers, Limits
<1>4. Off'
  BY <1>0, <1>1 DEF TookStanza, Removes, Delivered, Delivers, Off, Fresh, Route, Final
<1>5. Fresh'
  BY <1>0, <1>1 DEF TookStanza, Removes, Delivered, Delivers, Fresh, Route, Final
<1>6. Route'
  BY <1>0, <1>1 DEF TookStanza, Removes, Delivered, Delivers, Route, Fresh, Final
<1>7. Final'
  BY <1>0, <1>1 DEF TookStanza, Removes, Delivered, Delivers, Final, Route, Fresh, Off, Accepted
<1>8. Accepted'
  BY <1>0, <1>1 DEF TookStanza, Removes, Delivered, Delivers, Accepted, Final, Route, Fresh, Off
<1>9. Media'
  BY <1>0, <1>1 DEF TookStanza, Removes, Delivered, Delivers, Media, Accepted, Final, Route, Fresh, Off
<1>10. Counts'
  BY <1>0, <1>1 DEF TookStanza, Removes, Delivered, Delivers, Counts, Accepted, Final, Route, Fresh, Off
<1>11. Claims'
  BY <1>0, <1>1 DEF TookStanza, Removes, Delivered, Delivers, Claims, Counts, Accepted, Final, Route, Fresh, Off
<1> QED  BY <1>2, <1>3, <1>4, <1>5, <1>6, <1>7, <1>8, <1>9, <1>10, <1>11

\* An invitation makes the callee connecting.
LEMMA CallOffered ==
  ASSUME CallInv, NEW p \in Party, TookStanza(p), SaysNothing(p), online[p],
         Head(inbox[p]) = "initiate",
         callState' = [callState EXCEPT ![p] = "connecting"],
         voice' = [voice EXCEPT ![p] = TRUE],
         UNCHANGED <<unacked, forced, webcam, online, drops>>
  PROVE  CallInv'
<1> USE DEF CallInv, Types, Lines, Steady, Streams, Peer, Party, Live, Caller, Callee,
            ToCaller, ToCallee, Over, Enders, Done, Prospect, Talking
<1>0. /\ \A s, x : Standing(s, x) => Carries(s, x)
      /\ \A x : ~Carries(<<>>, x) /\ AtMostOnce(<<>>, x) /\ \A n : Few(<<>>, x, n)
      /\ Harmless(<<>>)
  BY QueueFacts
<1>1. /\ TookStanza(p) /\ SaysNothing(p) /\ Head(inbox[p]) = "initiate" /\ p = "callee"
      /\ Callee = "unknown" /\ Caller # "unknown"
      /\ callState' = [callState EXCEPT !["callee"] = "connecting"]
      /\ voice' = [voice EXCEPT !["callee"] = TRUE]
      /\ UNCHANGED <<unacked, forced, webcam, online, drops>>
  BY DEF TookStanza, Removes, Route, Fresh
<1>2. Types'
  BY <1>0, <1>1 DEF TookStanza, Removes, SaysNothing, Types, Counts, Claims
<1>3. Limits'
  BY <1>0, <1>1 DEF TookStanza, Removes, SaysNothing, Limits
<1>4. Off'
  BY <1>0, <1>1 DEF TookStanza, Removes, SaysNothing, Off, Fresh, Route, Final
<1>5. Fresh'
  BY <1>0, <1>1 DEF TookStanza, Removes, SaysNothing, Fresh, Route, Final
<1>6. Route'
  BY <1>0, <1>1 DEF TookStanza, Removes, SaysNothing, Route, Fresh, Final
<1>7. Final'
  BY <1>0, <1>1 DEF TookStanza, Removes, SaysNothing, Final, Route, Fresh, Off, Accepted
<1>8. Accepted'
  BY <1>0, <1>1 DEF TookStanza, Removes, SaysNothing, Accepted, Final, Route, Fresh, Off
<1>9. Media'
  BY <1>0, <1>1 DEF TookStanza, Removes, SaysNothing, Media, Accepted, Final, Route, Fresh, Off
<1>10. Counts'
  BY <1>0, <1>1 DEF TookStanza, Removes, SaysNothing, Counts, Accepted, Final, Route, Fresh, Off
<1>11. Claims'
  <2> SUFFICES ASSUME NEW r \in Party, callState'[r] # "unknown"
               PROVE  \E m, n \in 0..2 : /\ m + n <= unacked'[r] /\ Few(inbox'[r], "ack", m)
                                         /\ Few(inbox'[Peer(r)], "terminate", n)
    BY DEF Claims
  <2>1. ~Carries(ToCallee, "ack") /\ ~Carries(ToCaller, "terminate")
    BY <1>0, <1>1 DEF TookStanza, Removes, Final, Route
  <2>2. CASE r = "callee"
    <3>1. Few(inbox'[r], "ack", 0) /\ Few(inbox'[Peer(r)], "terminate", 0) /\ 0 + 0 <= unacked'[r]
      BY <1>0, <1>1, <2>1, <2>2 DEF TookStanza, SaysNothing, Removes, Few
    <3> QED  BY <3>1
  <2>3. CASE r = "caller"
    <3>1. PICK m \in 0..2, n \in 0..2 : /\ m + n <= unacked[r] /\ Few(inbox[r], "ack", m)
                                     /\ Few(inbox[Peer(r)], "terminate", n)
      BY <1>1, <2>3 DEF Claims
    <3> QED  BY <1>0, <1>1, <2>3, <3>1 DEF TookStanza, SaysNothing, Removes
  <2> QED  BY <2>2, <2>3
<1> QED  BY <1>2, <1>3, <1>4, <1>5, <1>6, <1>7, <1>8, <1>9, <1>10, <1>11

\* An acceptance makes the caller active, in whatever state.
LEMMA AcceptTaken ==
  ASSUME CallInv, NEW p \in Party, TookStanza(p), SaysNothing(p), online[p],
         Head(inbox[p]) = "accept",
         callState' = [callState EXCEPT ![p] = "active"],
         voice' = [voice EXCEPT ![p] = TRUE],
         UNCHANGED <<unacked, forced, webcam, online, drops>>
  PROVE  CallInv'
<1> USE DEF CallInv, Types, Lines, Steady, Streams, Peer, Party, Live, Caller, Callee,
            ToCaller, ToCallee, Over, Enders, Done, Prospect, Talking
<1>0. /\ \A s, x : Standing(s, x) => Carries(s, x)
      /\ \A x : ~Carries(<<>>, x) /\ AtMostOnce(<<>>, x) /\ \A n : Few(<<>>, x, n)
      /\ Harmless(<<>>)
  BY QueueFacts
<1>1. /\ TookStanza(p) /\ SaysNothing(p) /\ Head(inbox[p]) = "accept" /\ p = "caller"
      /\ Callee \notin {"unknown", "connecting"} /\ Caller # "unknown"
      /\ callState' = [callState EXCEPT !["caller"] = "active"]
      /\ voice' = [voice EXCEPT !["caller"] = TRUE]
      /\ UNCHANGED <<unacked, forced, webcam, online, drops>>
  BY DEF TookStanza, Removes, Route, Fresh, Accepted
<1>2. Types'
  BY <1>0, <1>1 DEF TookStanza, Removes, SaysNothing, Types, Counts, Claims
<1>3. Limits'
  BY <1>0, <1>1 DEF TookStanza, Removes, SaysNothing, Limits
<1>4. Off'
  BY <1>0, <1>1 DEF TookStanza, Removes, SaysNothing, Off, Fresh, Route, Final
<1>5. Fresh'
  BY <1>0, <1>1 DEF TookStanza, Removes, SaysNothing, Fresh, Route, Final
<1>6. Route'
  BY <1>0, <1>1 DEF TookStanza, Removes, SaysNothing, Route, Fresh, Final
<1>7. Final'
  BY <1>0, <1>1 DEF TookStanza, Removes, SaysNothing, Final, Route, Fresh, Off, Accepted
<1>8. Accepted'
  BY <1>0, <1>1 DEF TookStanza, Removes, SaysNothing, Accepted, Final, Route, Fresh, Off
<1>9. Media'
  BY <1>0, <1>1 DEF TookStanza, Removes, SaysNothing, Media, Accepted, Final, Route, Fresh, Off
<1>10. Counts'
  BY <1>0, <1>1 DEF TookStanza, Removes, SaysNothing, Counts, Accepted, Final, Route, Fresh, Off
<1>11. Claims'
  BY <1>0, <1>1 DEF TookStanza, Removes, SaysNothing, Claims, Counts, Accepted, Final, Route, Fresh, Off
<1> QED  BY <1>2, <1>3, <1>4, <1>5, <1>6, <1>7, <1>8, <1>9, <1>10, <1>11

\* A party ends the call on what it reads.
LEMMA CallGivenUp ==
  ASSUME CallInv, NEW p \in Party, TookStanza(p), Delivered(p, "terminate"), online[p],
         Head(inbox[p]) \in {"accept", "unavailable"}, Live(p), Disconnecting(p),
         UNCHANGED <<voice, webcam, online, drops>>
  PROVE  CallInv'
<1> USE DEF CallInv, Types, Lines, Steady, Streams, Peer, Party, Live, Caller, Callee,
            ToCaller, ToCallee, Over, Enders, Done, Prospect, Talking
<1>0. /\ \A s, x : Standing(s, x) => Carries(s, x)
      /\ \A x : ~Carries(<<>>, x) /\ AtMostOnce(<<>>, x) /\ \A n : Few(<<>>, x, n)
      /\ Harmless(<<>>)
  BY QueueFacts
<1>1. /\ TookStanza(p) /\ Delivered(p, "terminate")
      /\ callState' = [callState EXCEPT ![p] = "disconnecting"]
      /\ unacked' = [unacked EXCEPT ![p] = @ + 1]
      /\ forced' = [forced EXCEPT ![p] = @ + 1]
      /\ UNCHANGED <<voice, webcam, online, drops>>
  BY DEF Disconnecting
<1>2. Types'
  BY <1>0, <1>1 DEF TookStanza, Removes, Delivered, Delivers, Types, Counts, Claims
<1>3. Limits'
  BY <1>0, <1>1 DEF TookStanza, Removes, Delivered, Delivers, Limits
<1>4. Off'
  BY <1>0, <1>1 DEF TookStanza, Removes, Delivered, Delivers, Off, Fresh, Route, Final
<1>5. Fresh'
  BY <1>0, <1>1 DEF TookStanza, Removes, Delivered, Delivers, Fresh, Route, Final
<1>6. Route'
  BY <1>0, <1>1 DEF TookStanza, Removes, Delivered, Delivers, Route, Fresh, Final
<1>7. Final'
  BY <1>0, <1>1 DEF TookStanza, Removes, Delivered, Delivers, Final, Route, Fresh, Off, Accepted
<1>8. Accepted'
  BY <1>0, <1>1 DEF TookStanza, Removes, Delivered, Delivers, Accepted, Final, Route, Fresh, Off
<1>9. Media'
  <2>1. \A r \in Party, x \in {"content-accept", "content-add"} :
          Carries(inbox'[r], x) => Carries(inbox[r], x)
    BY <1>1 DEF TookStanza, Delivered, Removes, Delivers
  <2>2. ~(Callee' = "active" /\ Harmless(ToCallee'))
    <3>1. CASE p = "callee"
      BY <1>1, <3>1
    <3>2. CASE p = "caller"
      BY <1>1, <3>2 DEF Delivered, Delivers, Off
    <3> QED  BY <3>1, <3>2
  <2> QED  BY <1>1, <2>1, <2>2 DEF Media
<1>10. Counts'
  BY <1>0, <1>1 DEF TookStanza, Removes, Delivered, Delivers, Counts, Accepted, Final, Route, Fresh, Off
<1>11. Claims'
  BY <1>0, <1>1 DEF TookStanza, Removes, Delivered, Delivers, Claims, Counts, Accepted, Final, Route, Fresh, Off
<1> QED  BY <1>2, <1>3, <1>4, <1>5, <1>6, <1>7, <1>8, <1>9, <1>10, <1>11

\* A video stream is taken and answered.
LEMMA ContentTaken ==
  ASSUME CallInv, NEW p \in Party, TookStanza(p), Delivered(p, "content-accept"), online[p],
         Head(inbox[p]) = "content-add", callState[p] # "unknown", webcam[p] = "none",
         webcam' = [webcam EXCEPT ![p] = "described"],
         UNCHANGED <<callState, unacked, forced, voice, online, drops>>
  PROVE  CallInv'
<1> USE DEF CallInv, Types, Lines, Steady, Streams, Peer, Party, Live, Caller, Callee,
            ToCaller, ToCallee, Over, Enders, Done, Prospect, Talking
<1>0. /\ \A s, x : Standing(s, x) => Carries(s, x)
      /\ \A x : ~Carries(<<>>, x) /\ AtMostOnce(<<>>, x) /\ \A n : Few(<<>>, x, n)
      /\ Harmless(<<>>)
  BY QueueFacts
<1>1. /\ TookStanza(p) /\ Delivered(p, "content-accept") /\ Head(inbox[p]) = "content-add"
      /\ webcam' = [webcam EXCEPT ![p] = "described"] /\ webcam[p] = "none"
      /\ UNCHANGED <<callState, unacked, forced, voice, online, drops>>
  OBVIOUS
<1>2. Types'
  BY <1>0, <1>1 DEF TookStanza, Removes, Delivered, Delivers, Types, Counts, Claims
<1>3. Limits'
  BY <1>0, <1>1 DEF TookStanza, Removes, Delivered, Delivers, Limits
<1>4. Off'
  BY <1>0, <1>1 DEF TookStanza, Removes, Delivered, Delivers, Off, Fresh, Route, Final
<1>5. Fresh'
  BY <1>0, <1>1 DEF TookStanza, Removes, Delivered, Delivers, Fresh, Route, Final
<1>6. Route'
  BY <1>0, <1>1 DEF TookStanza, Removes, Delivered, Delivers, Route, Fresh, Final
<1>7. Final'
  BY <1>0, <1>1 DEF TookStanza, Removes, Delivered, Delivers, Final, Route, Fresh, Off, Accepted
<1>8. Accepted'
  BY <1>0, <1>1 DEF TookStanza, Removes, Delivered, Delivers, Accepted, Final, Route, Fresh, Off
<1>9. Media'
  BY <1>0, <1>1 DEF TookStanza, Removes, Delivered, Delivers, Media, Accepted, Final, Route, Fresh, Off
<1>10. Counts'
  BY <1>0, <1>1 DEF TookStanza, Removes, Delivered, Delivers, Counts, Accepted, Final, Route, Fresh, Off
<1>11. Claims'
  BY <1>0, <1>1 DEF TookStanza, Removes, Delivered, Delivers, Claims, Counts, Accepted, Final, Route, Fresh, Off
<1> QED  BY <1>2, <1>3, <1>4, <1>5, <1>6, <1>7, <1>8, <1>9, <1>10, <1>11

\* The answer about a video stream is taken.
LEMMA ContentAnswered ==
  ASSUME CallInv, NEW p \in Party, TookStanza(p), SaysNothing(p), online[p],
         Head(inbox[p]) = "content-accept", callState[p] # "unknown",
         webcam' = [webcam EXCEPT ![p] = "described"],
         UNCHANGED <<callState, unacked, forced, voice, online, drops>>
  PROVE  CallInv'
<1> USE DEF CallInv, Types, Lines, Steady, Streams, Peer, Party, Live, Caller, Callee,
            ToCaller, ToCallee, Over, Enders, Done, Prospect, Talking
<1>0. /\ \A s, x : Standing(s, x) => Carries(s, x)
      /\ \A x : ~Carries(<<>>, x) /\ AtMostOnce(<<>>, x) /\ \A n : Few(<<>>, x, n)
      /\ Harmless(<<>>)
  BY QueueFacts
<1>1. /\ TookStanza(p) /\ SaysNothing(p) /\ Head(inbox[p]) = "content-accept"
      /\ webcam' = [webcam EXCEPT ![p] = "described"]
      /\ UNCHANGED <<callState, unacked, forced, voice, online, drops>>
  OBVIOUS
<1>2. Types'
  BY <1>0, <1>1 DEF TookStanza, Removes, SaysNothing, Types, Counts, Claims
<1>3. Limits'
  BY <1>0, <1>1 DEF TookStanza, Removes, SaysNothing, Limits
<1>4. Off'
  BY <1>0, <1>1 DEF TookStanza, Removes, SaysNothing, Off, Fresh, Route, Final
<1>5. Fresh'
  BY <1>0, <1>1 DEF TookStanza, Removes, SaysNothing, Fresh, Route, Final
<1>6. Route'
  BY <1>0, <1>1 DEF TookStanza, Removes, SaysNothing, Route, Fresh, Final
<1>7. Final'
  BY <1>0, <1>1 DEF TookStanza, Removes, SaysNothing, Final, Route, Fresh, Off, Accepted
<1>8. Accepted'
  BY <1>0, <1>1 DEF TookStanza, Removes, SaysNothing, Accepted, Final, Route, Fresh, Off
<1>9. Media'
  BY <1>0, <1>1 DEF TookStanza, Removes, SaysNothing, Media, Accepted, Final, Route, Fresh, Off
<1>10. Counts'
  BY <1>0, <1>1 DEF TookStanza, Removes, SaysNothing, Counts, Accepted, Final, Route, Fresh, Off
<1>11. Claims'
  BY <1>0, <1>1 DEF TookStanza, Removes, SaysNothing, Claims, Counts, Accepted, Final, Route, Fresh, Off
<1> QED  BY <1>2, <1>3, <1>4, <1>5, <1>6, <1>7, <1>8, <1>9, <1>10, <1>11

\* A party hangs up.
LEMMA HangupKeeps ==
  ASSUME CallInv, NEW p \in Party, Hangup(p)
  PROVE  CallInv'
<1> USE DEF CallInv, Types, Lines, Steady, Streams, Peer, Party, Live, Caller, Callee,
            ToCaller, ToCallee, Over, Enders, Done, Prospect, Talking
<1>0. /\ \A s, x : Standing(s, x) => Carries(s, x)
      /\ \A x : ~Carries(<<>>, x) /\ AtMostOnce(<<>>, x) /\ \A n : Few(<<>>, x, n)
      /\ Harmless(<<>>)
  BY QueueFacts
<1>1. /\ inbox' \in [Party -> Seq(Stanza)] /\ inbox'[p] = inbox[p]
      /\ IF online[p] /\ online[Peer(p)] THEN Delivers(inbox[Peer(p)], inbox'[Peer(p)], "terminate")
                                        ELSE inbox'[Peer(p)] = inbox[Peer(p)]
      /\ Live(p) /\ callState' = [callState EXCEPT ![p] = "disconnecting"]
      /\ unacked' = [unacked EXCEPT ![p] = @ + 1]
      /\ forced' = [forced EXCEPT ![p] = @ + 1]
      /\ UNCHANGED <<voice, webcam, online, drops>>
  BY PostEffect DEF Hangup, Disconnecting, Stanza
<1>2. Types'
  BY <1>0, <1>1 DEF Delivers, Types, Counts, Claims
<1>3. Limits'
  BY <1>0, <1>1 DEF Delivers, Limits
<1>4. Off'
  BY <1>0, <1>1 DEF Delivers, Off, Fresh, Route, Final
<1>5. Fresh'
  BY <1>0, <1>1 DEF Delivers, Fresh, Route, Final
<1>6. Route'
  <2>1. CASE p = "caller"
    BY <1>0, <1>1, <2>1 DEF Delivers, Route, Fresh
  <2>2. CASE p = "callee"
    BY <1>0, <1>1, <2>2 DEF Delivers, Route, Fresh
  <2> QED  BY <2>1, <2>2
<1>7. Final'
  BY <1>0, <1>1 DEF Delivers, Final, Route, Fresh, Off, Accepted
<1>8. Accepted'
  BY <1>0, <1>1 DEF Delivers, Accepted, Final, Route, Fresh, Off
<1>9. Media'
  BY <1>0, <1>1 DEF Delivers, Media, Accepted, Final, Route, Fresh, Off
<1>10. Counts'
  BY <1>0, <1>1 DEF Delivers, Counts, Accepted, Final, Route, Fresh, Off
<1>11. Claims'
  BY <1>0, <1>1 DEF Delivers, Claims, Counts, Accepted, Final, Route, Fresh, Off
<1> QED  BY <1>2, <1>3, <1>4, <1>5, <1>6, <1>7, <1>8, <1>9, <1>10, <1>11

\* The end is forced after 5 s.
LEMMA ForcedEndKeeps ==
  ASSUME CallInv, NEW p \in Party, ForcedEnd(p)
  PROVE  CallInv'
<1> USE DEF CallInv, Types, Lines, Steady, Streams, Peer, Party, Live, Caller, Callee,
            ToCaller, ToCallee, Over, Enders, Done, Prospect, Talking
<1>0. /\ \A s, x : Standing(s, x) => Carries(s, x)
      /\ \A x : ~Carries(<<>>, x) /\ AtMostOnce(<<>>, x) /\ \A n : Few(<<>>, x, n)
      /\ Harmless(<<>>)
  BY QueueFacts
<1>1. /\ forced[p] > 0
      /\ callState' = [callState EXCEPT ![p] = "finished"]
      /\ forced' = [forced EXCEPT ![p] = @ - 1]
      /\ UNCHANGED <<unacked, voice, webcam, online, drops, inbox>>
  BY DEF ForcedEnd
<1>2. Types'
  BY <1>0, <1>1 DEF Types, Counts, Claims
<1>3. Limits'
  BY <1>0, <1>1 DEF Limits
<1>4. Off'
  BY <1>0, <1>1 DEF Off, Fresh, Route, Final
<1>5. Fresh'
  BY <1>0, <1>1 DEF Fresh, Route, Final
<1>6. Route'
  BY <1>0, <1>1 DEF Route, Fresh, Final
<1>7. Final'
  BY <1>0, <1>1 DEF Final, Route, Fresh, Off, Accepted
<1>8. Accepted'
  BY <1>0, <1>1 DEF Accepted, Final, Route, Fresh, Off
<1>9. Media'
  BY <1>0, <1>1 DEF Media, Accepted, Final, Route, Fresh, Off
<1>10. Counts'
  BY <1>0, <1>1 DEF Counts, Accepted, Final, Route, Fresh, Off
<1>11. Claims'
  BY <1>0, <1>1 DEF Claims, Counts, Accepted, Final, Route, Fresh, Off
<1> QED  BY <1>2, <1>3, <1>4, <1>5, <1>6, <1>7, <1>8, <1>9, <1>10, <1>11

\* A video stream is offered.
LEMMA StartVideoKeeps ==
  ASSUME CallInv, NEW p \in Party, StartVideo(p)
  PROVE  CallInv'
<1> USE DEF CallInv, Types, Lines, Steady, Streams, Peer, Party, Live, Caller, Callee,
            ToCaller, ToCallee, Over, Enders, Done, Prospect, Talking
<1>0. /\ \A s, x : Standing(s, x) => Carries(s, x)
      /\ \A x : ~Carries(<<>>, x) /\ AtMostOnce(<<>>, x) /\ \A n : Few(<<>>, x, n)
      /\ Harmless(<<>>)
  BY QueueFacts
<1>1. /\ inbox' \in [Party -> Seq(Stanza)] /\ inbox'[p] = inbox[p]
      /\ IF online[p] /\ online[Peer(p)] THEN Delivers(inbox[Peer(p)], inbox'[Peer(p)], "content-add")
                                        ELSE inbox'[Peer(p)] = inbox[Peer(p)]
      /\ callState[p] = "active" /\ webcam[p] = "none"
      /\ webcam' = [webcam EXCEPT ![p] = "offered"]
      /\ UNCHANGED <<callState, unacked, forced, voice, online, drops>>
  BY PostEffect DEF StartVideo, Stanza
<1>2. Types'
  BY <1>0, <1>1 DEF Delivers, Types, Counts, Claims
<1>3. Limits'
  BY <1>0, <1>1 DEF Delivers, Limits
<1>4. Off'
  BY <1>0, <1>1 DEF Delivers, Off, Fresh, Route, Final
<1>5. Fresh'
  BY <1>0, <1>1 DEF Delivers, Fresh, Route, Final
<1>6. Route'
  BY <1>0, <1>1 DEF Delivers, Route, Fresh, Final
<1>7. Final'
  BY <1>0, <1>1 DEF Delivers, Final, Route, Fresh, Off, Accepted
<1>8. Accepted'
  BY <1>0, <1>1 DEF Delivers, Accepted, Final, Route, Fresh, Off
<1>9. Media'
  BY <1>0, <1>1 DEF Delivers, Media, Accepted, Final, Route, Fresh, Off
<1>10. Counts'
  BY <1>0, <1>1 DEF Delivers, Counts, Accepted, Final, Route, Fresh, Off
<1>11. Claims'
  BY <1>0, <1>1 DEF Delivers, Claims, Counts, Accepted, Final, Route, Fresh, Off
<1> QED  BY <1>2, <1>3, <1>4, <1>5, <1>6, <1>7, <1>8, <1>9, <1>10, <1>11

\* The caller calls.
LEMMA InviteKeeps ==
  ASSUME CallInv, Invite
  PROVE  CallInv'
<1> USE DEF CallInv, Types, Lines, Steady, Streams, Peer, Party, Live, Caller, Callee,
            ToCaller, ToCallee, Over, Enders, Done, Prospect, Talking
<1>0. /\ \A s, x : Standing(s, x) => Carries(s, x)
      /\ \A x : ~Carries(<<>>, x) /\ AtMostOnce(<<>>, x) /\ \A n : Few(<<>>, x, n)
      /\ Harmless(<<>>)
  BY QueueFacts
<1>1. /\ inbox' \in [Party -> Seq(Stanza)] /\ ToCaller' = ToCaller
      /\ IF online["caller"] /\ online["callee"] THEN Delivers(ToCallee, ToCallee', "initiate")
                                               ELSE ToCallee' = ToCallee
      /\ Caller = "unknown" /\ callState' = [callState EXCEPT !["caller"] = "connecting"]
      /\ UNCHANGED <<unacked, forced, voice, webcam, online, drops>>
  BY PostEffect DEF Invite, Stanza
<1>2. Types'
  BY <1>0, <1>1 DEF Delivers, Types, Counts, Claims
<1>3. Limits'
  BY <1>0, <1>1 DEF Delivers, Limits
<1>4. Off'
  BY <1>0, <1>1 DEF Delivers, Off, Fresh, Route, Final
<1>5. Fresh'
  BY <1>0, <1>1 DEF Delivers, Fresh, Route, Final
<1>6. Route'
  BY <1>0, <1>1 DEF Delivers, Route, Fresh, Final
<1>7. Final'
  BY <1>0, <1>1 DEF Delivers, Final, Route, Fresh, Off, Accepted
<1>8. Accepted'
  BY <1>0, <1>1 DEF Delivers, Accepted, Final, Route, Fresh, Off
<1>9. Media'
  BY <1>0, <1>1 DEF Delivers, Media, Accepted, Final, Route, Fresh, Off
<1>10. Counts'
  BY <1>0, <1>1 DEF Delivers, Counts, Accepted, Final, Route, Fresh, Off
<1>11. Claims'
  <2> SUFFICES ASSUME NEW r \in Party, callState'[r] # "unknown"
               PROVE  \E m, n \in 0..2 : /\ m + n <= unacked'[r] /\ Few(inbox'[r], "ack", m)
                                         /\ Few(inbox'[Peer(r)], "terminate", n)
    BY DEF Claims
  <2>1. /\ ~Carries(ToCaller, "ack") /\ ~Carries(ToCallee, "terminate") /\ Callee = "unknown"
        /\ unacked["caller"] = 0
    BY <1>1 DEF Fresh
  <2>2. r = "caller"
    BY <1>1, <2>1
  <2>3. Few(inbox'[r], "ack", 0) /\ Few(inbox'[Peer(r)], "terminate", 0) /\ 0 + 0 <= unacked'[r]
    BY <1>1, <2>1, <2>2 DEF Delivers, Few
  <2> QED  BY <2>3
<1> QED  BY <1>2, <1>3, <1>4, <1>5, <1>6, <1>7, <1>8, <1>9, <1>10, <1>11

\* The callee accepts.
LEMMA AcceptCallKeeps ==
  ASSUME CallInv, AcceptCall
  PROVE  CallInv'
<1> USE DEF CallInv, Types, Lines, Steady, Streams, Peer, Party, Live, Caller, Callee,
            ToCaller, ToCallee, Over, Enders, Done, Prospect, Talking
<1>0. /\ \A s, x : Standing(s, x) => Carries(s, x)
      /\ \A x : ~Carries(<<>>, x) /\ AtMostOnce(<<>>, x) /\ \A n : Few(<<>>, x, n)
      /\ Harmless(<<>>)
  BY QueueFacts
<1>1. /\ inbox' \in [Party -> Seq(Stanza)] /\ ToCallee' = ToCallee
      /\ IF online["caller"] /\ online["callee"] THEN Delivers(ToCaller, ToCaller', "accept")
                                               ELSE ToCaller' = ToCaller
      /\ Callee = "connecting" /\ callState' = [callState EXCEPT !["callee"] = "active"]
      /\ UNCHANGED <<unacked, forced, voice, webcam, online, drops>>
  BY PostEffect DEF AcceptCall, Stanza
<1>2. Types'
  BY <1>0, <1>1 DEF Delivers, Types, Counts, Claims
<1>3. Limits'
  BY <1>0, <1>1 DEF Delivers, Limits
<1>4. Off'
  BY <1>0, <1>1 DEF Delivers, Off, Fresh, Route, Final
<1>5. Fresh'
  BY <1>0, <1>1 DEF Delivers, Fresh, Route, Final
<1>6. Route'
  BY <1>0, <1>1 DEF Delivers, Route, Fresh, Final
<1>7. Final'
  BY <1>0, <1>1 DEF Delivers, Final, Route, Fresh, Off, Accepted
<1>8. Accepted'
  BY <1>0, <1>1 DEF Delivers, Accepted, Final, Route, Fresh, Off
<1>9. Media'
  BY <1>0, <1>1 DEF Delivers, Media, Accepted, Final, Route, Fresh, Off
<1>10. Counts'
  BY <1>0, <1>1 DEF Delivers, Counts, Accepted, Final, Route, Fresh, Off
<1>11. Claims'
  BY <1>0, <1>1 DEF Delivers, Claims, Counts, Accepted, Final, Route, Fresh, Off
<1> QED  BY <1>2, <1>3, <1>4, <1>5, <1>6, <1>7, <1>8, <1>9, <1>10, <1>11

\* A connection to the server is lost.
LEMMA DropLineKeeps ==
  ASSUME CallInv, NEW p \in Party, DropLine(p)
  PROVE  CallInv'
<1> USE DEF CallInv, Types, Lines, Steady, Streams, Peer, Party, Live, Caller, Callee,
            ToCaller, ToCallee, Over, Enders, Done, Prospect, Talking
<1>0. /\ \A s, x : Standing(s, x) => Carries(s, x)
      /\ \A x : ~Carries(<<>>, x) /\ AtMostOnce(<<>>, x) /\ \A n : Few(<<>>, x, n)
      /\ Harmless(<<>>)
  BY QueueFacts
<1>1. /\ inbox' \in [Party -> Seq(Stanza)] /\ inbox'[p] = <<>>
      /\ IF online[Peer(p)] THEN Delivers(inbox[Peer(p)], inbox'[Peer(p)], "unavailable")
                            ELSE inbox'[Peer(p)] = inbox[Peer(p)]
      /\ online[p] /\ drops < MaxDrops
      /\ online' = [online EXCEPT ![p] = FALSE] /\ drops' = drops + 1
      /\ \/ /\ Live(p) /\ callState' = [callState EXCEPT ![p] = "disconnecting"]
            /\ unacked' = [unacked EXCEPT ![p] = @ + 1]
            /\ forced' = [forced EXCEPT ![p] = @ + 1]
         \/ ~Live(p) /\ UNCHANGED <<callState, unacked, forced>>
      /\ UNCHANGED <<voice, webcam>>
  BY DropEffect DEF DropLine, Disconnecting
<1>2. Types'
  BY <1>0, <1>1 DEF Delivers, Types, Counts, Claims
<1>3. Limits'
  BY <1>1, DropsAssumption DEF Limits
<1>4. Off'
  BY <1>0, <1>1 DEF Delivers, Off, Fresh, Route, Final
<1>5. Fresh'
  BY <1>0, <1>1 DEF Delivers, Fresh, Route, Final
<1>6. Route'
  BY <1>0, <1>1 DEF Delivers, Route, Fresh, Final
<1>7. Final'
  BY <1>0, <1>1 DEF Delivers, Final, Route, Fresh, Off, Accepted
<1>8. Accepted'
  BY <1>0, <1>1 DEF Delivers, Accepted, Final, Route, Fresh, Off
<1>9. Media'
  BY <1>0, <1>1 DEF Delivers, Media, Accepted, Final, Route, Fresh, Off
<1>10. Counts'
  BY <1>0, <1>1 DEF Delivers, Counts, Accepted, Final, Route, Fresh, Off
<1>11. Claims'
  <2> SUFFICES ASSUME NEW r \in Party, callState'[r] # "unknown"
               PROVE  \E m, n \in 0..2 : /\ m + n <= unacked'[r] /\ Few(inbox'[r], "ack", m)
                                         /\ Few(inbox'[Peer(r)], "terminate", n)
    BY DEF Claims
  <2>1. PICK m \in 0..2, n \in 0..2 : /\ m + n <= unacked[r] /\ Few(inbox[r], "ack", m)
                                   /\ Few(inbox[Peer(r)], "terminate", n)
    BY <1>1 DEF Claims
  <2>2. 0 + n <= unacked'[r] /\ m + 0 <= unacked'[r]
    <3>1. unacked[r] \in 0..2 /\ unacked'[r] \in 0..2
      BY <1>2
    <3>2. unacked[r] <= unacked'[r]
      BY <1>1, <3>1
    <3>3. \A u, v \in 0..2 : m + n <= u /\ u <= v => 0 + n <= v /\ m + 0 <= v
      OBVIOUS
    <3> QED  BY <2>1, <3>1, <3>2, <3>3
  <2>3. CASE r = p
    <3>1. Few(inbox'[r], "ack", 0)
      <4>1. inbox'[r] = <<>>
        BY <1>1, <2>3
      <4> QED  BY <1>0, <4>1
    <3>2. Few(inbox'[Peer(r)], "terminate", n)
      <4>1. CASE online[Peer(p)]
        BY <1>1, <2>1, <2>3, <4>1 DEF Delivers
      <4>2. CASE ~online[Peer(p)]
        BY <1>1, <2>1, <2>3, <4>2
      <4> QED  BY <4>1, <4>2
    <3> QED  BY <2>2, <3>1, <3>2
  <2>4. CASE r = Peer(p)
    <3>1. Peer(r) = p
      BY <2>4
    <3>2. Few(inbox'[Peer(r)], "terminate", 0)
      <4>1. inbox'[p] = <<>>
        BY <1>1
      <4>2. Few(inbox'[p], "terminate", 0)
        BY <1>0, <4>1
      <4> QED  BY <3>1, <4>2
    <3>3. Few(inbox'[r], "ack", m)
      <4>1. CASE online[Peer(p)]
        BY <1>1, <2>1, <2>4, <4>1 DEF Delivers
      <4>2. CASE ~online[Peer(p)]
        BY <1>1, <2>1, <2>4, <4>2
      <4> QED  BY <4>1, <4>2
    <3> QED  BY <2>2, <3>2, <3>3
  <2> QED  BY <2>3, <2>4
<1> QED  BY <1>2, <1>3, <1>4, <1>5, <1>6, <1>7, <1>8, <1>9, <1>10, <1>11

\* A party comes back.
LEMMA ReconnectKeeps ==
  ASSUME CallInv, NEW p \in Party, Reconnect(p)
  PROVE  CallInv'
<1> USE DEF CallInv, Types, Lines, Steady, Streams, Peer, Party, Live, Caller, Callee,
            ToCaller, ToCallee, Over, Enders, Done, Prospect, Talking
<1>0. /\ \A s, x : Standing(s, x) => Carries(s, x)
      /\ \A x : ~Carries(<<>>, x) /\ AtMostOnce(<<>>, x) /\ \A n : Few(<<>>, x, n)
      /\ Harmless(<<>>)
  BY QueueFacts
<1>1. /\ ~online[p] /\ online' = [online EXCEPT ![p] = TRUE]
      /\ UNCHANGED <<callState, unacked, forced, voice, webcam, drops, inbox>>
  BY DEF Reconnect
<1>2. Types'
  BY <1>0, <1>1 DEF Types, Counts, Claims
<1>3. Limits'
  BY <1>0, <1>1 DEF Limits
<1>4. Off'
  BY <1>0, <1>1 DEF Off, Fresh, Route, Final
<1>5. Fresh'
  BY <1>0, <1>1 DEF Fresh, Route, Final
<1>6. Route'
  BY <1>0, <1>1 DEF Route, Fresh, Final
<1>7. Final'
  BY <1>0, <1>1 DEF Final, Route, Fresh, Off, Accepted
<1>8. Accepted'
  BY <1>0, <1>1 DEF Accepted, Final, Route, Fresh, Off
<1>9. Media'
  BY <1>0, <1>1 DEF Media, Accepted, Final, Route, Fresh, Off
<1>10. Counts'
  BY <1>0, <1>1 DEF Counts, Accepted, Final, Route, Fresh, Off
<1>11. Claims'
  BY <1>0, <1>1 DEF Claims, Counts, Accepted, Final, Route, Fresh, Off
<1> QED  BY <1>2, <1>3, <1>4, <1>5, <1>6, <1>7, <1>8, <1>9, <1>10, <1>11

\* The invariant holds at the start.
LEMMA InitCall == CallInit => CallInv
<1> SUFFICES ASSUME CallInit PROVE CallInv
  OBVIOUS
<1>1. ToCaller = <<>> /\ ToCallee = <<>> /\ inbox \in [Party -> Seq(Stanza)]
  BY EmptyQueue DEF CallInit, ToCaller, ToCallee, Party
<1>2. /\ \A x : ~Carries(<<>>, x) /\ AtMostOnce(<<>>, x) /\ \A n : Few(<<>>, x, n)
      /\ \A x : ~Standing(<<>>, x)
  BY EmptyQueue
<1> USE DEF Caller, Callee, Party, CallInit
<1>3. Types /\ Limits
  BY <1>1, DropsAssumption DEF Types, Limits
<1>4. Off /\ Fresh /\ Route
  BY <1>1, <1>2 DEF Off, Fresh, Route, Live, Prospect
<1>5. Final /\ Accepted
  BY <1>1, <1>2 DEF Final, Accepted, Over, Talking, Prospect
<1>6. Media /\ Counts
  BY <1>1, <1>2 DEF Media, Counts, Over, ToCaller, ToCallee
<1>7. Claims
  BY DEF Claims
<1> QED  BY <1>3, <1>4, <1>5, <1>6, <1>7 DEF CallInv

\* Every handler keeps the invariant.
LEMMA StanzaTaken ==
  ASSUME CallInv, NEW p \in Party, ReceiveStanza(p)
  PROVE  CallInv'
<1> USE DEF Lines, Steady, Streams
<1>1. online[p] /\ inbox[p] # <<>> /\ Lines
  BY DEF ReceiveStanza
<1>2. /\ Answer(p, <<>>) => TookStanza(p) /\ SaysNothing(p)
      /\ Answer(p, <<"terminate">>) => TookStanza(p) /\ Delivered(p, "terminate")
      /\ Answer(p, <<"content-reject">>) => TookStanza(p) /\ Delivered(p, "content-reject")
      /\ Answer(p, <<"content-accept">>) => TookStanza(p) /\ Delivered(p, "content-accept")
  <2>1. {"terminate", "content-reject", "content-accept"} \subseteq Stanza
    BY DEF Stanza
  <2> QED  BY <1>1, <2>1, AnswerEffect DEF CallInv
<1>4. CASE HandleInitiate(p)
  <2>1. CASE /\ callState' = [callState EXCEPT ![p] = "connecting"]
             /\ voice' = [voice EXCEPT ![p] = TRUE] /\ Answer(p, <<>>)
    BY <1>1, <1>2, <1>4, <2>1, CallOffered DEF HandleInitiate
  <2>2. CASE Answer(p, <<"terminate">>) /\ UNCHANGED <<callState, voice>>
    BY <1>1, <1>2, <1>4, <2>2, CallRefused DEF HandleInitiate
  <2> QED  BY <1>4, <2>1, <2>2 DEF HandleInitiate
<1>5. CASE HandleUnknown(p)
  BY <1>1, <1>2, <1>5, StanzaSkipped DEF HandleUnknown, Live
<1>6. CASE HandleAccept(p)
  BY <1>1, <1>2, <1>6, AcceptTaken, CallGivenUp, StanzaSkipped DEF HandleAccept
<1>7. CASE HandleTerminate(p)
  BY <1>1, <1>7, TerminateHandled
<1>8. CASE HandleAck(p)
  BY <1>1, <1>8, AckHandled
<1>9. CASE HandleContentAdd(p)
  BY <1>1, <1>2, <1>9, StanzaSkipped, ContentTaken, ContentRefused DEF HandleContentAdd
<1>10. CASE HandleContentAccept(p)
  BY <1>1, <1>2, <1>10, ContentAnswered DEF HandleContentAccept
<1>11. CASE HandleContentReject(p)
  BY <1>1, <1>2, <1>11, StanzaSkipped DEF HandleContentReject
<1>12. CASE HandleUnavailable(p)
  BY <1>1, <1>2, <1>12, CallGivenUp, StanzaSkipped DEF HandleUnavailable
<1> QED
  BY <1>4, <1>5, <1>6, <1>7, <1>8, <1>9, <1>10, <1>11, <1>12 DEF ReceiveStanza

\* A step of anything else keeps it.
LEMMA StutterCall == CallInv /\ UNCHANGED callVars => CallInv'
BY DEF callVars, CallInv, Types, Limits, Off, Fresh, Route, Final, Accepted, Media, Counts,
       Claims, Done, Prospect, Talking, Caller, Callee, ToCaller, ToCallee, Live

\* Every step keeps the invariant.
LEMMA NextCall == CallInv /\ [CallNext]_callVars => CallInv'
<1> SUFFICES ASSUME CallInv, [CallNext]_callVars PROVE CallInv'
  OBVIOUS
<1>1. CASE Invite
  BY <1>1, InviteKeeps
<1>2. CASE AcceptCall
  BY <1>2, AcceptCallKeeps
<1>3. ASSUME NEW p \in Party,
             \/ Hangup(p) \/ ForcedEnd(p) \/ StartVideo(p)
             \/ ReceiveStanza(p) \/ DropLine(p) \/ Reconnect(p)
      PROVE  CallInv'
  BY <1>3, HangupKeeps, ForcedEndKeeps, StartVideoKeeps, StanzaTaken, DropLineKeeps,
     ReconnectKeeps
<1>4. CASE UNCHANGED callVars
  BY <1>4, StutterCall
<1> QED  BY <1>1, <1>2, <1>3, <1>4 DEF CallNext

\* The inductive invariant holds in every reachable state.
THEOREM CallInvariant == CallSpec => []CallInv
BY InitCall, NextCall, PTL DEF CallSpec

\* Every reachable state of a call has the stated types; no party waits for
\* more than two acknowledgements, and one that disconnects has a timer running.
THEOREM CallTypeCorrect == CallSpec => []CallTypeOK
<1>1. CallInv => CallTypeOK
  BY DEF CallInv, Types, Limits, CallTypeOK
<1> QED  BY <1>1, CallInvariant, PTL

\* When no stanza, timer or lost connection is outstanding the two parties of a
\* call both talk or neither does, and if they talk they have each other's media,
\* whatever hangups, acceptances and losses crossed on the way
\* (QXmppCallPrivate::terminate, handleRequest, handleAck).
THEOREM CallEndsTogether == CallSpec => []PartiesAgree
<1>1. CallInv => PartiesAgree
  <2> SUFFICES ASSUME CallInv, CallSettled PROVE
        /\ callState["caller"] = "active" <=> callState["callee"] = "active"
        /\ callState["caller"] = "active" =>
              /\ \A p \in Party : voice[p]
              /\ webcam["caller"] = "described" <=> webcam["callee"] = "described"
    BY DEF PartiesAgree
  <2>1. ToCaller = <<>> /\ ToCallee = <<>> /\ forced["caller"] = 0 /\ online["caller"]
    BY DEF CallSettled, Party, ToCaller, ToCallee
  <2>2. \A x : ~Carries(<<>>, x)
    BY QueueFacts
  <2>3. Harmless(<<>>)
    BY QueueFacts
  <2>4. Caller = "active" <=> Callee = "active"
    <3>1. Caller = "active" => Talking
      BY <2>1, <2>3 DEF Talking
    <3>2. Callee = "active" => Prospect
      BY <2>1, <2>3 DEF Prospect
    <3>3. ASSUME Caller = "active" PROVE Callee = "active"
      BY <3>1, <3>3 DEF CallInv, Types, Accepted, Over, Party, Callee
    <3>4. ASSUME Callee = "active" PROVE Caller = "active"
      BY <2>1, <2>2, <3>2, <3>4 DEF CallInv, Types, Accepted, Final, Fresh, Over, Party, Caller
    <3> QED  BY <3>3, <3>4
  <2>5. ASSUME Caller = "active" PROVE \A p \in Party : voice[p]
    BY <2>4, <2>5 DEF CallInv, Media, Party
  <2>6. ASSUME Caller = "active"
        PROVE  webcam["caller"] = "described" <=> webcam["callee"] = "described"
    BY <2>1, <2>2, <2>3, <2>4, <2>6 DEF CallInv, Media, Party, Peer, ToCaller, ToCallee
  <2> QED  BY <2>4, <2>5, <2>6 DEF Caller, Callee
<1> QED  BY <1>1, CallInvariant, PTL

-----------------------------------------------------------------------------
(* Ice.                                                                    *)

\* What has been found of a pair is so: what was read has come through, and
\* what was answered has been read by the other agent.
Justified(a, c, p) ==
    /\ "read" \in checked[a][c][p] => OtherAgent(a) \in reaches[p]
    /\ "write" \in checked[a][c][p] => "read" \in checked[OtherAgent(a)][c][p]

AllJustified == \A a \in Agent, c \in Components, p \in Path : Justified(a, c, p)

\* An answer is only on its way from an agent that has read a request.
AnswersJustified ==
    \A a \in Agent, c \in Components, p \in Path :
        <<a, c, p, "response">> \in datagrams => "read" \in checked[a][c][p]

\* A pair is only used when both ways have been found.
ActiveChecked ==
    \A a \in Agent, c \in Components : activePair[a][c] # 0 =>
        checked[a][c][activePair[a][c]] = BothWays

Clocks ==
    /\ checking \in [Agent -> [Components -> BOOLEAN]]
    /\ connectTimer \in [Agent -> BOOLEAN]

PairsTyped ==
    /\ reaches \in [Path -> SUBSET Agent]
    /\ checked \in [Agent -> [Components -> [Path -> SUBSET BothWays]]]
    /\ activePair \in [Agent -> [Components -> 0..Paths]]
FallbackTyped == fallbackPair \in [Agent -> [Components -> 0..Paths]]

Network ==
    /\ datagrams \subseteq Agent \X Components \X Path \X Kinds

Switches == remoteUser \in [Agent -> BOOLEAN] /\ socketsOpen \in [Agent -> BOOLEAN]

IceInv ==
    /\ Clocks /\ PairsTyped /\ FallbackTyped /\ Network /\ Switches
    /\ AllJustified /\ AnswersJustified /\ ActiveChecked

-----------------------------------------------------------------------------
LEMMA Agents ==
  ASSUME NEW a \in Agent
  PROVE  /\ OtherAgent(a) \in Agent /\ OtherAgent(a) # a
         /\ OtherAgent(OtherAgent(a)) = a
         /\ \A b \in Agent : b = a \/ b = OtherAgent(a)
  BY DEF Agent, OtherAgent

LEMMA InitInv == IceInit => IceInv
<1> SUFFICES ASSUME IceInit PROVE IceInv
  OBVIOUS
<1>1. Clocks /\ Switches /\ Network
  BY DEF IceInit, Clocks, Switches, Network
<1>2. \A a \in Agent, c \in Components, p \in Path : checked[a][c][p] = {}
  BY DEF IceInit
<1>3. \A a \in Agent, c \in Components : activePair[a][c] = 0
  BY DEF IceInit
<1>4. PairsTyped /\ FallbackTyped
  BY PathsAssumption DEF IceInit, PairsTyped, FallbackTyped
<1>5. AllJustified /\ AnswersJustified /\ ActiveChecked
  BY <1>2, <1>3 DEF AllJustified, Justified, AnswersJustified, ActiveChecked, IceInit
<1>6. QED
  BY <1>1, <1>4, <1>5 DEF IceInv

\* What Found does to the tables, entry by entry.
LEMMA FoundEntries ==
  ASSUME IceInv, NEW a \in Agent, NEW c \in Components, NEW p \in Path,
         NEW ways \in SUBSET BothWays, Found(a, c, p, ways)
  PROVE  /\ Clocks'
         /\ checked' \in [Agent -> [Components -> [Path -> SUBSET BothWays]]]
         /\ activePair' \in [Agent -> [Components -> 0..Paths]]
         /\ checked'[a][c][p] = checked[a][c][p] \cup ways
         /\ \A b \in Agent, d \in Components, q \in Path :
               b # a \/ d # c \/ q # p => checked'[b][d][q] = checked[b][d][q]
         /\ \A b \in Agent, d \in Components :
               \/ activePair'[b][d] = activePair[b][d]
               \/ /\ b = a /\ d = c /\ activePair'[b][d] = p
                  /\ checked'[a][c][p] = BothWays
<1> DEFINE known == checked[a][c][p] \cup ways
           complete == known = BothWays
           better == complete /\ p > activePair[a][c]
           settled == \A d \in Components \ {c} : activePair[a][d] # 0
<1>1. /\ checked' = [checked EXCEPT ![a][c][p] = known]
      /\ checking' = [checking EXCEPT ![a][c] = checking[a][c] /\ ~complete]
      /\ activePair' = [activePair EXCEPT ![a][c] = IF better THEN p ELSE activePair[a][c]]
      /\ connectTimer' = [connectTimer EXCEPT ![a] = connectTimer[a] /\ ~(better /\ settled)]
  BY Zenon DEF Found
<1>2. known \in SUBSET BothWays
  BY DEF IceInv, PairsTyped
<1>3. PICK mark \in 0..Paths : /\ activePair' = [activePair EXCEPT ![a][c] = mark]
                               /\ mark = activePair[a][c] \/ (mark = p /\ known = BothWays)
  <2>1. p \in 0..Paths /\ activePair[a][c] \in 0..Paths
    BY PathsAssumption DEF Path, IceInv, PairsTyped
  <2>2. QED
    BY <1>1, <2>1
<1>4. PICK x \in BOOLEAN, y \in BOOLEAN :
         /\ checking' = [checking EXCEPT ![a][c] = x]
         /\ connectTimer' = [connectTimer EXCEPT ![a] = y]
  <2>1. (checking[a][c] /\ ~complete) \in BOOLEAN
        /\ (connectTimer[a] /\ ~(better /\ settled)) \in BOOLEAN
    BY Zenon
  <2> HIDE DEF complete, better, settled, known
  <2>2. QED
    BY <1>1, <2>1, Zenon
<1>5. Clocks'
  BY <1>4 DEF IceInv, Clocks
<1> HIDE DEF known, complete, better, settled
<1>6. /\ checked' \in [Agent -> [Components -> [Path -> SUBSET BothWays]]]
      /\ checked'[a][c][p] = known
      /\ \A b \in Agent, d \in Components, q \in Path :
            b # a \/ d # c \/ q # p => checked'[b][d][q] = checked[b][d][q]
  BY <1>1, <1>2 DEF IceInv, PairsTyped
<1>7. activePair' \in [Agent -> [Components -> 0..Paths]]
  BY <1>3 DEF IceInv, PairsTyped
<1>8. ASSUME NEW b \in Agent, NEW d \in Components
      PROVE  activePair'[b][d] = IF b = a /\ d = c THEN mark ELSE activePair[b][d]
  BY <1>3 DEF IceInv, PairsTyped
<1>9. QED
  BY <1>3, <1>5, <1>6, <1>7, <1>8 DEF known

\* What is found is justified when what is read has come through, and what is
\* answered has been read at the other end.
LEMMA FoundKept ==
  ASSUME IceInv, NEW a \in Agent, NEW c \in Components, NEW p \in Path,
         NEW ways \in SUBSET BothWays, Found(a, c, p, ways),
         UNCHANGED <<reaches, remoteUser, socketsOpen, fallbackPair>>,
         "read" \in ways => OtherAgent(a) \in reaches[p],
         "write" \in ways => "read" \in checked[OtherAgent(a)][c][p],
         datagrams' \subseteq Agent \X Components \X Path \X Kinds,
         \A b \in Agent, d \in Components, q \in Path :
            <<b, d, q, "response">> \in datagrams' =>
               \/ <<b, d, q, "response">> \in datagrams
               \/ b = a /\ d = c /\ q = p /\ "read" \in ways
  PROVE  IceInv'
<1>1. /\ Clocks'
      /\ checked' \in [Agent -> [Components -> [Path -> SUBSET BothWays]]]
      /\ activePair' \in [Agent -> [Components -> 0..Paths]]
      /\ checked'[a][c][p] = checked[a][c][p] \cup ways
      /\ \A b \in Agent, d \in Components, q \in Path :
            b # a \/ d # c \/ q # p => checked'[b][d][q] = checked[b][d][q]
      /\ \A b \in Agent, d \in Components :
            \/ activePair'[b][d] = activePair[b][d]
            \/ /\ b = a /\ d = c /\ activePair'[b][d] = p
               /\ checked'[a][c][p] = BothWays
  BY FoundEntries
<1>2. ASSUME NEW b \in Agent, NEW d \in Components, NEW q \in Path
      PROVE  checked[b][d][q] \subseteq checked'[b][d][q]
  <2>1. CASE b = a /\ d = c /\ q = p
    BY <1>1, <2>1
  <2>2. CASE b # a \/ d # c \/ q # p
    BY <1>1, <2>2
  <2>3. QED
    BY <2>1, <2>2
<1>3. PairsTyped' /\ FallbackTyped' /\ Network' /\ Switches'
  BY <1>1 DEF IceInv, PairsTyped, FallbackTyped, Network, Switches
<1>4. AllJustified'
  <2>1. ASSUME NEW b \in Agent, NEW d \in Components, NEW q \in Path
        PROVE  Justified(b, d, q)'
    <3>1. Justified(b, d, q) /\ OtherAgent(b) \in Agent
      BY Agents DEF IceInv, AllJustified
    <3>2. checked[OtherAgent(b)][d][q] \subseteq checked'[OtherAgent(b)][d][q]
      BY <1>2, <3>1
    <3>3. CASE b = a /\ d = c /\ q = p
      BY <1>1, <3>1, <3>2, <3>3 DEF Justified
    <3>4. CASE b # a \/ d # c \/ q # p
      BY <1>1, <3>1, <3>2, <3>4 DEF Justified
    <3>5. QED
      BY <3>3, <3>4
  <2>2. QED
    BY <2>1 DEF AllJustified
<1>5. AnswersJustified'
  <2>1. ASSUME NEW b \in Agent, NEW d \in Components, NEW q \in Path,
               <<b, d, q, "response">> \in datagrams'
        PROVE  "read" \in checked'[b][d][q]
    <3>1. CASE <<b, d, q, "response">> \in datagrams
      BY <1>2, <3>1 DEF IceInv, AnswersJustified
    <3>2. CASE b = a /\ d = c /\ q = p /\ "read" \in ways
      BY <1>1, <3>2
    <3>3. QED
      BY <2>1, <3>1, <3>2
  <2>2. QED
    BY <2>1 DEF AnswersJustified
<1>6. ActiveChecked'
  <2>1. ASSUME NEW b \in Agent, NEW d \in Components, activePair'[b][d] # 0
        PROVE  checked'[b][d][activePair'[b][d]] = BothWays
    <3>1. CASE activePair'[b][d] = activePair[b][d]
      <4>1. activePair[b][d] \in Path /\ checked[b][d][activePair[b][d]] = BothWays
        BY <2>1, <3>1, PathsAssumption DEF IceInv, ActiveChecked, PairsTyped, Path
      <4>2. checked'[b][d][activePair[b][d]] \in SUBSET BothWays
        BY <1>1, <4>1
      <4>3. QED
        BY <1>2, <3>1, <4>1, <4>2
    <3>2. QED
      BY <1>1, <3>1
  <2>2. QED
    BY <2>1 DEF ActiveChecked
<1>7. QED
  BY <1>1, <1>3, <1>4, <1>5, <1>6 DEF IceInv

\* Requests are not answers.
LEMMA RequestsOnly ==
  ASSUME NEW a \in Agent, NEW cs \in SUBSET Components
  PROVE  /\ Requests(a, cs) \subseteq Agent \X Components \X Path \X Kinds
         /\ \A d \in Requests(a, cs) : d[4] = "request"
  BY DEF Requests, Kinds

\* What adds no answer to the datagrams and finds out nothing.
LEMMA AskingKept ==
  ASSUME IceInv, NEW sent \in SUBSET (Agent \X Components \X Path \X Kinds),
         \A d \in sent : d[4] # "response",
         datagrams' = datagrams \cup sent,
         UNCHANGED <<reaches, checked, activePair>>, Clocks', Switches', FallbackTyped'
  PROVE  IceInv'
<1>1. Network' /\ PairsTyped'
  BY DEF IceInv, Network, PairsTyped
<1>2. AnswersJustified'
  <2>1. ASSUME NEW b \in Agent, NEW d \in Components, NEW q \in Path,
               <<b, d, q, "response">> \in datagrams'
        PROVE  <<b, d, q, "response">> \in datagrams
    BY <2>1
  <2>2. QED
    BY <2>1 DEF IceInv, AnswersJustified
<1>3. AllJustified' /\ ActiveChecked'
  BY DEF IceInv, AllJustified, Justified, ActiveChecked
<1>4. QED
  BY <1>1, <1>2, <1>3 DEF IceInv

LEMMA BeginKept ==
  ASSUME IceInv, NEW a \in Agent, BeginChecks(a)
  PROVE  IceInv'
<1> DEFINE begun == {c \in Components : activePair[a][c] = 0}
<1>1. /\ remoteUser' = [remoteUser EXCEPT ![a] = TRUE]
      /\ connectTimer' = [connectTimer EXCEPT ![a] = TRUE]
      /\ checking' = [checking EXCEPT ![a] = [c \in Components |-> c \in begun \/ checking[a][c]]]
      /\ datagrams' = datagrams \cup Requests(a, begun)
      /\ UNCHANGED <<reaches, checked, activePair, socketsOpen>>
  BY DEF BeginChecks
<1>2. begun \in SUBSET Components
  OBVIOUS
<1> HIDE DEF begun
<1>3. [c \in Components |-> c \in begun \/ checking[a][c]] \in [Components -> BOOLEAN]
  BY Zenon
<1>4. Clocks' /\ Switches'
  BY <1>1, <1>3 DEF IceInv, Clocks, Switches
<1>5. FallbackTyped'
  <2>1. PICK first \in [Components -> 0..Paths] :
           fallbackPair' = [fallbackPair EXCEPT ![a] =
              [c \in Components |->
                  IF fallbackPair[a][c] = 0 THEN first[c] ELSE fallbackPair[a][c]]]
    BY DEF BeginChecks
  <2>2. fallbackPair[a] \in [Components -> 0..Paths]
    BY DEF IceInv, FallbackTyped
  <2>3. [c \in Components |-> IF fallbackPair[a][c] = 0 THEN first[c] ELSE fallbackPair[a][c]]
           \in [Components -> 0..Paths]
    BY <2>2
  <2>4. QED
    BY <2>1, <2>3 DEF IceInv, FallbackTyped
<1>6. QED
  BY <1>1, <1>2, <1>4, <1>5, RequestsOnly, AskingKept

LEMMA CheckKept ==
  ASSUME IceInv, NEW a \in Agent, NEW c \in Components, CheckCandidates(a, c)
  PROVE  IceInv'
<1>1. {c} \in SUBSET Components /\ datagrams' = datagrams \cup Requests(a, {c})
      /\ UNCHANGED <<reaches, checked, activePair>>
  BY DEF CheckCandidates
<1>2. Clocks' /\ Switches' /\ FallbackTyped'
  BY DEF CheckCandidates, IceInv, Clocks, Switches, FallbackTyped
<1>3. QED
  BY <1>1, <1>2, RequestsOnly, AskingKept

LEMMA SendKept ==
  ASSUME IceInv, NEW a \in Agent, NEW c \in Components, SendDatagram(a, c)
  PROVE  IceInv'
<1>1. /\ MediaPair(a, c) # 0
      /\ datagrams' = datagrams \cup {<<a, c, MediaPair(a, c), "data">>}
      /\ UNCHANGED <<reaches, checked, activePair>>
  BY DEF SendDatagram
<1>2. activePair[a][c] \in 0..Paths /\ fallbackPair[a][c] \in 0..Paths
  BY DEF IceInv, PairsTyped, FallbackTyped
<1>3. MediaPair(a, c) \in Path
  BY <1>1, <1>2, PathsAssumption DEF MediaPair, Path
<1> DEFINE sent == {<<a, c, MediaPair(a, c), "data">>}
<1>4. /\ sent \in SUBSET (Agent \X Components \X Path \X Kinds)
      /\ \A d \in sent : d[4] # "response"
  BY <1>3 DEF Kinds
<1>5. Clocks' /\ Switches' /\ FallbackTyped'
  BY DEF SendDatagram, IceInv, Clocks, Switches, FallbackTyped
<1>6. datagrams' = datagrams \cup sent
  BY <1>1
<1> HIDE DEF sent
<1>7. QED
  BY <1>1, <1>4, <1>5, <1>6, AskingKept

LEMMA DataKept ==
  ASSUME IceInv, NEW a \in Agent, NEW c \in Components, NEW p \in Path,
         HandleData(a, c, p)
  PROVE  IceInv'
<1>1. /\ UNCHANGED <<reaches, remoteUser, socketsOpen, checking, checked, activePair,
                     connectTimer, datagrams>>
      /\ \/ \E q \in Path : fallbackPair' = [fallbackPair EXCEPT ![a][c] = q]
         \/ UNCHANGED fallbackPair
  BY DEF HandleData, Arrives
<1>2. Path \subseteq 0..Paths
  BY PathsAssumption DEF Path
<1>3. FallbackTyped'
  BY <1>1, <1>2 DEF IceInv, FallbackTyped
<1>4. QED
  BY <1>1, <1>3 DEF IceInv, Clocks, PairsTyped, Network, Switches, AllJustified, Justified,
     AnswersJustified, ActiveChecked

LEMMA RequestKept ==
  ASSUME IceInv, NEW a \in Agent, NEW c \in Components, NEW p \in Path,
         HandleRequest(a, c, p)
  PROVE  IceInv'
<1>1. /\ OtherAgent(a) \in reaches[p] /\ Found(a, c, p, {"read"})
      /\ UNCHANGED <<reaches, remoteUser, socketsOpen, fallbackPair>>
      /\ datagrams' \subseteq datagrams \cup
            {<<a, c, p, "response">>, <<a, c, p, "request">>}
  BY DEF HandleRequest, Arrives
<1>2. {"read"} \in SUBSET BothWays
  BY DEF BothWays
<1>3. datagrams' \subseteq Agent \X Components \X Path \X Kinds
  BY <1>1 DEF IceInv, Network, Kinds
<1>4. \A b \in Agent, d \in Components, q \in Path :
         <<b, d, q, "response">> \in datagrams' =>
            \/ <<b, d, q, "response">> \in datagrams
            \/ b = a /\ d = c /\ q = p
  BY <1>1
<1>5. QED
  BY <1>1, <1>2, <1>3, <1>4, FoundKept

LEMMA ResponseKept ==
  ASSUME IceInv, NEW a \in Agent, NEW c \in Components, NEW p \in Path,
         HandleResponse(a, c, p)
  PROVE  IceInv'
<1>1. /\ <<OtherAgent(a), c, p, "response">> \in datagrams
      /\ Found(a, c, p, {"write"})
      /\ UNCHANGED <<reaches, remoteUser, socketsOpen, fallbackPair, datagrams>>
  BY DEF HandleResponse, Arrives
<1>2. {"write"} \in SUBSET BothWays
  BY DEF BothWays
<1>3. "read" \in checked[OtherAgent(a)][c][p]
  BY <1>1, Agents DEF IceInv, AnswersJustified
<1>4. datagrams' \subseteq Agent \X Components \X Path \X Kinds
  BY <1>1 DEF IceInv, Network
<1>5. QED
  BY <1>1, <1>2, <1>3, <1>4, FoundKept

\* A closed connection takes nothing back of what is known.
LEMMA EndKept ==
  ASSUME IceInv, NEW a \in Agent, CloseComponents(a)
  PROVE  IceInv'
<1>1. /\ socketsOpen' = [socketsOpen EXCEPT ![a] = FALSE]
      /\ checking' = [checking EXCEPT ![a] = [c \in Components |-> FALSE]]
      /\ activePair' = [activePair EXCEPT ![a] = [c \in Components |-> 0]]
      /\ connectTimer' = [connectTimer EXCEPT ![a] = FALSE]
      /\ UNCHANGED <<reaches, remoteUser, checked, fallbackPair, datagrams>>
  BY DEF CloseComponents
<1>2. Clocks' /\ Switches' /\ Network' /\ FallbackTyped'
  BY <1>1 DEF IceInv, Clocks, Switches, Network, FallbackTyped
<1>3. PairsTyped' /\ \A b \in Agent, c \in Components :
                  activePair'[b][c] = 0 \/ activePair'[b][c] = activePair[b][c]
  BY <1>1, PathsAssumption DEF IceInv, PairsTyped
<1>4. AllJustified' /\ AnswersJustified' /\ ActiveChecked'
  BY <1>1, <1>3 DEF IceInv, AllJustified, Justified, AnswersJustified, ActiveChecked
<1>5. QED
  BY <1>2, <1>3, <1>4 DEF IceInv

LEMMA IceKept == IceInv /\ [IceNext]_iceVars => IceInv'
<1>1. ASSUME IceInv, UNCHANGED iceVars PROVE IceInv'
  BY <1>1 DEF iceVars, IceInv, Clocks, PairsTyped, FallbackTyped, Network, Switches,
     AllJustified, Justified, AnswersJustified, ActiveChecked
<1>2. ASSUME IceInv, IceNext PROVE IceInv'
  <2>1. ASSUME NEW a \in Agent, BeginChecks(a) \/ IceTimeout(a) \/ IceClose(a)
        PROVE  IceInv'
    BY <1>2, <2>1, BeginKept, EndKept DEF IceTimeout, IceClose
  <2>2. ASSUME NEW a \in Agent, NEW c \in Components,
               \/ CheckCandidates(a, c) \/ SendDatagram(a, c)
               \/ \E p \in Path :
                     HandleRequest(a, c, p) \/ HandleResponse(a, c, p) \/ HandleData(a, c, p)
        PROVE  IceInv'
    BY <1>2, <2>2, CheckKept, SendKept, RequestKept, ResponseKept, DataKept
  <2>3. QED
    BY <1>2, <2>1, <2>2 DEF IceNext
<1>3. QED
  BY <1>1, <1>2

\* Whatever the network does, the inductive invariant holds ...
THEOREM IceInvariant == IceSpec => []IceInv
  BY InitInv, IceKept, PTL DEF IceSpec

\* ... hence the types, and that only pairs found to work are selected ...
THEOREM IceTypeCorrect == IceSpec => []IceTypeOK
<1>1. IceInv => IceTypeOK
  BY DEF IceInv, Clocks, PairsTyped, FallbackTyped, Network, Switches, ActiveChecked, IceTypeOK
<1>2. QED
  BY <1>1, IceInvariant, PTL

\* ... and once the checks have selected a pair, sendDatagram takes one that
\* lets datagrams through in both directions, and of which the other agent has
\* seen the request too, whatever media has made of the pair to fall back on.
THEOREM PathsWork == IceSpec => []PathWorks
<1>1. ASSUME IceInv PROVE PathWorks
  <2>1. ASSUME NEW a \in Agent, NEW c \in Components, activePair[a][c] # 0
        PROVE  /\ reaches[MediaPair(a, c)] = Agent
               /\ "read" \in checked[OtherAgent(a)][c][MediaPair(a, c)]
    <3> DEFINE p == MediaPair(a, c)
    <3>1. p \in Path /\ checked[a][c][p] = BothWays
      BY <1>1, <2>1, PathsAssumption DEF MediaPair, IceInv, PairsTyped, ActiveChecked, Path
    <3> HIDE DEF p
    <3>2. Justified(a, c, p) /\ Justified(OtherAgent(a), c, p)
      BY <1>1, <3>1, Agents DEF IceInv, AllJustified
    <3>3. "read" \in checked[OtherAgent(a)][c][p] /\ OtherAgent(a) \in reaches[p]
      BY <3>1, <3>2 DEF Justified, BothWays
    <3>4. a \in reaches[p]
      BY <3>2, <3>3, Agents DEF Justified
    <3>5. reaches[p] = Agent
      <4>1. reaches[p] \in SUBSET Agent
        BY <1>1, <3>1 DEF IceInv, PairsTyped
      <4>2. Agent = {a, OtherAgent(a)}
        BY Agents
      <4>3. QED
        BY <3>3, <3>4, <4>1, <4>2
    <3>6. QED
      BY <3>3, <3>5 DEF p
  <2>2. QED
    BY <2>1 DEF PathWorks
<1>2. QED
  BY <1>1, IceInvariant, PTL

-----------------------------------------------------------------------------
(* Turn.                                                                   *)

\* While the allocation comes up or goes down its request is the only one.
Phases ==
    /\ allocation = "connecting" => \E t \in transactions :
          transactions = {t} /\ t.method = "allocate"
    /\ allocation = "closing" => \E t \in transactions :
          transactions = {t} /\ t.method = "release"
    /\ allocation \in {"unconnected", "connected"} =>
          \A t \in transactions : t.method \in {"refresh", "bind"}

\* Nothing is refreshed or bound before the allocation is there, nor after
\* its release has begun.
NoEarlyChannels ==
    allocation \in {"connecting", "closing"} \/ gathered = {} =>
        channels = {} /\ ~channelTimer /\ ~refreshTimer
NotGathered == gathered = {} => allocation = "unconnected" /\ transactions = {}

\* The timer that refreshes the channels runs as long as there are any.
ChannelsRefreshed == channels # {} => channelTimer

\* A channel is bound after it was given to an address.
BindsGiven ==
    \A t \in transactions : t.method = "bind" => t.channel \in DOMAIN remoteOf

Orderly ==
    Phases /\ NoEarlyChannels /\ NotGathered /\ ChannelsRefreshed /\ BindsGiven

\* The inductive invariant.
TurnInv == TurnTypeOK /\ Orderly /\ ChannelsBacked

TurnState ==
    /\ allocation \in {"unconnected", "connecting", "connected", "closing"}
    /\ transactions \subseteq Transaction
    /\ credentials \in BOOLEAN
    /\ refreshTimer \in BOOLEAN /\ channelTimer \in BOOLEAN /\ leased \in BOOLEAN
    /\ gathered \subseteq {"host", "reflexive", "relayed"}

TurnMaps ==
    /\ remoteOf \in Seq(Remotes) /\ Len(remoteOf) <= MaxChannels
    /\ channels \subseteq DOMAIN remoteOf /\ bound \subseteq DOMAIN remoteOf

StunState ==
    /\ stunTimer \in BOOLEAN /\ stunTries \in 0..(MaxStunTries + 1)
    /\ relayOpen \in BOOLEAN

LEMMA TurnTypeParts ==
  TurnTypeOK <=> /\ TurnState /\ TurnMaps /\ StunState
                 /\ (allocation \in {"connecting", "closing"} => transactions # {})
BY DEF TurnTypeOK, TurnState, TurnMaps, StunState

USE DEF turnVars, gatherVars, serverVars, turnRest

LEMMA RequestIsTransaction ==
  ASSUME NEW kind \in {"allocate", "refresh", "release", "bind"},
         NEW n \in 0..MaxChannels, credentials \in BOOLEAN
  PROVE  /\ Request(kind, n) \in Transaction
         /\ Request(kind, n).method = kind /\ Request(kind, n).channel = n
BY TriesAssumption DEF Request, Transaction

LEMMA RepeatedIsTransaction ==
  ASSUME NEW t \in Transaction, NEW s \in BOOLEAN, NEW k \in 1..MaxTries
  PROVE  /\ Repeated(t, s, k) \in Transaction
         /\ Repeated(t, s, k).method = t.method /\ Repeated(t, s, k).channel = t.channel
BY TriesAssumption DEF Repeated, Transaction

LEMMA InitTurn == TurnInit => TurnInv
<1> SUFFICES ASSUME TurnInit PROVE TurnInv
  OBVIOUS
<1>1. TurnMaps
  <2>1. remoteOf = <<>> /\ channels = {} /\ bound = {}
    BY DEF TurnInit
  <2>2. <<>> \in Seq(Remotes) /\ Len(<<>>) = 0 /\ MaxChannels \in Nat
    BY TriesAssumption
  <2>3. QED
    BY <2>1, <2>2 DEF TurnMaps
<1>2. TurnState /\ StunState /\ allocation = "unconnected"
  <2>1. stunTries \in 0..(MaxStunTries + 1)
    BY TriesAssumption DEF TurnInit
  <2>2. QED
    BY <2>1 DEF TurnInit, TurnState, StunState
<1>3. TurnTypeOK
  BY <1>1, <1>2, TurnTypeParts
<1>4. Orderly /\ ChannelsBacked
  BY DEF TurnInit, Orderly, BindsGiven, Phases, NoEarlyChannels, NotGathered, ChannelsRefreshed, ChannelsBacked
<1>5. QED
  BY <1>3, <1>4 DEF TurnInv

-----------------------------------------------------------------------------
(* Each action keeps the invariant.                                        *)

\* What most actions leave alone.
LEMMA GatherKept ==
  ASSUME TurnInv, SetSockets \/ CheckStun \/ StunAnswer
  PROVE  TurnInv'
<1>1. StunState'
  <2>1. stunTries \in 0..(MaxStunTries + 1) /\ MaxStunTries \in Nat
    BY TriesAssumption DEF TurnInv, TurnTypeOK
  <2>2. \/ stunTries' = 1 \/ stunTries' = stunTries
        \/ (stunTries <= MaxStunTries /\ stunTries' = stunTries + 1)
    BY DEF SetSockets, CheckStun, StunAnswer
  <2>3. stunTries' \in 0..(MaxStunTries + 1)
    BY <2>1, <2>2
  <2>4. stunTimer' \in BOOLEAN /\ relayOpen' \in BOOLEAN
    <3>1. CASE CheckStun
      <4>1. (stunTries <= MaxStunTries) \in BOOLEAN
        BY <2>1
      <4>2. QED
        BY <3>1, <4>1, Zenon DEF TurnInv, TurnTypeOK, CheckStun
    <3>2. CASE SetSockets \/ StunAnswer
      BY <3>2 DEF TurnInv, TurnTypeOK, SetSockets, StunAnswer
    <3>3. QED
      BY <3>1, <3>2
  <2>5. QED
    BY <2>3, <2>4 DEF StunState
<1>2. TurnMaps'
  BY DEF TurnInv, TurnTypeOK, TurnMaps, SetSockets, CheckStun, StunAnswer
<1>3. CASE SetSockets
  <2>1. Request("allocate", 0) \in Transaction /\ Request("allocate", 0).method = "allocate"
    BY RequestIsTransaction, TriesAssumption DEF TurnInv, TurnTypeOK
  <2>2. TurnState'
    BY <1>3, <2>1 DEF TurnInv, TurnTypeOK, TurnState, SetSockets
  <2>3. allocation' = "connecting" /\ transactions' = {Request("allocate", 0)}
        /\ gathered' = {"host"} /\ UNCHANGED <<channels, channelTimer, refreshTimer>>
    BY <1>3 DEF SetSockets
  <2>4. channels = {} /\ ~channelTimer /\ ~refreshTimer
    BY <1>3 DEF TurnInv, Orderly, NoEarlyChannels, SetSockets
  <2>5. TurnTypeOK'
    BY <1>1, <1>2, <2>2, <2>3 DEF TurnTypeOK, TurnState, TurnMaps, StunState
  <2>6. Orderly' /\ ChannelsBacked'
    BY <2>1, <2>3, <2>4 DEF Orderly, BindsGiven, Phases, NoEarlyChannels, NotGathered, ChannelsRefreshed, ChannelsBacked
  <2>7. QED
    BY <2>5, <2>6 DEF TurnInv
<1>4. CASE CheckStun \/ StunAnswer
  <2>1. UNCHANGED <<allocation, transactions, credentials, remoteOf, channels,
                    refreshTimer, channelTimer, leased, bound>>
        /\ (gathered' = gathered \/ gathered' = gathered \cup {"reflexive"})
    BY <1>4 DEF CheckStun, StunAnswer
  <2>2. TurnState' /\ TurnTypeOK'
    BY <1>1, <1>2, <2>1 DEF TurnInv, TurnTypeOK, TurnState, TurnMaps, StunState
  <2>3. Orderly' /\ ChannelsBacked'
    BY <2>1 DEF TurnInv, Orderly, BindsGiven, Phases, NoEarlyChannels, NotGathered, ChannelsRefreshed, ChannelsBacked
  <2>4. QED
    BY <2>2, <2>3 DEF TurnInv
<1>5. QED
  BY <1>3, <1>4

\* The server by itself.
LEMMA ServerKept ==
  ASSUME TurnInv,
         (\E t \in transactions : ServerGrants(t)) \/ Lapse
           \/ (\E n \in Channel : ChannelLapses(n))
  PROVE  TurnInv'
<1>1. UNCHANGED <<allocation, transactions, credentials, remoteOf, channels,
                  refreshTimer, channelTimer, stunTimer, stunTries, gathered, relayOpen>>
  BY DEF ServerGrants, Lapse, ChannelLapses
<1>2. bound' \subseteq DOMAIN remoteOf /\ leased' \in BOOLEAN
  <2>1. CASE \E t \in transactions : ServerGrants(t)
    BY <2>1 DEF TurnInv, TurnTypeOK, Orderly, BindsGiven, ServerGrants, Grants
  <2>2. QED
    BY <2>1 DEF TurnInv, TurnTypeOK, Lapse, ChannelLapses
<1>3. TurnTypeOK'
  BY <1>1, <1>2 DEF TurnInv, TurnTypeOK
<1>4. Orderly'
  BY <1>1 DEF TurnInv, Orderly, BindsGiven, Phases, NoEarlyChannels, NotGathered,
     ChannelsRefreshed
<1>5. ChannelsBacked'
  <2>1. CASE \E t \in transactions : ServerGrants(t)
    BY <1>1, <2>1 DEF TurnInv, Orderly, Phases, ServerGrants, Grants, ChannelsBacked
  <2>2. CASE Lapse
    BY <2>2 DEF Lapse, ChannelsBacked
  <2>3. CASE \E n \in Channel : ChannelLapses(n)
    BY <1>1, <2>3 DEF TurnInv, Orderly, ChannelsRefreshed, ChannelLapses, ChannelsBacked
  <2>4. QED
    BY <2>1, <2>2, <2>3
<1>6. QED
  BY <1>3, <1>4, <1>5 DEF TurnInv

\* The end of a transaction, or its next attempt.
LEMMA FinishedKept ==
  ASSUME TurnInv, NEW t \in transactions,
         ServerRefuses(t) \/ Challenged(t) \/ Granted(t) \/ RetryTransaction(t)
  PROVE  TurnInv'
<1>0. t \in Transaction /\ transactions \subseteq Transaction
  BY DEF TurnInv, TurnTypeOK
<1>1. CASE \E r \in Transaction :
              /\ r.method = t.method /\ r.channel = t.channel
              /\ transactions' = (transactions \ {t}) \cup {r}
              /\ credentials' \in BOOLEAN
              /\ UNCHANGED <<allocation, remoteOf, channels, refreshTimer, channelTimer,
                             serverVars, gatherVars>>
  <2>1. PICK r \in Transaction :
              /\ r.method = t.method /\ r.channel = t.channel
              /\ transactions' = (transactions \ {t}) \cup {r}
              /\ credentials' \in BOOLEAN
              /\ UNCHANGED <<allocation, remoteOf, channels, refreshTimer, channelTimer,
                             serverVars, gatherVars>>
    BY <1>1
  <2>2. TurnTypeOK'
    BY <1>0, <2>1 DEF TurnInv, TurnTypeOK
  <2>3. Orderly'
    BY <2>1 DEF TurnInv, Orderly, BindsGiven, Phases, NoEarlyChannels, NotGathered,
       ChannelsRefreshed
  <2>4. ChannelsBacked'
    BY <2>1 DEF TurnInv, ChannelsBacked
  <2>5. QED
    BY <2>2, <2>3, <2>4 DEF TurnInv
<1>2. CASE Granted(t)
  <2>1. transactions' = transactions \ {t} /\ Grants(t)
        /\ UNCHANGED <<credentials, remoteOf, channels, channelTimer, stunTimer, stunTries,
                       relayOpen>>
    BY <1>2 DEF Granted
  <2>2. bound' \subseteq DOMAIN remoteOf /\ leased' \in BOOLEAN
    BY <2>1 DEF TurnInv, TurnTypeOK, Orderly, BindsGiven, Grants
  <2>3. CASE t.method = "allocate"
    <3>1. allocation = "connecting" /\ transactions' = {} /\ channels = {} /\ ~channelTimer
      BY <2>1, <2>3 DEF TurnInv, TurnTypeOK, Orderly, Phases, NoEarlyChannels
    <3>2. allocation' = "connected" /\ refreshTimer' = TRUE
          /\ gathered' = gathered \cup {"relayed"}
      BY <1>2, <2>3 DEF Granted
    <3>3. QED
      BY <2>1, <2>2, <3>1, <3>2 DEF TurnInv, TurnTypeOK, Orderly, BindsGiven, Phases,
         NoEarlyChannels, NotGathered, ChannelsRefreshed, ChannelsBacked
  <2>4. CASE t.method = "release"
    <3>1. allocation = "closing" /\ transactions' = {} /\ channels = {} /\ ~channelTimer
      BY <2>1, <2>4 DEF TurnInv, TurnTypeOK, Orderly, Phases, NoEarlyChannels
    <3>2. allocation' = "unconnected" /\ refreshTimer' = FALSE /\ gathered' = gathered
      BY <1>2, <2>4 DEF Granted
    <3>3. QED
      BY <2>1, <2>2, <3>1, <3>2 DEF TurnInv, TurnTypeOK, Orderly, BindsGiven, Phases,
         NoEarlyChannels, NotGathered, ChannelsRefreshed, ChannelsBacked
  <2>5. CASE t.method \in {"bind", "refresh"}
    <3>1. allocation' = allocation /\ gathered' = gathered
          /\ (refreshTimer' = refreshTimer \/ refreshTimer' = TRUE)
      BY <1>2, <2>5 DEF Granted
    <3>2. allocation \in {"unconnected", "connected"} /\ gathered # {}
      BY <2>5 DEF TurnInv, TurnTypeOK, Orderly, Phases, NotGathered
    <3>3. TurnTypeOK' /\ Orderly'
      BY <2>1, <2>2, <3>1, <3>2 DEF TurnInv, TurnTypeOK, Orderly, BindsGiven, Phases,
         NoEarlyChannels, NotGathered, ChannelsRefreshed
    <3>4. ChannelsBacked'
      BY <2>1, <2>5, <3>1, <3>2 DEF TurnInv, ChannelsBacked, Grants
    <3>5. QED
      BY <3>3, <3>4 DEF TurnInv
  <2>6. QED
    BY <1>0, <2>3, <2>4, <2>5 DEF Transaction
<1>3. CASE Rejected(t) /\ UNCHANGED <<serverVars, stunTimer, stunTries, relayOpen>>
  <2>1. transactions' = transactions \ {t}
        /\ UNCHANGED <<credentials, remoteOf, gathered, serverVars, stunTimer, stunTries,
                       relayOpen>>
    BY <1>3 DEF Rejected
  <2>2. CASE BindRefused(t)
    <3>1. t.method = "bind" /\ channels' = channels \ {t.channel}
          /\ channelTimer' = (channelTimer /\ channels' # {})
          /\ UNCHANGED <<allocation, refreshTimer>>
      BY <2>2 DEF BindRefused
    <3>2. allocation \in {"unconnected", "connected"} /\ gathered # {}
      BY <3>1 DEF TurnInv, TurnTypeOK, Orderly, Phases, NotGathered
    <3>3. TurnTypeOK' /\ Orderly'
      BY <2>1, <3>1, <3>2 DEF TurnInv, TurnTypeOK, Orderly, BindsGiven, Phases,
         NoEarlyChannels, NotGathered, ChannelsRefreshed
    <3>4. ChannelsBacked'
      BY <2>1, <3>1 DEF TurnInv, ChannelsBacked
    <3>5. QED
      BY <3>3, <3>4 DEF TurnInv
  <2>3. CASE ~BindRefused(t)
    <3>1. t.method # "bind" /\ allocation' = "unconnected" /\ refreshTimer' = FALSE
          /\ UNCHANGED <<channels, channelTimer>>
      BY <1>3, <2>3 DEF Rejected
    <3>2. \A u \in transactions' : u.method \in {"refresh", "bind"}
      BY <1>0, <2>1 DEF TurnInv, TurnTypeOK, Orderly, Phases, Transaction
    <3>3. TurnTypeOK' /\ Orderly'
      BY <2>1, <3>1, <3>2 DEF TurnInv, TurnTypeOK, Orderly, BindsGiven, Phases,
         NoEarlyChannels, NotGathered, ChannelsRefreshed
    <3>4. ChannelsBacked'
      BY <3>1 DEF ChannelsBacked
    <3>5. QED
      BY <3>3, <3>4 DEF TurnInv
  <2>4. QED
    BY <2>2, <2>3
<1>4. CASE Challenged(t)
  <2>1. Repeated(t, TRUE, 1) \in Transaction /\ Repeated(t, TRUE, 1).method = t.method
        /\ Repeated(t, TRUE, 1).channel = t.channel
    <3>1. 1 \in 1..MaxTries
      BY TriesAssumption
    <3>2. QED
      BY <1>0, <3>1, RepeatedIsTransaction
  <2>2. QED
    BY <1>1, <1>4, <2>1 DEF Challenged
<1>5. CASE RetryTransaction(t) /\ t.tries < MaxTries
  <2>1. t.signed \in BOOLEAN /\ t.tries + 1 \in 1..MaxTries /\ t.tries # MaxTries
    BY <1>0, <1>5, TriesAssumption DEF Transaction
  <2>2. DEFINE r == Repeated(t, t.signed, t.tries + 1)
  <2>3. r \in Transaction /\ r.method = t.method /\ r.channel = t.channel
    BY <1>0, <2>1, RepeatedIsTransaction
  <2>4. /\ transactions' = (transactions \ {t}) \cup {r}
        /\ UNCHANGED <<allocation, credentials, remoteOf, channels, refreshTimer,
                       channelTimer, gathered, serverVars, stunTimer, stunTries, relayOpen>>
    BY <1>5, <2>1, Zenon DEF RetryTransaction, r
  <2>5. credentials' \in BOOLEAN
    BY <2>4 DEF TurnInv, TurnTypeOK
  <2>6. QED
    BY <1>1, <2>3, <2>4, <2>5
<1>6. QED
  BY <1>2, <1>3, <1>4, <1>5 DEF ServerRefuses, RetryTransaction

\* The client's own steps.
LEMMA ClientKept ==
  ASSUME TurnInv,
         \/ RefreshAllocation \/ RefreshChannels \/ CloseRelay
         \/ \E r \in Remotes : WriteDatagram(r)
  PROVE  TurnInv'
<1>1. CASE RefreshAllocation
  <2>1. Request("refresh", 0) \in Transaction /\ Request("refresh", 0).method = "refresh"
    BY RequestIsTransaction, TriesAssumption DEF TurnInv, TurnTypeOK
  <2>2. transactions' = transactions \cup {Request("refresh", 0)} /\ refreshTimer' = FALSE
        /\ UNCHANGED <<allocation, credentials, remoteOf, channels, channelTimer,
                       serverVars, gatherVars>>
    BY <1>1 DEF RefreshAllocation
  <2>3. allocation \in {"unconnected", "connected"} /\ gathered # {}
    BY <1>1 DEF TurnInv, TurnTypeOK, Orderly, NoEarlyChannels, RefreshAllocation
  <2>4. TurnTypeOK'
    BY <2>1, <2>2 DEF TurnInv, TurnTypeOK
  <2>5. Orderly' /\ ChannelsBacked'
    BY <2>1, <2>2, <2>3 DEF TurnInv, Orderly, BindsGiven, Phases, NoEarlyChannels, NotGathered,
       ChannelsRefreshed, ChannelsBacked
  <2>6. QED
    BY <2>4, <2>5 DEF TurnInv
<1>2. CASE RefreshChannels
  <2>1. \A n \in channels : /\ n \in 0..MaxChannels /\ n \in DOMAIN remoteOf
                            /\ Request("bind", n) \in Transaction
                            /\ Request("bind", n).method = "bind"
                            /\ Request("bind", n).channel = n
    <3> SUFFICES ASSUME NEW n \in channels
                 PROVE  /\ n \in 0..MaxChannels /\ n \in DOMAIN remoteOf
                        /\ Request("bind", n) \in Transaction
                        /\ Request("bind", n).method = "bind"
                        /\ Request("bind", n).channel = n
      OBVIOUS
    <3>1. n \in 0..MaxChannels /\ n \in DOMAIN remoteOf
      BY TriesAssumption DEF TurnInv, TurnTypeOK
    <3>2. QED
      BY <3>1, RequestIsTransaction DEF TurnInv, TurnTypeOK
  <2>2. transactions' = transactions \cup {Request("bind", n) : n \in channels}
        /\ UNCHANGED <<allocation, credentials, remoteOf, channels, refreshTimer,
                       channelTimer, serverVars, gatherVars>>
    BY <1>2 DEF RefreshChannels
  <2>3. allocation \in {"unconnected", "connected"} /\ gathered # {}
    BY <1>2 DEF TurnInv, TurnTypeOK, Orderly, NoEarlyChannels, RefreshChannels
  <2>4. TurnTypeOK'
    BY <2>1, <2>2 DEF TurnInv, TurnTypeOK
  <2>5. Orderly' /\ ChannelsBacked'
    BY <2>1, <2>2, <2>3 DEF TurnInv, Orderly, BindsGiven, Phases, NoEarlyChannels, NotGathered,
       ChannelsRefreshed, ChannelsBacked
  <2>6. QED
    BY <2>4, <2>5 DEF TurnInv
<1>3. CASE CloseRelay
  <2>1. Request("release", 0) \in Transaction /\ Request("release", 0).method = "release"
    BY RequestIsTransaction, TriesAssumption DEF TurnInv, TurnTypeOK
  <2>2. channels' = {} /\ channelTimer' = FALSE /\ refreshTimer' = FALSE
        /\ stunTimer' = FALSE /\ relayOpen' = FALSE
        /\ UNCHANGED <<credentials, remoteOf, leased, bound, stunTries, gathered>>
        /\ \/ /\ allocation = "connected"
              /\ allocation' = "closing" /\ transactions' = {Request("release", 0)}
           \/ allocation' = "unconnected" /\ transactions' = {}
    BY <1>3 DEF CloseRelay
  <2>3. TurnTypeOK'
    BY <2>1, <2>2 DEF TurnInv, TurnTypeOK
  <2>4. Orderly' /\ ChannelsBacked'
    BY <2>1, <2>2 DEF TurnInv, Orderly, BindsGiven, Phases, NoEarlyChannels, NotGathered,
       ChannelsRefreshed, ChannelsBacked
  <2>5. QED
    BY <2>3, <2>4 DEF TurnInv
<1>4. ASSUME NEW r \in Remotes, WriteDatagram(r) PROVE TurnInv'
  <2> DEFINE n == Len(remoteOf) + 1
  <2>1. n \in 0..MaxChannels /\ n \in 1..MaxChannels
    BY <1>4, TriesAssumption DEF TurnInv, TurnTypeOK, WriteDatagram
  <2>2. Request("bind", n) \in Transaction /\ Request("bind", n).method = "bind"
        /\ Request("bind", n).channel = n
    BY <2>1, RequestIsTransaction DEF TurnInv, TurnTypeOK
  <2>3. /\ allocation = "connected"
        /\ remoteOf' = Append(remoteOf, r) /\ channels' = channels \cup {n}
        /\ channelTimer' = TRUE /\ transactions' = transactions \cup {Request("bind", n)}
        /\ UNCHANGED <<allocation, credentials, refreshTimer, leased, bound, stunTimer,
                       stunTries, gathered, relayOpen>>
    BY <1>4 DEF WriteDatagram
  <2>4. /\ remoteOf' \in Seq(Remotes) /\ Len(remoteOf') = n
        /\ DOMAIN remoteOf' = DOMAIN remoteOf \cup {n}
    BY <1>4, <2>3 DEF TurnInv, TurnTypeOK
  <2>5. gathered # {}
    BY <2>3 DEF TurnInv, Orderly, NotGathered
  <2> HIDE DEF n
  <2>6. TurnTypeOK'
    BY <2>1, <2>2, <2>3, <2>4, TriesAssumption DEF TurnInv, TurnTypeOK
  <2>7. Orderly'
    BY <2>2, <2>3, <2>4, <2>5 DEF TurnInv, Orderly, BindsGiven, Phases, NoEarlyChannels,
       NotGathered, ChannelsRefreshed
  <2>8. ChannelsBacked'
    BY <2>2, <2>3 DEF TurnInv, ChannelsBacked
  <2>9. QED
    BY <2>6, <2>7, <2>8 DEF TurnInv
<1>5. QED
  BY <1>1, <1>2, <1>3, <1>4

LEMMA TurnKept ==
  ASSUME TurnInv, [TurnNext]_turnVars
  PROVE  TurnInv'
<1>1. CASE UNCHANGED turnVars
  BY <1>1 DEF TurnInv, TurnTypeOK, Orderly, BindsGiven, Phases, NoEarlyChannels, NotGathered,
     ChannelsRefreshed, ChannelsBacked
<1>2. CASE TurnNext
  <2>1. CASE \E t \in transactions : ServerGrants(t)
    BY <2>1, ServerKept
  <2>2. CASE \E t \in transactions : ServerRefuses(t) \/ Challenged(t) \/ Granted(t)
                                      \/ RetryTransaction(t)
    BY <2>2, FinishedKept
  <2>3. CASE Lapse \/ \E n \in Channel : ChannelLapses(n)
    BY <2>3, ServerKept
  <2>4. CASE SetSockets \/ CheckStun \/ StunAnswer
    BY <2>4, GatherKept
  <2>5. CASE RefreshAllocation \/ RefreshChannels \/ CloseRelay
               \/ \E r \in Remotes : WriteDatagram(r)
    BY <2>5, ClientKept
  <2>6. QED
    BY <1>2, <2>1, <2>2, <2>3, <2>4, <2>5 DEF TurnNext
<1>3. QED
  BY <1>1, <1>2

\* Whatever is granted, refused, lost, repeated or given up, the inductive
\* invariant holds ...
THEOREM TurnInvariant == TurnSpec => []TurnInv
  BY InitTurn, TurnKept, PTL DEF TurnSpec

\* ... hence type correctness: an allocation that is coming up or going down
\* always has a request that will decide it ...
THEOREM TurnTypeCorrect == TurnSpec => []TurnTypeOK
  BY TurnInvariant, PTL DEF TurnInv

\* ... and no data is written to a channel the server knows nothing of.
THEOREM ChannelsSafe == TurnSpec => []ChannelsBacked
  BY TurnInvariant, PTL DEF TurnInv

-----------------------------------------------------------------------------
(* Transfer.                                                               *)

(* The messages.                                                           *)

IqIds == {IqId(k) : k \in {"none", "si", "open", "close", "proxy", "offer", "activate"}}
          \cup {DataId(n) : n \in Nat}
Replies == [is : {"result", "error"}, re : IqIds]
Used == [is : {"used"}, re : {IqId("offer")}, host : Host]
Accepts(m) == [is : {"siResult"}, re : {IqId("si")}, method : {m}]
AnswersFor(m) == Replies \cup Used \cup (IF m = "none" THEN {} ELSE Accepts(m))
IbbRequests == [is : {"open", "close"}] \cup [is : {"data"}, n : 0..(Blocks - 1)]
SocksRequests == [is : {"offer"}]

-----------------------------------------------------------------------------
(* The invariant, whatever happens.                                        *)

States == {"none", "offer", "start", "transfer", "finished"}
Causes == {"NoError", "Abort", "FileAccess", "FileCorrupt", "Protocol"}
Methods == {"none", "inband", "socks"}
SocketStates == {"none", "connecting", "greeted", "served", "ready", "half", "closed"}
Relays == {"none", "connecting", "up", "closed"}

JobsTyped ==
    /\ state \in [Side -> States] /\ error \in [Side -> Causes]
    /\ iodevice \in [Side -> BOOLEAN] /\ ending \in [Side -> BOOLEAN]
    /\ \A s \in Side : ending[s] => state[s] # "none"
LinksTyped ==
    /\ conn \in [Host -> SocketStates]
    /\ relay \in Relays
    /\ toWrite \in 0..3 /\ underWay \in Nat
RestTyped ==
    /\ supports \in [Side -> SUBSET {"inband", "socks"}]
    /\ answered \in BOOLEAN /\ mishap \in BOOLEAN
    /\ method \in [Side -> Methods]
CountsTyped == done \in [Side -> 0..Blocks] /\ sequence \in [Side -> 0..Blocks]
HostsTyped ==
    /\ candidate \in Host \cup {NoHost} /\ candidates \in Seq(Host)
    /\ socks \in [Side -> Host \cup {NoHost}]

Zero(f) == f["sender"] = 0 /\ f["receiver"] = 0
Both(f, v) == f["sender"] = v /\ f["receiver"] = v

\* What is on its way, for the method the sender knows of and the receiver's.
Offers == {<<[is |-> "si", methods |-> ms]>> : ms \in SUBSET {"inband", "socks"}}
MailTyped ==
    /\ method["sender"] = "none" =>
          \/ toReceiver = <<>>
          \/ toReceiver \in Offers /\ method["receiver"] = "none" /\ state["receiver"] = "none"
    /\ method["sender"] = "inband" => toReceiver \in Seq(IbbRequests)
    /\ method["sender"] = "socks" => toReceiver \in Seq(SocksRequests)
    /\ toSender \in Seq(AnswersFor(method["receiver"]))

\* The receiver settles the method, the sender learns it.
SocksIds == {IqId("proxy"), IqId("offer"), IqId("activate")}
Methodical ==
    /\ method["sender"] # "none" => method["sender"] = method["receiver"]
    /\ requestId \in SocksIds => method["sender"] = "socks"
    /\ socks["sender"] = Proxy => method["sender"] = "socks"
    /\ relay # "none" => method["sender"] = "socks"
    /\ state["sender"] = "none" => toReceiver = <<>> /\ method["receiver"] = "none"
    /\ state["receiver"] = "none" <=> method["receiver"] = "none"

NoSocks == candidate = NoHost /\ Both(socks, NoHost)
Counted ==
    /\ method["receiver"] = "none" => Zero(done)
    /\ method["receiver"] # "inband" => Zero(sequence)
    /\ method["receiver"] = "inband" =>
          sequence["sender"] = done["sender"] /\ done["receiver"] <= sequence["receiver"]
    /\ method["receiver"] # "socks" => NoSocks /\ toWrite = 0 /\ underWay = 0
    /\ method["receiver"] = "socks" => done["receiver"] + underWay + toWrite <= done["sender"]

Whole == state["receiver"] = "finished" /\ error["receiver"] = "NoError"
            => done["receiver"] = Blocks

TransferInv ==
    /\ JobsTyped /\ LinksTyped /\ RestTyped /\ CountsTyped /\ HostsTyped
    /\ MailTyped /\ Methodical /\ Counted /\ Whole

LEMMA Sizes == Blocks \in Nat \ {0} /\ Hosts \in Nat /\ Proxy \in Host /\ NoHost \notin Host
BY TransferSizesAssumption DEF Proxy, Host, NoHost

LEMMA SoundTyped == TransferInv => TransferTypeOK
<1> SUFFICES ASSUME TransferInv PROVE TransferTypeOK OBVIOUS
<1>1. underWay \in 0..Blocks
      <2>1. CASE method["receiver"] = "socks"
            <3>1. done["receiver"] + underWay + toWrite <= done["sender"] BY <2>1 DEF TransferInv, Counted
            <3>2. done["receiver"] \in 0..Blocks /\ done["sender"] \in 0..Blocks
                  BY DEF TransferInv, CountsTyped, Side
            <3>3. underWay \in Nat /\ toWrite \in 0..3 BY DEF TransferInv, LinksTyped
            <3> QED BY <3>1, <3>2, <3>3, Sizes
      <2>2. CASE method["receiver"] # "socks"
            BY <2>2, Sizes DEF TransferInv, Counted
      <2> QED BY <2>1, <2>2
<1> QED BY <1>1 DEF TransferInv, JobsTyped, LinksTyped, RestTyped, CountsTyped, HostsTyped, TransferTypeOK,
           States, Causes, Methods, SocketStates, Relays

-----------------------------------------------------------------------------
(* What the operators do.                                                  *)

\* Within their types.
Shrinks ==
    /\ toWrite' \in 0..toWrite /\ underWay' \in Nat
    /\ underWay' + toWrite' <= underWay + toWrite

LEMMA TerminateDoes ==
    ASSUME JobsTyped, LinksTyped, HostsTyped, NEW s \in Side, NEW cause \in Causes,
           Terminate(s, cause)
    PROVE  /\ JobsTyped' /\ LinksTyped' /\ Shrinks
           /\ state'[s] = "finished" /\ \A x \in Side \ {s} : state'[x] = state[x]
           /\ error'[s] = IF state[s] = "finished" THEN error[s] ELSE cause
           /\ \A x \in Side \ {s} : error'[x] = error[x]
           /\ relay' = relay \/ (relay' = "closed" /\ socks["sender"] = Proxy)
<1>1. CASE state[s] = "finished"
      <2>1. UNCHANGED <<state, error, iodevice, ending, conn, relay, toWrite, underWay>>
            BY <1>1 DEF Terminate
      <2>2. JobsTyped' BY <2>1 DEF JobsTyped
      <2>3. LinksTyped' BY <2>1 DEF LinksTyped
      <2>4. Shrinks BY <2>1 DEF Shrinks, LinksTyped
      <2> QED BY <1>1, <2>1, <2>2, <2>3, <2>4
<1>2. CASE state[s] # "finished"
      <2>1. /\ state' = [state EXCEPT ![s] = "finished"]
            /\ error' = [error EXCEPT ![s] = cause]
            /\ iodevice' = [iodevice EXCEPT ![s] = FALSE]
            /\ ending' = [ending EXCEPT ![s] = TRUE]
            /\ toWrite' = 0
            /\ underWay' = underWay \/ underWay' = underWay + toWrite
            /\ relay' = relay \/ (relay' = "closed" /\ s = "sender" /\ socks[s] = Proxy)
            BY <1>2 DEF Terminate
      <2>2. JobsTyped' BY <2>1 DEF JobsTyped, States, Causes
      <2>3. conn' \in [Host -> SocketStates]
            <3>1. conn' = conn \/ \E v : v \in SocketStates /\ conn' = [conn EXCEPT ![socks[s]] = v]
                  <4>1. conn' = conn \/ conn' = [conn EXCEPT ![socks[s]] = "closed"]
                        \/ conn' = [conn EXCEPT ![socks[s]] = conn[socks[s]]]
                        \/ conn' = [conn EXCEPT ![socks[s]] = "half"]
                        BY <1>2 DEF Terminate
                  <4>2. CASE socks[s] = NoHost
                        BY <1>2, <4>2 DEF Terminate
                  <4>3. CASE socks[s] # NoHost
                        <5>1. socks[s] \in Host BY <4>3 DEF HostsTyped
                        <5>2. conn[socks[s]] \in SocketStates BY <5>1 DEF LinksTyped
                        <5> QED BY <4>1, <5>2 DEF SocketStates
                  <4> QED BY <4>2, <4>3
            <3> QED BY <3>1 DEF LinksTyped
      <2>4. LinksTyped' BY <2>1, <2>3 DEF LinksTyped, Relays
      <2>5. Shrinks BY <2>1 DEF Shrinks, LinksTyped
      <2>6. /\ state'[s] = "finished" /\ \A x \in Side \ {s} : state'[x] = state[x]
            /\ error'[s] = cause /\ \A x \in Side \ {s} : error'[x] = error[x]
            BY <2>1 DEF JobsTyped
      <2> QED BY <1>2, <2>1, <2>2, <2>4, <2>5, <2>6
<1> QED BY <1>1, <1>2

LEMMA NextHostDoes ==
    ASSUME JobsTyped, LinksTyped, HostsTyped, NEW left \in Seq(Host), NextHost(left)
    PROVE  /\ JobsTyped' /\ LinksTyped' /\ Shrinks
           /\ candidate' \in Host \cup {NoHost} /\ candidates' \in Seq(Host)
           /\ toSender' \in {toSender, Append(toSender, [is |-> "error", re |-> IqId("offer")])}
           /\ state'["sender"] = state["sender"]
           /\ \/ UNCHANGED <<state, error>>
              \/ state'["receiver"] = "finished"
                 /\ error'["receiver"] = (IF state["receiver"] = "finished"
                                          THEN error["receiver"] ELSE "Protocol")
           /\ relay' = relay
<1>1. CASE left = <<>>
      <2>1. /\ candidate' = NoHost /\ candidates' = left
            /\ toSender' = Append(toSender, [is |-> "error", re |-> IqId("offer")])
            /\ Terminate("receiver", "Protocol")
            BY <1>1 DEF NextHost, Tell
      <2>2. "receiver" \in Side /\ "sender" \in Side \ {"receiver"} /\ "Protocol" \in Causes
            BY DEF Side, Causes
      <2>3. /\ JobsTyped' /\ LinksTyped' /\ Shrinks
            /\ state'["receiver"] = "finished" /\ state'["sender"] = state["sender"]
            /\ error'["receiver"] = (IF state["receiver"] = "finished"
                                     THEN error["receiver"] ELSE "Protocol")
            BY <2>1, <2>2, TerminateDoes
      <2>4. relay' = relay BY <2>1 DEF Terminate
      <2> QED BY <2>1, <2>3, <2>4
<1>2. CASE left # <<>>
      <2>1. /\ candidate' = Head(left) /\ candidates' = Tail(left)
            /\ conn' = [h \in Host |-> IF h = Head(left) THEN "connecting"
                                       ELSE IF h = candidate THEN "closed" ELSE conn[h]]
            /\ UNCHANGED <<state, error, iodevice, ending, relay, toWrite, underWay, toSender>>
            BY <1>2 DEF NextHost, Jobs
      <2>2. Head(left) \in Host /\ Tail(left) \in Seq(Host) BY <1>2
      <2>3. JobsTyped' BY <2>1 DEF JobsTyped
      <2>4. LinksTyped' BY <2>1 DEF LinksTyped, SocketStates
      <2>5. Shrinks BY <2>1 DEF Shrinks, LinksTyped
      <2> QED BY <2>1, <2>2, <2>3, <2>4, <2>5
<1> QED BY <1>1, <1>2

LEMMA SendDataDoes ==
    ASSUME JobsTyped, LinksTyped, HostsTyped, CountsTyped, NEW u \in 0..toWrite, SendData(u)
    PROVE  /\ JobsTyped' /\ LinksTyped'
           /\ done' \in [Side -> 0..Blocks] /\ done'["receiver"] = done["receiver"]
           /\ done["receiver"] + underWay + toWrite <= done["sender"] =>
                 done'["receiver"] + underWay' + toWrite' <= done'["sender"]
           /\ state'["receiver"] = state["receiver"] /\ error'["receiver"] = error["receiver"]
           /\ state'["sender"] # "none"
           /\ relay' = relay \/ (relay' = "closed" /\ socks["sender"] = Proxy)
<1>1. "sender" \in Side /\ "receiver" \in Side \ {"sender"} BY DEF Side
<1>2. /\ done["sender"] \in 0..Blocks /\ done["receiver"] \in 0..Blocks
      /\ toWrite \in 0..3 /\ underWay \in Nat
      BY <1>1 DEF CountsTyped, LinksTyped
<1>3. ASSUME NEW cause \in Causes, Terminate("sender", cause), done' = done
      PROVE  /\ JobsTyped' /\ LinksTyped'
             /\ done' \in [Side -> 0..Blocks] /\ done'["receiver"] = done["receiver"]
             /\ done["receiver"] + underWay + toWrite <= done["sender"] =>
                   done'["receiver"] + underWay' + toWrite' <= done'["sender"]
             /\ state'["receiver"] = state["receiver"] /\ error'["receiver"] = error["receiver"]
             /\ state'["sender"] # "none"
             /\ relay' = relay \/ (relay' = "closed" /\ socks["sender"] = Proxy)
      <2>1. /\ JobsTyped' /\ LinksTyped' /\ Shrinks
            /\ state'["receiver"] = state["receiver"] /\ error'["receiver"] = error["receiver"]
            /\ state'["sender"] = "finished"
            /\ relay' = relay \/ (relay' = "closed" /\ socks["sender"] = Proxy)
            BY <1>1, <1>3, TerminateDoes
      <2>2. done["receiver"] + underWay + toWrite <= done["sender"] =>
               done["receiver"] + underWay' + toWrite' <= done["sender"]
            <3>1. /\ toWrite' \in 0..3 /\ underWay' \in Nat
                  /\ underWay' + toWrite' <= underWay + toWrite
                  BY <2>1 DEF Shrinks, LinksTyped
            <3>2. \A a, b, c, d \in Nat, e, f \in Nat :
                     a + b <= c + d => (e + c + d <= f => e + a + b <= f)
                  OBVIOUS
            <3>3. done["receiver"] \in Nat /\ done["sender"] \in Nat BY <1>2
            <3>4. toWrite \in Nat /\ underWay \in Nat /\ toWrite' \in Nat BY <1>2, <3>1
            <3>5. underWay' + toWrite' <= underWay + toWrite /\ underWay' \in Nat BY <3>1
            <3> QED BY <3>2, <3>3, <3>4, <3>5
      <2> QED BY <1>3, <2>1, <2>2 DEF CountsTyped
<1>4. CASE /\ done["sender"] < Blocks /\ u <= 2 /\ iodevice["sender"]
           /\ done' = [done EXCEPT !["sender"] = @ + 1]
           /\ toWrite' = IF Linked THEN u + 1 ELSE u
           /\ state' = [state EXCEPT !["sender"] = "transfer"]
           /\ UNCHANGED <<error, iodevice, ending, conn, relay>>
           /\ underWay' = underWay + (toWrite - u)
      <2>1. JobsTyped' BY <1>4 DEF JobsTyped, States
      <2>2. LinksTyped' BY <1>2, <1>4 DEF LinksTyped
      <2>3. done' \in [Side -> 0..Blocks] /\ done'["receiver"] = done["receiver"]
            /\ done'["sender"] = done["sender"] + 1
            BY <1>1, <1>2, <1>4, Sizes DEF CountsTyped
      <2>4. done["receiver"] + underWay + toWrite <= done["sender"] =>
               done'["receiver"] + underWay' + toWrite' <= done'["sender"]
            BY <1>2, <1>4, <2>3
      <2>5. state'["receiver"] = state["receiver"] /\ error'["receiver"] = error["receiver"]
            /\ state'["sender"] # "none"
            BY <1>1, <1>4 DEF JobsTyped
      <2> QED BY <1>4, <2>1, <2>2, <2>3, <2>4, <2>5
<1>5. CASE /\ toWrite' = u /\ underWay' = underWay + (toWrite - u)
           /\ state' = [state EXCEPT !["sender"] = "transfer"]
           /\ UNCHANGED <<error, iodevice, ending, done, conn, relay>>
      <2>1. JobsTyped' BY <1>5 DEF JobsTyped, States
      <2>2. LinksTyped' BY <1>2, <1>5 DEF LinksTyped
      <2>3. done["receiver"] + underWay + toWrite <= done["sender"] =>
               done'["receiver"] + underWay' + toWrite' <= done'["sender"]
            BY <1>2, <1>5
      <2>4. state'["receiver"] = state["receiver"] /\ error'["receiver"] = error["receiver"]
            /\ state'["sender"] # "none"
            BY <1>1, <1>5 DEF JobsTyped
      <2> QED BY <1>5, <2>1, <2>2, <2>3, <2>4 DEF CountsTyped
<1>6. \/ Terminate("sender", "NoError") /\ done' = done
      \/ Terminate("sender", "FileAccess") /\ done' = done
      \/ /\ done["sender"] < Blocks /\ u <= 2 /\ iodevice["sender"]
         /\ done' = [done EXCEPT !["sender"] = @ + 1]
         /\ toWrite' = IF Linked THEN u + 1 ELSE u
         /\ state' = [state EXCEPT !["sender"] = "transfer"]
         /\ UNCHANGED <<error, iodevice, ending, conn, relay>>
         /\ underWay' = underWay + (toWrite - u)
      \/ /\ toWrite' = u /\ underWay' = underWay + (toWrite - u)
         /\ state' = [state EXCEPT !["sender"] = "transfer"]
         /\ UNCHANGED <<error, iodevice, ending, done, conn, relay>>
      BY DEF SendData
<1> QED BY <1>3, <1>4, <1>5, <1>6 DEF Causes

-----------------------------------------------------------------------------
(* What a step that leaves the method alone has to show.                   *)

LEMMA Sides == "sender" \in Side /\ "receiver" \in Side /\ Side = {"sender", "receiver"}
BY DEF Side

\* A request goes to the receiver, or is taken by it, or nothing happens there.
Conveyed ==
    \/ toReceiver' = toReceiver
    \/ toReceiver # <<>> /\ toReceiver' = Tail(toReceiver)
    \/ /\ method["sender"] = "inband"
       /\ \E m \in IbbRequests : toReceiver' = Append(toReceiver, m)
    \/ /\ method["sender"] = "socks"
       /\ \E m \in SocksRequests : toReceiver' = Append(toReceiver, m)

LEMMA TailOfOffer == \A q \in Offers : q # <<>> /\ Tail(q) = <<>>
<1> SUFFICES ASSUME NEW q \in Offers PROVE q # <<>> /\ Tail(q) = <<>> OBVIOUS
<1>1. PICK m : q = <<m>> BY DEF Offers
<1> QED BY <1>1

LEMMA CarriedOver ==
    ASSUME TransferInv, JobsTyped', LinksTyped', HostsTyped', RestTyped', CountsTyped',
           Counted', Whole', UNCHANGED method, Conveyed,
           toSender' \in Seq(AnswersFor(method["receiver"])),
           \A s \in Side : state'[s] = "none" <=> state[s] = "none",
           requestId' \in SocksIds => method["sender"] = "socks",
           socks'["sender"] = Proxy => method["sender"] = "socks",
           relay' # "none" => method["sender"] = "socks"
    PROVE  TransferInv'
<1>1. MailTyped /\ Methodical BY DEF TransferInv
<1>2. method["sender"] = "none" =>
          \/ toReceiver' = <<>>
          \/ toReceiver' \in Offers /\ method["receiver"] = "none" /\ state'["receiver"] = "none"
      <2>1. CASE toReceiver' = toReceiver BY <1>1, <2>1, Sides DEF MailTyped
      <2>2. CASE toReceiver # <<>> /\ toReceiver' = Tail(toReceiver)
            BY <1>1, <2>2, TailOfOffer DEF MailTyped
      <2> QED BY <2>1, <2>2 DEF Conveyed
<1>3. method["sender"] = "inband" => toReceiver' \in Seq(IbbRequests)
      <2> SUFFICES ASSUME method["sender"] = "inband" PROVE toReceiver' \in Seq(IbbRequests)
          OBVIOUS
      <2>1. toReceiver \in Seq(IbbRequests) BY <1>1 DEF MailTyped
      <2>2. toReceiver # <<>> => Tail(toReceiver) \in Seq(IbbRequests) BY <2>1
      <2>3. \A m \in IbbRequests : Append(toReceiver, m) \in Seq(IbbRequests) BY <2>1
      <2>4. \/ toReceiver' = toReceiver
            \/ toReceiver # <<>> /\ toReceiver' = Tail(toReceiver)
            \/ \E m \in IbbRequests : toReceiver' = Append(toReceiver, m)
            BY Zenon DEF Conveyed
      <2> QED BY <2>1, <2>2, <2>3, <2>4
<1>4. method["sender"] = "socks" => toReceiver' \in Seq(SocksRequests)
      <2> SUFFICES ASSUME method["sender"] = "socks" PROVE toReceiver' \in Seq(SocksRequests)
          OBVIOUS
      <2>1. toReceiver \in Seq(SocksRequests) BY <1>1 DEF MailTyped
      <2>2. toReceiver # <<>> => Tail(toReceiver) \in Seq(SocksRequests) BY <2>1
      <2>3. \A m \in SocksRequests : Append(toReceiver, m) \in Seq(SocksRequests) BY <2>1
      <2>4. \/ toReceiver' = toReceiver
            \/ toReceiver # <<>> /\ toReceiver' = Tail(toReceiver)
            \/ \E m \in SocksRequests : toReceiver' = Append(toReceiver, m)
            BY Zenon DEF Conveyed
      <2> QED BY <2>1, <2>2, <2>3, <2>4
<1>5. MailTyped' BY <1>2, <1>3, <1>4 DEF MailTyped
<1>6. state["sender"] = "none" => toReceiver' = <<>>
      BY <1>1, Sides DEF Methodical, Conveyed
<1>7. Methodical' BY <1>1, <1>6, Sides DEF Methodical
<1> QED BY <1>5, <1>7 DEF TransferInv

\* The counts are as they should be after a step that moves what is unwritten.
LEMMA CountsKept ==
    ASSUME TransferInv, Shrinks, UNCHANGED <<method, done, sequence>>,
           method["receiver"] = "socks" \/ UNCHANGED <<candidate, socks>>
    PROVE  Counted' /\ CountsTyped'
<1>1. CountsTyped' BY DEF TransferInv, CountsTyped
<1>2. Counted BY DEF TransferInv
<1>3. toWrite \in Nat /\ underWay \in Nat /\ toWrite' \in Nat /\ underWay' \in Nat
      BY DEF TransferInv, LinksTyped, Shrinks
<1>4. done["receiver"] \in Nat /\ done["sender"] \in Nat BY Sides DEF TransferInv, CountsTyped
<1>5. \A a, b, c, d, e, f \in Nat :
         a + b <= c + d => (e + c + d <= f => e + a + b <= f)
      OBVIOUS
<1>6. underWay' + toWrite' <= underWay + toWrite BY DEF Shrinks
<1>7. method["receiver"] = "socks" => done["receiver"] + underWay' + toWrite' <= done["sender"]
      BY <1>2, <1>3, <1>4, <1>5, <1>6 DEF Counted
<1>8. \A a, b, c, d \in Nat : a + b <= c + d /\ c = 0 /\ d = 0 => a = 0 /\ b = 0
      OBVIOUS
<1>9. toWrite = 0 /\ underWay = 0 => toWrite' = 0 /\ underWay' = 0 BY <1>3, <1>6, <1>8
<1> QED BY <1>1, <1>2, <1>7, <1>9 DEF Counted, NoSocks, Zero, Both

LEMMA WholeKept ==
    ASSUME TransferInv, done' = done,
           state'["receiver"] = "finished" =>
             \/ state["receiver"] = "finished" /\ error'["receiver"] = error["receiver"]
             \/ error'["receiver"] # "NoError"
             \/ done["receiver"] = Blocks
    PROVE  Whole'
BY DEF TransferInv, Whole

\* An answer is sent by the receiver, or taken by the sender.
LEMMA AnswerTyped ==
    ASSUME TransferInv, NEW m \in AnswersFor(method["receiver"]), toSender' = Append(toSender, m)
    PROVE  toSender' \in Seq(AnswersFor(method["receiver"]))
BY DEF TransferInv, MailTyped

LEMMA RepliesAnswer ==
    ASSUME NEW i \in {"result", "error"}, NEW re \in IqIds, NEW m
    PROVE  [is |-> i, re |-> re] \in AnswersFor(m)
BY DEF AnswersFor, Replies

LEMMA IdFacts ==
    /\ \A k \in {"none", "si", "open", "close", "proxy", "offer", "activate"} : IqId(k) \in IqIds
    /\ \A n \in Nat : DataId(n) \in IqIds /\ DataId(n) \notin SocksIds
    /\ \A k \in {"none", "si", "open", "close"} : IqId(k) \notin SocksIds
    /\ IqId("si") # IqId("none")
BY DEF IqIds, IqId, DataId, SocksIds

-----------------------------------------------------------------------------
(* A job.                                                                  *)

LEMMA AbortSound == ASSUME TransferInv, NEW s \in Side, Abort(s) PROVE TransferInv'
<1>1. /\ Terminate(s, "Abort") /\ mishap' = TRUE /\ state[s] # "none"
      /\ UNCHANGED <<supports, method, done, requestId, sequence, answered,
                     candidates, candidate, socks, mailVars>>
      BY DEF Abort
<1>2. /\ JobsTyped' /\ LinksTyped' /\ Shrinks
      /\ state'[s] = "finished" /\ \A x \in Side \ {s} : state'[x] = state[x]
      /\ error'[s] = IF state[s] = "finished" THEN error[s] ELSE "Abort"
      /\ \A x \in Side \ {s} : error'[x] = error[x]
      /\ relay' = relay \/ (relay' = "closed" /\ socks["sender"] = Proxy)
      BY <1>1, TerminateDoes DEF TransferInv, Causes
<1>3. RestTyped' BY <1>1 DEF TransferInv, RestTyped
<1>4. HostsTyped' BY <1>1 DEF TransferInv, HostsTyped
<1>5. Counted' /\ CountsTyped' BY <1>1, <1>2, CountsKept
<1>6. Whole' BY <1>1, <1>2, Sides, WholeKept
<1>7. /\ \A x \in Side : state'[x] = "none" <=> state[x] = "none"
      /\ relay' # "none" => method["sender"] = "socks"
      /\ socks'["sender"] = Proxy => method["sender"] = "socks"
      /\ requestId' \in SocksIds => method["sender"] = "socks"
      /\ toSender' \in Seq(AnswersFor(method["receiver"]))
      BY <1>1, <1>2 DEF TransferInv, Methodical, MailTyped, mailVars
<1> QED BY <1>1, <1>2, <1>3, <1>4, <1>5, <1>6, <1>7, CarriedOver DEF mailVars, Conveyed

LEMMA TerminatedSound == ASSUME TransferInv, NEW s \in Side, Terminated(s) PROVE TransferInv'
<1>1. /\ ending[s] /\ ending' = [ending EXCEPT ![s] = FALSE]
      /\ UNCHANGED <<supports, state, error, method, done, iodevice, sequence,
                     candidates, candidate, conn, socks, relay, toWrite, underWay, mishap>>
      BY DEF Terminated, linkageVars
<1>2. JobsTyped' BY <1>1 DEF TransferInv, JobsTyped
<1>3. LinksTyped' BY <1>1 DEF TransferInv, LinksTyped
<1>4. HostsTyped' BY <1>1 DEF TransferInv, HostsTyped
<1>5. Shrinks BY <1>1 DEF TransferInv, Shrinks, LinksTyped
<1>6. Counted' /\ CountsTyped' BY <1>1, <1>5, CountsKept
<1>7. Whole' BY <1>1, WholeKept
<1>8. answered' \in BOOLEAN BY DEF Terminated, TransferInv, RestTyped
<1>9. RestTyped' BY <1>1, <1>8 DEF TransferInv, RestTyped
<1>10. Methodical BY DEF TransferInv
<1>11. CASE /\ s = "sender" /\ method[s] = "inband"
            /\ Ask(IqId("close"), [is |-> "close"]) /\ toSender' = toSender
       <2>1. toReceiver' \in Seq(IbbRequests) /\ requestId' = IqId("close")
             <3>1. toReceiver \in Seq(IbbRequests) BY <1>11 DEF TransferInv, MailTyped
             <3>2. [is |-> "close"] \in IbbRequests BY DEF IbbRequests
             <3> QED BY <1>11, <3>1, <3>2 DEF Ask
       <2>2. MailTyped' BY <1>1, <1>11, <2>1 DEF TransferInv, MailTyped
       <2>3. state["sender"] # "none" BY <1>1, <1>11, Sides DEF TransferInv, JobsTyped
       <2>4. Methodical' BY <1>1, <1>10, <2>1, <2>3, IdFacts DEF Methodical
       <2> QED BY <1>2, <1>3, <1>4, <1>6, <1>7, <1>9, <2>2, <2>4 DEF TransferInv
<1>12. CASE /\ toSender' = toSender \/ Tell([is |-> "error", re |-> IqId("si")])
            /\ UNCHANGED <<requestId, toReceiver>>
       <2>1. toSender' \in Seq(AnswersFor(method["receiver"]))
             <3>1. [is |-> "error", re |-> IqId("si")] \in AnswersFor(method["receiver"])
                   BY RepliesAnswer, IdFacts
             <3>2. toSender \in Seq(AnswersFor(method["receiver"])) BY DEF TransferInv, MailTyped
             <3> QED BY <1>12, <3>1, <3>2, AnswerTyped DEF Tell
       <2> QED BY <1>1, <1>2, <1>3, <1>4, <1>6, <1>7, <1>9, <1>10, <1>12, <2>1, CarriedOver
               DEF Methodical, Conveyed
<1> QED BY <1>11, <1>12 DEF Terminated, mailVars

LEMMA SendFileSound == TransferInv /\ SendFile => TransferInv'
<1> SUFFICES ASSUME TransferInv, SendFile PROVE TransferInv' OBVIOUS
<1>1. /\ state["sender"] = "none"
      /\ UNCHANGED <<supports, method, done, sequence, answered, candidates, candidate, conn,
                     socks, relay, toWrite, underWay, toSender>>
      BY DEF SendFile, linkageVars
<1>2. JobsTyped' BY <1>1, Sides DEF SendFile, TransferInv, JobsTyped, States, Causes
<1>3. LinksTyped' BY <1>1 DEF TransferInv, LinksTyped
<1>4. HostsTyped' BY <1>1 DEF TransferInv, HostsTyped
<1>5. Shrinks BY <1>1 DEF TransferInv, Shrinks, LinksTyped
<1>6. Counted' /\ CountsTyped' BY <1>1, <1>5, CountsKept
<1>7. /\ state'["receiver"] = state["receiver"] /\ error'["receiver"] = error["receiver"]
      /\ state'["sender"] # "none"
      BY <1>1, Sides DEF SendFile, TransferInv, JobsTyped
<1>8. Whole' BY <1>1, <1>7, WholeKept
<1>9. mishap' \in BOOLEAN BY DEF SendFile, TransferInv, RestTyped
<1>10. RestTyped' BY <1>1, <1>9 DEF TransferInv, RestTyped
<1>11. /\ toReceiver = <<>> /\ Both(method, "none") /\ state["receiver"] = "none"
       /\ requestId \notin SocksIds
       BY <1>1 DEF TransferInv, Methodical, Both, RestTyped
<1>12. \/ toReceiver' = <<>> /\ requestId' = requestId
       \/ toReceiver' \in Offers /\ requestId' = IqId("si")
       <2> DEFINE ms == supports["sender"]
                  m == [is |-> "si", methods |-> ms]
       <2>1. ms \in SUBSET {"inband", "socks"} BY Sides DEF TransferInv, RestTyped
       <2>2. \/ requestId' = IqId("si") /\ toReceiver' = Append(toReceiver, m)
             \/ UNCHANGED <<requestId, toReceiver>>
             BY DEF SendFile, Ask
       <2>3. <<m>> \in Offers BY <2>1 DEF Offers
       <2> HIDE DEF m
       <2>4. Append(<<>>, m) = <<m>> OBVIOUS
       <2> QED BY <1>11, <2>2, <2>3, <2>4
<1>13. MailTyped' BY <1>1, <1>7, <1>11, <1>12 DEF MailTyped, Both, TransferInv
<1>14. Methodical' BY <1>1, <1>7, <1>11, <1>12, IdFacts DEF Methodical, Both, TransferInv
<1> QED BY <1>2, <1>3, <1>4, <1>6, <1>8, <1>10, <1>13, <1>14 DEF TransferInv

-----------------------------------------------------------------------------
(* What the receiver does with a request.                                  *)

\* The first of the requests, by its kind.
LEMMA FirstRequest ==
    ASSUME TransferInv, toReceiver # <<>>
    PROVE  LET m == Head(toReceiver) IN
           /\ m.is = "si" => /\ Tail(toReceiver) = <<>> /\ Both(method, "none")
                             /\ state["receiver"] = "none"
           /\ m.is = "data" => m.n \in 0..(Blocks - 1) /\ method["sender"] = "inband"
<1> DEFINE m == Head(toReceiver)
<1>1. MailTyped /\ method["sender"] \in Methods BY Sides DEF TransferInv, RestTyped
<1>2. CASE method["sender"] = "none"
      <2>1. toReceiver \in Offers /\ method["receiver"] = "none" /\ state["receiver"] = "none"
            BY <1>1, <1>2 DEF MailTyped
      <2>2. m.is = "si"
            <3>1. PICK ms : toReceiver = <<[is |-> "si", methods |-> ms]>> BY <2>1 DEF Offers
            <3> QED BY <3>1
      <2> QED BY <1>2, <2>1, <2>2, TailOfOffer DEF Both
<1>3. CASE method["sender"] = "inband"
      <2>1. m \in IbbRequests BY <1>1, <1>3 DEF MailTyped
      <2> HIDE DEF m
      <2>2. m.is # "si" /\ (m.is = "data" => m.n \in 0..(Blocks - 1)) BY <2>1 DEF IbbRequests
      <2> QED BY <1>3, <2>2 DEF m
<1>4. CASE method["sender"] = "socks"
      <2>1. m \in SocksRequests BY <1>1, <1>4 DEF MailTyped
      <2> HIDE DEF m
      <2>2. m.is = "offer" BY <2>1 DEF SocksRequests
      <2> QED BY <2>2 DEF m
<1> QED BY <1>1, <1>2, <1>3, <1>4 DEF Methods

Takes(m) == toReceiver # <<>> /\ m = Head(toReceiver) /\ toReceiver' = Tail(toReceiver)
            /\ UNCHANGED supports

LEMMA StreamInitiationSetSound ==
    ASSUME TransferInv, NEW m, Takes(m), StreamInitiationSet(m) PROVE TransferInv'
<1>1. /\ m.is = "si" /\ toReceiver # <<>> /\ m = Head(toReceiver)
      /\ UNCHANGED <<supports, error, done, iodevice, ending, requestId, sequence, answered,
                     candidates, candidate, conn, socks, relay, toWrite, underWay, mishap>>
      BY DEF StreamInitiationSet, Takes, linkageVars
<1>2. /\ toReceiver' = <<>> /\ Both(method, "none") /\ state["receiver"] = "none"
      BY <1>1, FirstRequest DEF Takes
<1>3. LinksTyped' BY <1>1 DEF TransferInv, LinksTyped
<1>4. HostsTyped' BY <1>1 DEF TransferInv, HostsTyped
<1>5. CountsTyped' BY <1>1 DEF TransferInv, CountsTyped
<1>6. Methodical /\ Counted /\ state["sender"] # "none"
      <2>1. Methodical /\ Counted BY DEF TransferInv
      <2> QED BY <1>1, <2>1 DEF Methodical
<1>7. Zero(done) /\ Zero(sequence) /\ NoSocks /\ toWrite = 0 /\ underWay = 0
      BY <1>2, <1>6 DEF Counted, Both
<1>8. method'["sender"] = "none"
      BY <1>2, Sides DEF StreamInitiationSet, TransferInv, RestTyped, Both
<1>9. CASE /\ Tell([is |-> "error", re |-> IqId("si")]) /\ UNCHANGED <<state, method>>
      <2>1. toSender' \in Seq(AnswersFor(method["receiver"]))
            <3>1. [is |-> "error", re |-> IqId("si")] \in AnswersFor(method["receiver"])
                  BY RepliesAnswer, IdFacts
            <3> QED BY <1>9, <3>1, AnswerTyped DEF Tell
      <2>2. JobsTyped' BY <1>1, <1>9 DEF TransferInv, JobsTyped
      <2>3. RestTyped' BY <1>1, <1>9 DEF TransferInv, RestTyped
      <2>4. Counted' BY <1>1, <1>6, <1>9 DEF Counted, NoSocks, Zero, Both
      <2>5. Whole' BY <1>1, <1>9 DEF TransferInv, Whole
      <2>6. Conveyed BY DEF Conveyed, Takes
      <2> QED BY <1>1, <1>3, <1>4, <1>5, <1>6, <1>9, <2>1, <2>2, <2>3, <2>4, <2>5, <2>6, CarriedOver
              DEF Methodical
<1>10. CASE /\ state' = [state EXCEPT !["receiver"] = "offer"]
            /\ \/ method' = [method EXCEPT !["receiver"] = "socks"]
               \/ method' = [method EXCEPT !["receiver"] = "inband"]
            /\ UNCHANGED toSender
      <2>1. state'["receiver"] = "offer" /\ state'["sender"] = state["sender"]
            /\ method'["receiver"] \in {"inband", "socks"}
            BY <1>10, Sides DEF TransferInv, JobsTyped, RestTyped
      <2>2. JobsTyped' BY <1>1, <1>10 DEF TransferInv, JobsTyped, States
      <2>3. RestTyped' BY <1>1, <1>10 DEF TransferInv, RestTyped, Methods
      <2>4. Counted' BY <1>1, <1>7, <2>1 DEF Counted, NoSocks, Zero, Both
      <2>5. Whole' BY <2>1 DEF Whole
      <2>6. toSender' \in Seq(AnswersFor(method'["receiver"]))
            <3>1. AnswersFor("none") \subseteq AnswersFor(method'["receiver"]) BY DEF AnswersFor
            <3>2. toSender \in Seq(AnswersFor("none")) BY <1>2 DEF TransferInv, MailTyped, Both
            <3> QED BY <1>10, <3>1, <3>2
      <2>7. MailTyped' BY <1>2, <1>8, <2>6 DEF MailTyped
      <2>8. Methodical' BY <1>1, <1>2, <1>6, <1>8, <2>1 DEF Methodical, Both
      <2> QED BY <1>3, <1>4, <1>5, <2>2, <2>3, <2>4, <2>5, <2>7, <2>8 DEF TransferInv
<1> QED BY <1>9, <1>10 DEF StreamInitiationSet

LEMMA IbbOpenSound == ASSUME TransferInv, NEW m, Takes(m), IbbOpen(m) PROVE TransferInv'
<1>1. /\ UNCHANGED <<supports, error, method, done, iodevice, ending, requestId, sequence,
                     answered, candidates, candidate, conn, socks, relay, toWrite, underWay, mishap>>
      BY DEF IbbOpen, Takes, linkageVars
<1>2. \/ /\ method["receiver"] = "inband"
         /\ state' = [state EXCEPT !["receiver"] = "transfer"]
      \/ UNCHANGED state
      BY DEF IbbOpen
<1>3. \E i \in {"result", "error"} : Tell([is |-> i, re |-> IqId("open")]) BY DEF IbbOpen
<1>4. toSender' \in Seq(AnswersFor(method["receiver"]))
      <2>1. PICK i \in {"result", "error"} : Tell([is |-> i, re |-> IqId("open")]) BY <1>3
      <2>2. [is |-> i, re |-> IqId("open")] \in AnswersFor(method["receiver"])
            BY RepliesAnswer, IdFacts
      <2> QED BY <2>1, <2>2, AnswerTyped DEF Tell
<1>5. JobsTyped' BY <1>1, <1>2 DEF TransferInv, JobsTyped, States
<1>6. RestTyped' BY <1>1 DEF TransferInv, RestTyped
<1>7. LinksTyped' BY <1>1 DEF TransferInv, LinksTyped
<1>8. HostsTyped' BY <1>1 DEF TransferInv, HostsTyped
<1>9. CountsTyped' BY <1>1 DEF TransferInv, CountsTyped
<1>10. Counted' BY <1>1 DEF TransferInv, Counted, NoSocks, Zero, Both
<1>11. Whole' BY <1>1, <1>2, Sides DEF TransferInv, JobsTyped, Whole
<1>12. Conveyed BY DEF Conveyed, Takes
<1>13. Methodical BY DEF TransferInv
<1>14. \A s \in Side : state'[s] = "none" <=> state[s] = "none"
       BY <1>2, <1>13, Sides DEF Methodical, TransferInv, JobsTyped
<1> QED BY <1>1, <1>4, <1>5, <1>6, <1>7, <1>8, <1>9, <1>10, <1>11, <1>12, <1>13, <1>14, CarriedOver
        DEF Methodical

LEMMA IbbDataSound == ASSUME TransferInv, NEW m, Takes(m), IbbData(m) PROVE TransferInv'
<1>1. /\ m.is = "data" /\ toReceiver # <<>> /\ m = Head(toReceiver)
      /\ UNCHANGED <<supports, state, error, iodevice, ending, method, requestId, answered,
                     candidates, candidate, conn, socks, relay, toWrite, underWay>>
      BY DEF IbbData, Takes, linkageVars, Jobs
<1>2. m.n \in 0..(Blocks - 1) /\ method["sender"] = "inband" BY <1>1, FirstRequest
<1>3. Methodical /\ Counted /\ MailTyped BY DEF TransferInv
<1>4. method["receiver"] = "inband" BY <1>2, <1>3 DEF Methodical
<1>5. \/ /\ state["receiver"] = "transfer" /\ sequence["receiver"] = m.n
         /\ \/ done' = [done EXCEPT !["receiver"] = @ + 1] /\ mishap' = mishap
            \/ mishap' = TRUE /\ done' = done
         /\ sequence' = [sequence EXCEPT !["receiver"] = @ + 1]
      \/ UNCHANGED <<done, sequence, mishap>>
      BY DEF IbbData
<1>6. /\ done["receiver"] \in Nat /\ sequence["receiver"] \in Nat
      /\ done["receiver"] <= sequence["receiver"]
      /\ sequence["sender"] = done["sender"]
      BY <1>3, <1>4, Sides DEF Counted, TransferInv, CountsTyped
<1>7. CountsTyped' /\ Counted'
      <2>1. CASE UNCHANGED <<done, sequence>>
            BY <1>1, <1>3, <2>1 DEF TransferInv, CountsTyped, Counted, Zero, Both, NoSocks
      <2>2. CASE /\ sequence["receiver"] = m.n
                 /\ done' = [done EXCEPT !["receiver"] = @ + 1] \/ done' = done
                 /\ sequence' = [sequence EXCEPT !["receiver"] = @ + 1]
            <3>1. sequence["receiver"] + 1 \in 0..Blocks
                  BY <1>2, <2>2, Sizes
            <3>2. done["receiver"] + 1 \in 0..Blocks
                  BY <1>6, <3>1, Sizes
            <3>3. CountsTyped' BY <2>2, <3>1, <3>2 DEF TransferInv, CountsTyped
            <3>4. /\ sequence'["sender"] = done'["sender"]
                  /\ sequence'["receiver"] = sequence["receiver"] + 1
                  /\ done'["receiver"] \in {done["receiver"], done["receiver"] + 1}
                  BY <1>6, <2>2, Sides DEF TransferInv, CountsTyped
            <3>5. done'["receiver"] <= sequence'["receiver"]
                  BY <1>6, <3>4
            <3> QED BY <1>1, <1>3, <1>4, <3>3, <3>4, <3>5 DEF Counted, Both, NoSocks
      <2> QED BY <1>5, <2>1, <2>2
<1>8. Whole'
      <2>1. done' = done \/ state'["receiver"] = "transfer" BY <1>1, <1>5
      <2> QED BY <1>1, <2>1 DEF TransferInv, Whole
<1>9. \E i \in {"result", "error"} : Tell([is |-> i, re |-> DataId(m.n)]) BY DEF IbbData
<1>10. toSender' \in Seq(AnswersFor(method["receiver"]))
      <2>1. PICK i \in {"result", "error"} : Tell([is |-> i, re |-> DataId(m.n)]) BY <1>9
      <2>2. m.n \in Nat BY <1>2, Sizes
      <2>3. [is |-> i, re |-> DataId(m.n)] \in AnswersFor(method["receiver"])
            BY <2>2, RepliesAnswer, IdFacts
      <2> QED BY <2>1, <2>3, AnswerTyped DEF Tell
<1>11. JobsTyped' BY <1>1 DEF TransferInv, JobsTyped
<1>12. mishap' \in BOOLEAN BY <1>5 DEF TransferInv, RestTyped
<1>13. RestTyped' BY <1>1, <1>12 DEF TransferInv, RestTyped
<1>14. LinksTyped' BY <1>1 DEF TransferInv, LinksTyped
<1>15. HostsTyped' BY <1>1 DEF TransferInv, HostsTyped
<1>16. Conveyed BY DEF Conveyed, Takes
<1> QED BY <1>1, <1>3, <1>7, <1>8, <1>10, <1>11, <1>13, <1>14, <1>15, <1>16, CarriedOver
        DEF Methodical

LEMMA IbbCloseSound == ASSUME TransferInv, NEW m, Takes(m), IbbClose(m) PROVE TransferInv'
<1>1. UNCHANGED <<supports, done, method, requestId, sequence, answered, candidates, candidate,
                  socks, mishap>>
      BY DEF IbbClose, Takes
<1>2. \/ method["receiver"] = "inband" /\ Terminate("receiver", Verdict)
      \/ UNCHANGED <<state, error, iodevice, ending, conn, relay, toWrite, underWay>>
      BY DEF IbbClose, Jobs, Links
<1>3. /\ JobsTyped' /\ LinksTyped' /\ Shrinks
      /\ relay' = relay \/ (relay' = "closed" /\ socks["sender"] = Proxy)
      /\ \/ state' = state /\ error' = error
         \/ /\ state'["receiver"] = "finished" /\ method["receiver"] = "inband"
            /\ \A x \in Side \ {"receiver"} : state'[x] = state[x]
            /\ error'["receiver"] = (IF state["receiver"] = "finished"
                                     THEN error["receiver"] ELSE Verdict)
      <2>1. CASE UNCHANGED <<state, error, iodevice, ending, conn, relay, toWrite, underWay>>
            BY <2>1 DEF TransferInv, JobsTyped, LinksTyped, Shrinks
      <2>2. CASE method["receiver"] = "inband" /\ Terminate("receiver", Verdict)
            <3>1. Verdict \in Causes BY DEF Verdict, Causes
            <3> HIDE DEF Verdict
            <3>2. JobsTyped /\ LinksTyped /\ HostsTyped BY DEF TransferInv
            <3> QED BY <2>2, <3>1, <3>2, Sides, TerminateDoes
      <2> QED BY <1>2, <2>1, <2>2
<1>4. Methodical BY DEF TransferInv
<1>5. \A s \in Side : state'[s] = "none" <=> state[s] = "none"
      BY <1>3, <1>4, Sides DEF Methodical
<1>6. CountsTyped' /\ Counted' BY <1>1, <1>3, CountsKept
<1>7. Whole' BY <1>1, <1>3, Sides, WholeKept DEF Verdict
<1>8. \E i \in {"result", "error"} : Tell([is |-> i, re |-> IqId("close")]) BY DEF IbbClose
<1>9. toSender' \in Seq(AnswersFor(method["receiver"]))
      <2>1. PICK i \in {"result", "error"} : Tell([is |-> i, re |-> IqId("close")]) BY <1>8
      <2>2. [is |-> i, re |-> IqId("close")] \in AnswersFor(method["receiver"])
            BY RepliesAnswer, IdFacts
      <2> QED BY <2>1, <2>2, AnswerTyped DEF Tell
<1>10. RestTyped' BY <1>1 DEF TransferInv, RestTyped
<1>11. HostsTyped' BY <1>1 DEF TransferInv, HostsTyped
<1>12. Conveyed BY DEF Conveyed, Takes
<1> QED BY <1>1, <1>3, <1>4, <1>5, <1>6, <1>7, <1>9, <1>10, <1>11, <1>12, CarriedOver DEF Methodical

LEMMA ByteStreamSetSound == ASSUME TransferInv, NEW m, Takes(m), ByteStreamSet(m) PROVE TransferInv'
<1>1. UNCHANGED <<supports, done, method, requestId, sequence, answered, socks, mishap>>
      BY DEF ByteStreamSet, Takes
<1> DEFINE left == Append([h \in 1..Hosts |-> h], Proxy)
<1>2. left \in Seq(Host)
      <2>1. [h \in 1..Hosts |-> h] \in [1..Hosts -> Host] BY Sizes DEF Host
      <2>2. [h \in 1..Hosts |-> h] \in Seq(Host) BY <2>1, Sizes
      <2> QED BY <2>2, Sizes
<1>3. CASE method["receiver"] = "socks" /\ state["receiver"] = "start" /\ NextHost(left)
      <2> HIDE DEF left
      <2>1. JobsTyped /\ LinksTyped /\ HostsTyped /\ Methodical BY DEF TransferInv
      <2>2. /\ JobsTyped' /\ LinksTyped' /\ Shrinks
            /\ candidate' \in Host \cup {NoHost} /\ candidates' \in Seq(Host)
            /\ toSender' \in {toSender, Append(toSender, [is |-> "error", re |-> IqId("offer")])}
            /\ state'["sender"] = state["sender"]
            /\ \/ UNCHANGED <<state, error>>
               \/ state'["receiver"] = "finished"
                  /\ error'["receiver"] = (IF state["receiver"] = "finished"
                                           THEN error["receiver"] ELSE "Protocol")
            /\ relay' = relay
            BY <1>2, <1>3, <2>1, NextHostDoes
      <2>3. CountsTyped' /\ Counted' BY <1>1, <1>3, <2>2, CountsKept
      <2>4. Whole' BY <1>1, <2>2, WholeKept
      <2>5. \A s \in Side : state'[s] = "none" <=> state[s] = "none" BY <1>3, <2>2, Sides
      <2>6. toSender' \in Seq(AnswersFor(method["receiver"]))
            <3>1. [is |-> "error", re |-> IqId("offer")] \in AnswersFor(method["receiver"])
                  BY RepliesAnswer, IdFacts
            <3>2. toSender \in Seq(AnswersFor(method["receiver"])) BY DEF TransferInv, MailTyped
            <3> QED BY <2>2, <3>1, <3>2, AnswerTyped
      <2>7. RestTyped' BY <1>1 DEF TransferInv, RestTyped
      <2>8. HostsTyped' BY <1>1, <2>2 DEF TransferInv, HostsTyped
      <2>9. Conveyed BY DEF Conveyed, Takes
      <2> QED BY <1>1, <2>1, <2>2, <2>3, <2>4, <2>5, <2>6, <2>7, <2>8, <2>9, CarriedOver DEF Methodical
<1>4. CASE /\ Tell([is |-> "error", re |-> IqId("offer")])
           /\ UNCHANGED <<state, error, iodevice, ending, conn, relay, toWrite, underWay,
                          candidates, candidate>>
      <2>1. toSender' \in Seq(AnswersFor(method["receiver"]))
            <3>1. [is |-> "error", re |-> IqId("offer")] \in AnswersFor(method["receiver"])
                  BY RepliesAnswer, IdFacts
            <3> QED BY <1>4, <3>1, AnswerTyped DEF Tell
      <2>2. JobsTyped' BY <1>4 DEF TransferInv, JobsTyped
      <2>3. LinksTyped' /\ Shrinks BY <1>4 DEF TransferInv, LinksTyped, Shrinks
      <2>4. CountsTyped' /\ Counted' BY <1>1, <1>4, <2>3, CountsKept
      <2>5. Whole' BY <1>1, <1>4, WholeKept
      <2>6. RestTyped' BY <1>1 DEF TransferInv, RestTyped
      <2>7. HostsTyped' BY <1>1, <1>4 DEF TransferInv, HostsTyped
      <2>8. Conveyed /\ Methodical BY DEF Conveyed, Takes, TransferInv
      <2> QED BY <1>1, <1>4, <2>1, <2>2, <2>3, <2>4, <2>5, <2>6, <2>7, <2>8, CarriedOver DEF Methodical
<1> QED BY <1>3, <1>4 DEF ByteStreamSet, Jobs, Links

-----------------------------------------------------------------------------
(* The offer is accepted; what the sender does with an answer.             *)

LEMMA AcceptSound == TransferInv /\ Accept => TransferInv'
<1> SUFFICES ASSUME TransferInv, Accept PROVE TransferInv' OBVIOUS
<1>1. /\ state["receiver"] = "offer"
      /\ UNCHANGED <<supports, method, done, requestId, sequence, candidates, candidate, socks,
                     toReceiver>>
      BY DEF Accept
<1>2. Methodical /\ JobsTyped /\ LinksTyped /\ HostsTyped /\ MailTyped BY DEF TransferInv
<1>3. method["receiver"] \in {"inband", "socks"}
      BY <1>1, <1>2, Sides DEF Methodical, TransferInv, RestTyped, Methods
<1>4. HostsTyped' BY <1>1, <1>2 DEF HostsTyped
<1>5. CASE /\ iodevice' = [iodevice EXCEPT !["receiver"] = TRUE]
           /\ state' = [state EXCEPT !["receiver"] = "start"]
           /\ answered' = TRUE
           /\ Tell([is |-> "siResult", re |-> IqId("si"), method |-> method["receiver"]])
           /\ Links /\ UNCHANGED <<error, ending, mishap>>
      <2>1. JobsTyped' BY <1>2, <1>5 DEF JobsTyped, States
      <2>2. LinksTyped' /\ Shrinks BY <1>2, <1>5 DEF LinksTyped, Shrinks, Links
      <2>3. CountsTyped' /\ Counted' BY <1>1, <2>2, CountsKept
      <2>4. state'["receiver"] = "start" /\ state'["sender"] = state["sender"]
            BY <1>2, <1>5, Sides DEF JobsTyped
      <2>5. Whole' BY <2>4 DEF Whole
      <2>6. toSender' \in Seq(AnswersFor(method["receiver"]))
            <3>1. [is |-> "siResult", re |-> IqId("si"), method |-> method["receiver"]]
                     \in AnswersFor(method["receiver"])
                  BY <1>3 DEF AnswersFor, Accepts
            <3> QED BY <1>5, <3>1, AnswerTyped DEF Tell
      <2>7. RestTyped' BY <1>1, <1>5 DEF TransferInv, RestTyped
      <2>8. \A s \in Side : state'[s] = "none" <=> state[s] = "none" BY <1>1, <2>4, Sides
      <2> QED BY <1>1, <1>2, <1>4, <1>5, <2>1, <2>2, <2>3, <2>5, <2>6, <2>7, <2>8, CarriedOver
              DEF Methodical, Links, Conveyed
<1>6. CASE Terminate("receiver", "Abort") /\ mishap' = TRUE /\ UNCHANGED <<answered, toSender>>
      <2>1. /\ JobsTyped' /\ LinksTyped' /\ Shrinks
            /\ state'["receiver"] = "finished" /\ \A x \in Side \ {"receiver"} : state'[x] = state[x]
            /\ error'["receiver"] = IF state["receiver"] = "finished" THEN error["receiver"] ELSE "Abort"
            /\ relay' = relay \/ (relay' = "closed" /\ socks["sender"] = Proxy)
            BY <1>2, <1>6, Sides, TerminateDoes DEF Causes
      <2>2. CountsTyped' /\ Counted' BY <1>1, <2>1, CountsKept
      <2>3. Whole' BY <1>1, <2>1, WholeKept
      <2>4. RestTyped' BY <1>1, <1>6 DEF TransferInv, RestTyped
      <2>5. \A s \in Side : state'[s] = "none" <=> state[s] = "none" BY <1>1, <2>1, Sides
      <2> QED BY <1>1, <1>2, <1>4, <1>6, <2>1, <2>2, <2>3, <2>4, <2>5, CarriedOver
              DEF Methodical, MailTyped, Conveyed
<1> QED BY <1>5, <1>6 DEF Accept

Learns(m) == toSender # <<>> /\ m = Head(toSender) /\ toSender' = Tail(toSender)
             /\ UNCHANGED supports

LEMMA FirstAnswer ==
    ASSUME TransferInv, NEW m, Learns(m)
    PROVE  /\ m \in AnswersFor(method["receiver"])
           /\ toSender' \in Seq(AnswersFor(method["receiver"]))
           /\ m.is = "siResult" => m.re = IqId("si") /\ m.method = method["receiver"]
                                   /\ method["receiver"] # "none"
           /\ m.is = "used" => m.re = IqId("offer") /\ m.host \in Host
           /\ m.is \in {"result", "error"} => m.re \in IqIds
<1>1. toSender \in Seq(AnswersFor(method["receiver"])) BY DEF TransferInv, MailTyped
<1>2. m \in AnswersFor(method["receiver"]) /\ toSender' \in Seq(AnswersFor(method["receiver"]))
      BY <1>1 DEF Learns
<1>3. \/ m \in Replies \/ m \in Used
      \/ m \in Accepts(method["receiver"]) /\ method["receiver"] # "none"
      BY <1>2 DEF AnswersFor
<1>4. CASE m \in Replies BY <1>2, <1>4 DEF Replies
<1>5. CASE m \in Used BY <1>2, <1>5 DEF Used
<1>6. CASE m \in Accepts(method["receiver"]) /\ method["receiver"] # "none"
      BY <1>2, <1>6 DEF Accepts
<1> QED BY <1>3, <1>4, <1>5, <1>6

LEMMA StreamInitiationResultSound ==
    ASSUME TransferInv, NEW m, Learns(m), StreamInitiationResult(m) PROVE TransferInv'
<1>1. /\ m.is = "siResult"
      /\ UNCHANGED <<supports, error, done, iodevice, ending, sequence, answered, candidates,
                     candidate, conn, socks, relay, toWrite, underWay, mishap>>
      BY DEF StreamInitiationResult, Learns, linkageVars
<1>2. /\ m.method = method["receiver"] /\ method["receiver"] # "none"
      /\ toSender' \in Seq(AnswersFor(method["receiver"]))
      BY <1>1, FirstAnswer
<1>3. MailTyped /\ Methodical /\ Counted BY DEF TransferInv
<1>4. LinksTyped' BY <1>1 DEF TransferInv, LinksTyped
<1>5. HostsTyped' BY <1>1 DEF TransferInv, HostsTyped
<1>6. CountsTyped' BY <1>1 DEF TransferInv, CountsTyped
<1>7. CASE UNCHANGED <<method, state, requestId, toReceiver>>
      <2>1. JobsTyped' BY <1>1, <1>7 DEF TransferInv, JobsTyped
      <2>2. RestTyped' BY <1>1, <1>7 DEF TransferInv, RestTyped
      <2>3. Counted' BY <1>1, <1>3, <1>7 DEF Counted, Zero, Both, NoSocks
      <2>4. Whole' BY <1>1, <1>7 DEF TransferInv, Whole
      <2> QED BY <1>1, <1>2, <1>3, <1>4, <1>5, <1>6, <1>7, <2>1, <2>2, <2>3, <2>4, CarriedOver
              DEF Methodical, Conveyed
<1>8. CASE /\ state["sender"] = "offer"
           /\ method' = [method EXCEPT !["sender"] = m.method]
           /\ state' = [state EXCEPT !["sender"] = "start"]
           /\ \/ m.method = "inband" /\ Ask(IqId("open"), [is |-> "open"])
              \/ m.method = "socks" /\ requestId' = IqId("proxy") /\ UNCHANGED toReceiver
      <2>1. /\ method'["sender"] = method["receiver"] /\ method'["receiver"] = method["receiver"]
            /\ state'["sender"] = "start" /\ state'["receiver"] = state["receiver"]
            BY <1>2, <1>8, Sides DEF TransferInv, RestTyped, JobsTyped
      <2>2. JobsTyped' BY <1>1, <1>8 DEF TransferInv, JobsTyped, States
      <2>3. RestTyped' BY <1>1, <1>2, <1>8, Sides DEF TransferInv, RestTyped
      <2>4. Counted' BY <1>1, <1>3, <2>1 DEF Counted, Zero, Both, NoSocks
      <2>5. Whole' BY <1>1, <2>1 DEF TransferInv, Whole
      <2>6. method["sender"] = "none" => toReceiver = <<>> BY <1>2, <1>3 DEF MailTyped
      <2>7. CASE m.method = "inband" /\ Ask(IqId("open"), [is |-> "open"])
            <3>1. toReceiver \in Seq(IbbRequests)
                  <4>1. CASE method["sender"] = "none" BY <2>6, <4>1
                  <4>2. CASE method["sender"] # "none"
                        BY <1>2, <1>3, <2>7, <4>2 DEF MailTyped, Methodical
                  <4> QED BY <4>1, <4>2
            <3>2. [is |-> "open"] \in IbbRequests BY DEF IbbRequests
            <3>3. toReceiver' \in Seq(IbbRequests) /\ requestId' = IqId("open")
                  BY <2>7, <3>1, <3>2 DEF Ask
            <3>4. MailTyped' BY <1>2, <2>1, <2>7, <3>3 DEF MailTyped
            <3>5. Methodical' BY <1>1, <1>2, <1>3, <2>1, <2>7, <3>3, IdFacts DEF Methodical
            <3> QED BY <1>4, <1>5, <1>6, <2>2, <2>3, <2>4, <2>5, <3>4, <3>5 DEF TransferInv
      <2>8. CASE m.method = "socks" /\ requestId' = IqId("proxy") /\ UNCHANGED toReceiver
            <3>1. toReceiver' \in Seq(SocksRequests)
                  <4>1. CASE method["sender"] = "none" BY <2>6, <2>8, <4>1
                  <4>2. CASE method["sender"] # "none"
                        BY <1>2, <1>3, <2>8, <4>2 DEF MailTyped, Methodical
                  <4> QED BY <4>1, <4>2
            <3>2. MailTyped' BY <1>2, <2>1, <2>8, <3>1 DEF MailTyped
            <3>3. Methodical' BY <1>1, <1>2, <1>3, <2>1, <2>8 DEF Methodical
            <3> QED BY <1>4, <1>5, <1>6, <2>2, <2>3, <2>4, <2>5, <3>2, <3>3 DEF TransferInv
      <2> QED BY <1>8, <2>7, <2>8
<1> QED BY <1>7, <1>8 DEF StreamInitiationResult

\* The sender's job ends, and it may ask for the stream to be closed.
LEMMA SenderEnds ==
    ASSUME TransferInv, NEW cause \in Causes, Terminate("sender", cause), Conveyed,
           UNCHANGED <<supports, method, done, sequence, answered, candidates, candidate, socks>>,
           mishap' \in BOOLEAN,
           toSender' \in Seq(AnswersFor(method["receiver"])),
           requestId' \in SocksIds => method["sender"] = "socks",
           state["sender"] # "none"
    PROVE  TransferInv'
<1>1. Methodical /\ JobsTyped /\ LinksTyped /\ HostsTyped BY DEF TransferInv
<1>2. /\ JobsTyped' /\ LinksTyped' /\ Shrinks
      /\ state'["sender"] = "finished" /\ state'["receiver"] = state["receiver"]
      /\ error'["receiver"] = error["receiver"]
      /\ relay' = relay \/ (relay' = "closed" /\ socks["sender"] = Proxy)
      BY <1>1, Sides, TerminateDoes
<1>3. CountsTyped' /\ Counted' BY <1>2, CountsKept
<1>4. Whole' BY <1>2, WholeKept
<1>5. RestTyped' BY DEF TransferInv, RestTyped
<1>6. HostsTyped' BY <1>1 DEF HostsTyped
<1>7. \A s \in Side : state'[s] = "none" <=> state[s] = "none" BY <1>2, Sides
<1> QED BY <1>1, <1>2, <1>3, <1>4, <1>5, <1>6, <1>7, CarriedOver DEF Methodical

LEMMA ResponseSound == ASSUME TransferInv, NEW m, Learns(m), Response(m) PROVE TransferInv'
<1>1. /\ m.is \in {"result", "error"}
      /\ UNCHANGED <<supports, method, answered, candidates, candidate, socks, mishap>>
      BY DEF Response, Learns
<1>2. toSender' \in Seq(AnswersFor(method["receiver"])) BY FirstAnswer
<1>3. MailTyped /\ Methodical /\ Counted BY DEF TransferInv
<1>4. HostsTyped' BY <1>1 DEF TransferInv, HostsTyped
<1>5. RestTyped' BY <1>1 DEF TransferInv, RestTyped
<1>6. method["sender"] # "none" => state["sender"] # "none" /\ method["receiver"] = method["sender"]
      BY <1>3 DEF Methodical
<1>7. CASE /\ UNCHANGED <<state, error, iodevice, ending, conn, relay, toWrite, underWay, done, sequence,
                          requestId, toReceiver>>
      <2>1. JobsTyped' BY <1>7 DEF TransferInv, JobsTyped
      <2>2. LinksTyped' /\ Shrinks BY <1>7 DEF TransferInv, LinksTyped, Shrinks
      <2>3. CountsTyped' /\ Counted' BY <1>1, <1>7, <2>2, CountsKept
      <2>4. Whole' BY <1>7, WholeKept
      <2> QED BY <1>1, <1>2, <1>3, <1>4, <1>5, <1>7, <2>1, <2>2, <2>3, <2>4, CarriedOver
              DEF Methodical, Conveyed
<1>8. CASE /\ method["sender"] = "inband"
           /\ Ask(IqId("close"), [is |-> "close"])
           /\ \E cause \in {"NoError", "Protocol"} : Terminate("sender", cause)
           /\ UNCHANGED <<sequence, done>>
      <2>1. [is |-> "close"] \in IbbRequests BY DEF IbbRequests
      <2>2. Conveyed /\ requestId' \notin SocksIds BY <1>8, <2>1, IdFacts DEF Conveyed, Ask
      <2>3. mishap' \in BOOLEAN BY <1>1 DEF TransferInv, RestTyped
      <2>4. PICK cause \in Causes : Terminate("sender", cause) BY <1>8 DEF Causes
      <2> QED BY <1>1, <1>2, <1>6, <1>8, <2>2, <2>3, <2>4, SenderEnds
<1>9. CASE /\ method["sender"] # "inband" /\ Terminate("sender", "Abort")
           /\ UNCHANGED <<done, sequence, requestId, toReceiver>>
      <2>1. CASE state["sender"] = "none"
            <3>1. toReceiver = <<>> /\ method["receiver"] = "none" BY <1>3, <2>1 DEF Methodical
            <3>2. JobsTyped /\ LinksTyped /\ HostsTyped BY DEF TransferInv
            <3>3. /\ JobsTyped' /\ LinksTyped' /\ Shrinks
                  /\ state'["sender"] = "finished" /\ state'["receiver"] = state["receiver"]
                  /\ error'["receiver"] = error["receiver"]
                  /\ relay' = relay \/ (relay' = "closed" /\ socks["sender"] = Proxy)
                  BY <1>9, <3>2, Sides, TerminateDoes DEF Causes
            <3>4. CountsTyped' /\ Counted' BY <1>1, <1>9, <3>3, CountsKept
            <3>5. Whole' BY <1>9, <3>3, WholeKept
            <3>6. MailTyped' BY <1>1, <1>2, <1>9, <3>1 DEF MailTyped
            <3>7. Methodical' BY <1>1, <1>3, <1>9, <3>1, <3>3 DEF Methodical
            <3> QED BY <1>4, <1>5, <3>3, <3>4, <3>5, <3>6, <3>7 DEF TransferInv
      <2>2. CASE state["sender"] # "none"
            <3>1. mishap' \in BOOLEAN BY <1>1 DEF TransferInv, RestTyped
            <3> QED BY <1>1, <1>2, <1>3, <1>9, <2>2, <3>1, SenderEnds
                    DEF Causes, Conveyed, Methodical
      <2> QED BY <2>1, <2>2
<1>10. CASE /\ method["sender"] = "inband" /\ done["sender"] < Blocks
            /\ state' = [state EXCEPT !["sender"] = "transfer"]
            /\ Ask(DataId(sequence["sender"]), [is |-> "data", n |-> sequence["sender"]])
            /\ sequence' = [sequence EXCEPT !["sender"] = @ + 1]
            /\ done' = [done EXCEPT !["sender"] = @ + 1]
            /\ UNCHANGED <<conn, relay, toWrite, underWay, error, iodevice, ending>>
       <2>1. /\ method["receiver"] = "inband" /\ sequence["sender"] = done["sender"]
             /\ done["sender"] \in 0..Blocks
             BY <1>3, <1>6, <1>10, Sides DEF Counted, TransferInv, CountsTyped
       <2>2. sequence["sender"] \in 0..(Blocks - 1) /\ done["sender"] + 1 \in 0..Blocks
             /\ sequence["sender"] \in Nat
             BY <1>10, <2>1, Sizes
       <2>3. [is |-> "data", n |-> sequence["sender"]] \in IbbRequests BY <2>2 DEF IbbRequests
       <2>4. Conveyed /\ requestId' \notin SocksIds
             BY <1>10, <2>2, <2>3, IdFacts DEF Conveyed, Ask
       <2>5. CountsTyped' BY <1>10, <2>1, <2>2 DEF TransferInv, CountsTyped
       <2>6. /\ sequence'["sender"] = done'["sender"]
             /\ sequence'["receiver"] = sequence["receiver"]
             /\ done'["receiver"] = done["receiver"]
             BY <1>10, <2>1, Sides DEF TransferInv, CountsTyped
       <2>7. Counted' BY <1>1, <1>3, <1>10, <2>1, <2>6 DEF Counted, Both, NoSocks
       <2>8. JobsTyped' BY <1>10 DEF TransferInv, JobsTyped, States
       <2>9. LinksTyped' BY <1>10 DEF TransferInv, LinksTyped
       <2>10. state'["sender"] = "transfer" /\ state'["receiver"] = state["receiver"]
              BY <1>10, Sides DEF TransferInv, JobsTyped
       <2>11. Whole' BY <1>10, <2>6, <2>10 DEF TransferInv, Whole
       <2>12. \A s \in Side : state'[s] = "none" <=> state[s] = "none"
              BY <1>6, <1>10, <2>10, Sides
       <2> QED BY <1>1, <1>2, <1>3, <1>4, <1>5, <1>10, <2>4, <2>5, <2>7, <2>8, <2>9, <2>11, <2>12,
                  CarriedOver DEF Methodical
<1> QED BY <1>7, <1>8, <1>9, <1>10 DEF Response, IbbResponse, Jobs, Links

-----------------------------------------------------------------------------
(* SOCKS5.                                                                 *)

\* A step of the sender's data.
LEMMA DataSound ==
    ASSUME TransferInv, NEW u \in 0..toWrite, SendData(u), method["receiver"] = "socks",
           UNCHANGED <<supports, method, sequence, answered, candidates, candidate, toReceiver,
                       mishap>>,
           UNCHANGED socks,
           toSender' \in Seq(AnswersFor(method["receiver"])),
           requestId' \in SocksIds => method["sender"] = "socks",
           state["sender"] # "none"
    PROVE  TransferInv'
<1>1. JobsTyped /\ LinksTyped /\ HostsTyped /\ CountsTyped /\ Methodical /\ Counted BY DEF TransferInv
<1>2. /\ JobsTyped' /\ LinksTyped'
      /\ done' \in [Side -> 0..Blocks] /\ done'["receiver"] = done["receiver"]
      /\ done["receiver"] + underWay + toWrite <= done["sender"] =>
            done'["receiver"] + underWay' + toWrite' <= done'["sender"]
      /\ state'["receiver"] = state["receiver"] /\ error'["receiver"] = error["receiver"]
      /\ state'["sender"] # "none"
      /\ relay' = relay \/ (relay' = "closed" /\ socks["sender"] = Proxy)
      BY <1>1, SendDataDoes
<1>3. CountsTyped' BY <1>1, <1>2 DEF CountsTyped
<1>4. Counted' BY <1>1, <1>2 DEF Counted, Zero
<1>5. Whole' BY <1>2 DEF TransferInv, Whole
<1>6. RestTyped' BY DEF TransferInv, RestTyped
<1>7. HostsTyped' BY <1>1 DEF HostsTyped
<1>8. \A s \in Side : state'[s] = "none" <=> state[s] = "none" BY <1>2, Sides
<1> QED BY <1>1, <1>2, <1>3, <1>4, <1>5, <1>6, <1>7, <1>8, CarriedOver DEF Methodical, Conveyed

\* A request for one of these was made by a sender that has the method.
LEMMA Requested ==
    ASSUME TransferInv, requestId \in SocksIds
    PROVE  /\ method["sender"] = "socks" /\ method["receiver"] = "socks"
           /\ state["sender"] # "none"
BY DEF TransferInv, Methodical

LEMMA SocksIdFacts ==
    IqId("proxy") \in SocksIds /\ IqId("offer") \in SocksIds /\ IqId("activate") \in SocksIds
BY DEF SocksIds

\* What is in use by the receiver is in use by the method.
LEMMA InUse ==
    ASSUME TransferInv, candidate # NoHost \/ (\E s \in Side : socks[s] # NoHost) \/ relay # "none"
                  \/ toWrite > 0 \/ underWay > 0
    PROVE  method["receiver"] = "socks" /\ state["receiver"] # "none" /\ state["sender"] # "none"
<1>1. Counted /\ Methodical /\ LinksTyped BY DEF TransferInv
<1>2. method["receiver"] = "socks"
      <2>1. CASE relay # "none" BY <1>1, <2>1 DEF Methodical
      <2>2. CASE toWrite > 0 \/ underWay > 0 BY <1>1, <2>2 DEF Counted
      <2>3. CASE candidate # NoHost \/ \E s \in Side : socks[s] # NoHost
            BY <1>1, <2>3, Sides DEF Counted, NoSocks, Both
      <2> QED BY <2>1, <2>2, <2>3
<1> QED BY <1>1, <1>2 DEF Methodical

LEMMA ByteStreamResultSound == ASSUME TransferInv, NEW m, Learns(m), ByteStreamResult(m) PROVE TransferInv'
<1>1. /\ m.is = "used"
      /\ UNCHANGED <<supports, method, requestId, sequence, answered, candidates, candidate,
                     toReceiver, mishap>>
      BY DEF ByteStreamResult, Learns
<1>2. /\ toSender' \in Seq(AnswersFor(method["receiver"])) /\ m.re = IqId("offer")
      BY <1>1, FirstAnswer
<1>3. MailTyped /\ Methodical /\ Counted BY DEF TransferInv
<1>4. RestTyped' BY <1>1 DEF TransferInv, RestTyped
<1>5. requestId = m.re => /\ method["sender"] = "socks" /\ method["receiver"] = "socks"
                          /\ state["sender"] # "none"
      BY <1>2, Requested, SocksIdFacts
<1>6. CASE UNCHANGED <<state, error, iodevice, ending, conn, relay, toWrite, underWay, done, socks>>
      <2>1. JobsTyped' BY <1>6 DEF TransferInv, JobsTyped
      <2>2. LinksTyped' /\ Shrinks BY <1>6 DEF TransferInv, LinksTyped, Shrinks
      <2>3. CountsTyped' /\ Counted' BY <1>1, <1>6, <2>2, CountsKept
      <2>4. Whole' BY <1>6, WholeKept
      <2>5. HostsTyped' BY <1>1, <1>6 DEF TransferInv, HostsTyped
      <2> QED BY <1>1, <1>2, <1>3, <1>4, <1>6, <2>1, <2>2, <2>3, <2>4, <2>5, CarriedOver
              DEF Methodical, Conveyed
<1>7. CASE /\ requestId = m.re /\ socks' = [socks EXCEPT !["sender"] = Proxy]
           /\ relay' = "connecting"
           /\ UNCHANGED <<state, error, iodevice, ending, done, conn, toWrite, underWay>>
      <2>1. JobsTyped' BY <1>7 DEF TransferInv, JobsTyped
      <2>2. LinksTyped' /\ Shrinks BY <1>7 DEF TransferInv, LinksTyped, Shrinks, Relays
      <2>3. CountsTyped' /\ Counted' BY <1>1, <1>5, <1>7, <2>2, CountsKept
      <2>4. Whole' BY <1>7, WholeKept
      <2>5. HostsTyped' BY <1>1, <1>7, Sizes DEF TransferInv, HostsTyped
      <2> QED BY <1>1, <1>2, <1>3, <1>4, <1>5, <1>7, <2>1, <2>2, <2>3, <2>4, <2>5, CarriedOver
              DEF Methodical, Conveyed
<1>8. CASE requestId = m.re /\ UNCHANGED socks /\ Terminate("sender", "Protocol") /\ UNCHANGED done
      <2>1. mishap' \in BOOLEAN BY <1>1 DEF TransferInv, RestTyped
      <2>2. UNCHANGED socks /\ UNCHANGED done BY <1>8
      <2> QED BY <1>1, <1>2, <1>3, <1>5, <1>8, <2>1, <2>2, SenderEnds DEF Causes, Conveyed, Methodical
<1>9. CASE requestId = m.re /\ UNCHANGED socks /\ SendData(0)
      <2>1. 0 \in 0..toWrite BY DEF TransferInv, LinksTyped
      <2> QED BY <1>1, <1>2, <1>3, <1>5, <1>9, <2>1, DataSound DEF Methodical
<1> QED BY <1>6, <1>7, <1>8, <1>9 DEF ByteStreamResult, Jobs, Links

LEMMA ProxyAnswersSound == TransferInv /\ ProxyAnswers => TransferInv'
<1> SUFFICES ASSUME TransferInv, ProxyAnswers PROVE TransferInv' OBVIOUS
<1>1. /\ requestId = IqId("proxy") /\ requestId' = IqId("offer")
      /\ toReceiver' = Append(toReceiver, [is |-> "offer"])
      /\ UNCHANGED <<supports, state, error, method, done, iodevice, ending, sequence, answered,
                     candidates, candidate, conn, socks, relay, toWrite, underWay, toSender, mishap>>
      BY DEF ProxyAnswers, Ask, linkageVars
<1>2. method["sender"] = "socks" BY <1>1, Requested, SocksIdFacts
<1>3. [is |-> "offer"] \in SocksRequests BY DEF SocksRequests
<1>4. Conveyed BY <1>1, <1>2, <1>3 DEF Conveyed
<1>5. JobsTyped' BY <1>1 DEF TransferInv, JobsTyped
<1>6. LinksTyped' /\ Shrinks BY <1>1 DEF TransferInv, LinksTyped, Shrinks
<1>7. CountsTyped' /\ Counted' BY <1>1, <1>6, CountsKept
<1>8. Whole' BY <1>1, WholeKept
<1>9. RestTyped' BY <1>1 DEF TransferInv, RestTyped
<1>10. HostsTyped' BY <1>1 DEF TransferInv, HostsTyped
<1> QED BY <1>1, <1>2, <1>4, <1>5, <1>6, <1>7, <1>8, <1>9, <1>10, CarriedOver
        DEF TransferInv, Methodical, MailTyped

LEMMA ProxyReadySound == TransferInv /\ ProxyReady => TransferInv'
<1> SUFFICES ASSUME TransferInv, ProxyReady PROVE TransferInv' OBVIOUS
<1>1. /\ relay = "connecting" /\ relay' = "up"
      /\ UNCHANGED <<supports, state, error, method, done, iodevice, ending, sequence, answered,
                     candidates, candidate, conn, socks, toWrite, underWay, toReceiver, toSender,
                     mishap>>
      BY DEF ProxyReady, Jobs, SenderRest, mailVars
<1>2. method["sender"] = "socks" BY <1>1 DEF TransferInv, Methodical
<1>3. JobsTyped' BY <1>1 DEF TransferInv, JobsTyped
<1>4. LinksTyped' /\ Shrinks BY <1>1 DEF TransferInv, LinksTyped, Shrinks, Relays
<1>5. CountsTyped' /\ Counted' BY <1>1, <1>4, CountsKept
<1>6. Whole' BY <1>1, WholeKept
<1>7. RestTyped' BY <1>1 DEF TransferInv, RestTyped
<1>8. HostsTyped' BY <1>1 DEF TransferInv, HostsTyped
<1> QED BY <1>1, <1>2, <1>3, <1>4, <1>5, <1>6, <1>7, <1>8, CarriedOver
        DEF TransferInv, MailTyped, Conveyed

LEMMA ProxyActivatesSound == TransferInv /\ ProxyActivates => TransferInv'
<1> SUFFICES ASSUME TransferInv, ProxyActivates PROVE TransferInv' OBVIOUS
<1>1. /\ requestId = IqId("activate") /\ requestId' = IqId("none")
      /\ UNCHANGED <<supports, method, sequence, answered, candidates, candidate,
                     socks, toReceiver, toSender, mishap>>
      BY DEF ProxyActivates, SenderRest, mailVars
<1>2. /\ method["sender"] = "socks" /\ method["receiver"] = "socks" /\ state["sender"] # "none"
      BY <1>1, Requested, SocksIdFacts
<1>3. toSender' \in Seq(AnswersFor(method["receiver"])) BY <1>1 DEF TransferInv, MailTyped
<1>4. CASE Terminate("sender", "Protocol") /\ UNCHANGED done
      <2>1. mishap' \in BOOLEAN /\ UNCHANGED done BY <1>1, <1>4 DEF TransferInv, RestTyped
      <2> QED BY <1>1, <1>2, <1>3, <1>4, <2>1, SenderEnds DEF Causes, Conveyed
<1>5. CASE SendData(IF relay = "up" THEN toWrite ELSE 0)
      <2>1. (IF relay = "up" THEN toWrite ELSE 0) \in 0..toWrite BY DEF TransferInv, LinksTyped
      <2> QED BY <1>1, <1>2, <1>3, <1>5, <2>1, DataSound
<1>6. CASE /\ \E cause \in Causes : error' = [error EXCEPT !["sender"] = cause]
           /\ state["sender"] = "finished"
           /\ ending' = [ending EXCEPT !["sender"] = TRUE]
           /\ UNCHANGED <<state, iodevice, done, conn, relay, toWrite, underWay>>
      <2>1. JobsTyped' BY <1>2, <1>6, Sides DEF TransferInv, JobsTyped
      <2>2. LinksTyped' /\ Shrinks BY <1>6 DEF TransferInv, LinksTyped, Shrinks
      <2>3. CountsTyped' /\ Counted' BY <1>1, <1>6, <2>2, CountsKept
      <2>4. error'["receiver"] = error["receiver"] BY <1>6, Sides DEF TransferInv, JobsTyped
      <2>5. Whole' BY <1>6, <2>4 DEF TransferInv, Whole
      <2>6. RestTyped' /\ HostsTyped' BY <1>1, <1>6 DEF TransferInv, RestTyped, HostsTyped
      <2> QED BY <1>1, <1>2, <1>3, <1>6, <2>1, <2>2, <2>3, <2>5, <2>6, CarriedOver
              DEF TransferInv, Methodical, Conveyed
<1>7. \A c \in BOOLEAN : (IF c THEN "NoError" ELSE "FileAccess") \in Causes BY DEF Causes
<1> QED BY <1>4, <1>5, <1>6, <1>7 DEF ProxyActivates, Links

LEMMA BytesWrittenSound == TransferInv /\ BytesWritten => TransferInv'
<1> SUFFICES ASSUME TransferInv, BytesWritten PROVE TransferInv' OBVIOUS
<1>1. /\ toWrite > 0 /\ SendData(toWrite - 1)
      /\ UNCHANGED <<supports, method, sequence, answered, candidates, candidate,
                     socks, toReceiver, toSender, mishap, requestId>>
      BY DEF BytesWritten, SenderRest, mailVars
<1>2. method["receiver"] = "socks" /\ state["sender"] # "none" BY <1>1, InUse
<1>3. toSender' \in Seq(AnswersFor(method["receiver"])) BY <1>1 DEF TransferInv, MailTyped
<1>4. requestId' \in SocksIds => method["sender"] = "socks" BY <1>1 DEF TransferInv, Methodical
<1>5. toWrite - 1 \in 0..toWrite BY <1>1 DEF TransferInv, LinksTyped
<1> QED BY <1>1, <1>2, <1>3, <1>4, <1>5, DataSound

LEMMA SenderDisconnectedSound == TransferInv /\ SenderDisconnected => TransferInv'
<1> SUFFICES ASSUME TransferInv, SenderDisconnected PROVE TransferInv' OBVIOUS
<1>1. /\ socks["sender"] # NoHost
      /\ UNCHANGED <<supports, method, sequence, answered, candidates, candidate,
                     socks, toReceiver, toSender, mishap, requestId, done>>
      BY DEF SenderDisconnected, SenderRest, mailVars
<1>2. state["sender"] # "none" BY <1>1, Sides, InUse
<1>3. toSender' \in Seq(AnswersFor(method["receiver"])) BY <1>1 DEF TransferInv, MailTyped
<1>4. requestId' \in SocksIds => method["sender"] = "socks" BY <1>1 DEF TransferInv, Methodical
<1>5. PICK cause \in Causes : Terminate("sender", cause) BY DEF SenderDisconnected, Causes
<1>6. mishap' \in BOOLEAN BY <1>1 DEF TransferInv, RestTyped
<1> QED BY <1>1, <1>2, <1>3, <1>4, <1>5, <1>6, SenderEnds DEF Conveyed

-----------------------------------------------------------------------------
(* SOCKS5: the receiver.                                                   *)

\* A step of the receiver's sockets that leaves the jobs as they are.
LEMMA SocketsSound ==
    ASSUME TransferInv, method["receiver"] = "socks", Shrinks, LinksTyped', HostsTyped',
           UNCHANGED <<supports, state, error, method, done, iodevice, ending, requestId, sequence,
                       answered, relay, toReceiver, toSender>>,
           mishap' \in BOOLEAN,
           socks'["sender"] = socks["sender"] \/ socks'["sender"] # Proxy
    PROVE  TransferInv'
<1>1. JobsTyped' BY DEF TransferInv, JobsTyped
<1>2. Counted BY DEF TransferInv
<1>3. /\ CountsTyped'
      /\ done["receiver"] + underWay' + toWrite' <= done["sender"]
      <2>1. toWrite \in Nat /\ underWay \in Nat /\ toWrite' \in Nat /\ underWay' \in Nat
            BY DEF TransferInv, LinksTyped, Shrinks
      <2>2. done["receiver"] \in Nat /\ done["sender"] \in Nat BY Sides DEF TransferInv, CountsTyped
      <2>3. \A a, b, c, d, e, f \in Nat :
               a + b <= c + d => (e + c + d <= f => e + a + b <= f)
            OBVIOUS
      <2>4. underWay' + toWrite' <= underWay + toWrite BY DEF Shrinks
      <2>5. done["receiver"] + underWay' + toWrite' <= done["sender"]
            BY <1>2, <2>1, <2>2, <2>3, <2>4 DEF Counted
      <2> QED BY <2>5 DEF TransferInv, CountsTyped
<1>4. Counted' BY <1>2, <1>3 DEF Counted, Zero, Both
<1>5. Whole' BY WholeKept
<1>6. RestTyped' BY DEF TransferInv, RestTyped
<1> QED BY <1>1, <1>3, <1>4, <1>5, <1>6, CarriedOver DEF TransferInv, Methodical, MailTyped, Conveyed

LEMMA CandidateConnectedSound == ASSUME TransferInv, NEW h \in Host, CandidateConnected(h) PROVE TransferInv'
<1>1. /\ candidate = h /\ conn' = [conn EXCEPT ![h] = "greeted"]
      /\ UNCHANGED <<supports, state, error, method, done, iodevice, ending, requestId, sequence,
                     answered, candidates, candidate, socks, relay, toWrite, underWay, toReceiver,
                     toSender, mishap>>
      BY DEF CandidateConnected, Jobs, CandidateRest
<1>2. method["receiver"] = "socks" BY <1>1, Sizes, InUse
<1>3. LinksTyped' /\ Shrinks BY <1>1 DEF TransferInv, LinksTyped, Shrinks, SocketStates
<1>4. HostsTyped' BY <1>1 DEF TransferInv, HostsTyped
<1>5. mishap' \in BOOLEAN BY <1>1 DEF TransferInv, RestTyped
<1> QED BY <1>1, <1>2, <1>3, <1>4, <1>5, SocketsSound

LEMMA SocksServerConnectedSound ==
    ASSUME TransferInv, NEW h \in Host, SocksServerConnected(h) PROVE TransferInv'
<1>1. /\ candidate = h /\ conn' = [conn EXCEPT ![h] = "served"]
      /\ socks' = IF h = Proxy THEN socks ELSE [socks EXCEPT !["sender"] = h]
      /\ UNCHANGED <<supports, state, error, method, done, iodevice, ending, requestId, sequence,
                     answered, candidates, candidate, relay, toWrite, underWay, toReceiver,
                     toSender, mishap>>
      BY DEF SocksServerConnected, Jobs, CandidateRest
<1>2. method["receiver"] = "socks" BY <1>1, Sizes, InUse
<1>3. LinksTyped' /\ Shrinks BY <1>1 DEF TransferInv, LinksTyped, Shrinks, SocketStates
<1>4. HostsTyped' BY <1>1 DEF TransferInv, HostsTyped
<1>5. mishap' \in BOOLEAN BY <1>1 DEF TransferInv, RestTyped
<1>6. socks'["sender"] = socks["sender"] \/ socks'["sender"] # Proxy
      BY <1>1, Sides DEF TransferInv, HostsTyped
<1> QED BY <1>1, <1>2, <1>3, <1>4, <1>5, <1>6, SocketsSound

LEMMA CandidateReadySound == ASSUME TransferInv, NEW h \in Host, CandidateReady(h) PROVE TransferInv'
<1>1. /\ candidate = h /\ candidate' = NoHost
      /\ conn' = [conn EXCEPT ![h] = "ready"]
      /\ socks' = [socks EXCEPT !["receiver"] = h]
      /\ state' = [state EXCEPT !["receiver"] = "transfer"]
      /\ toSender' = Append(toSender, [is |-> "used", re |-> IqId("offer"), host |-> h])
      /\ UNCHANGED <<supports, error, method, done, iodevice, ending, requestId, sequence,
                     answered, candidates, relay, toWrite, underWay, toReceiver, mishap>>
      BY DEF CandidateReady, CandidateRest, Tell
<1>2. method["receiver"] = "socks" /\ state["receiver"] # "none" BY <1>1, Sizes, InUse
<1>3. LinksTyped' /\ Shrinks BY <1>1 DEF TransferInv, LinksTyped, Shrinks, SocketStates
<1>4. HostsTyped' BY <1>1, Sides DEF TransferInv, HostsTyped
<1>5. JobsTyped' BY <1>1 DEF TransferInv, JobsTyped, States
<1>6. CountsTyped' BY <1>1 DEF TransferInv, CountsTyped
<1>7. Counted' BY <1>1, <1>2 DEF TransferInv, Counted, Zero
<1>8. state'["receiver"] = "transfer" /\ state'["sender"] = state["sender"]
      BY <1>1, Sides DEF TransferInv, JobsTyped
<1>9. Whole' BY <1>8 DEF Whole
<1>10. RestTyped' BY <1>1 DEF TransferInv, RestTyped
<1>11. \A s \in Side : state'[s] = "none" <=> state[s] = "none" BY <1>2, <1>8, Sides
<1>12. toSender' \in Seq(AnswersFor(method["receiver"]))
       <2>1. [is |-> "used", re |-> IqId("offer"), host |-> h] \in AnswersFor(method["receiver"])
             BY DEF AnswersFor, Used
       <2> QED BY <1>1, <2>1, AnswerTyped
<1>13. socks'["sender"] = socks["sender"] BY <1>1, Sides DEF TransferInv, HostsTyped
<1> QED BY <1>1, <1>3, <1>4, <1>5, <1>6, <1>7, <1>9, <1>10, <1>11, <1>12, <1>13, CarriedOver
        DEF TransferInv, Methodical, Conveyed

LEMMA NextHostSound ==
    ASSUME TransferInv, candidate \in Host, NEW left \in Seq(Host), NextHost(left), CandidateRest,
           UNCHANGED socks
    PROVE  TransferInv'
<1>1. UNCHANGED <<supports, method, done, requestId, sequence, answered, toReceiver, mishap, socks>>
      BY DEF CandidateRest
<1>2. method["receiver"] = "socks" /\ state["receiver"] # "none" BY Sizes, InUse
<1>3. JobsTyped /\ LinksTyped /\ HostsTyped /\ Methodical BY DEF TransferInv
<1>4. /\ JobsTyped' /\ LinksTyped' /\ Shrinks
      /\ candidate' \in Host \cup {NoHost} /\ candidates' \in Seq(Host)
      /\ toSender' \in {toSender, Append(toSender, [is |-> "error", re |-> IqId("offer")])}
      /\ state'["sender"] = state["sender"]
      /\ \/ UNCHANGED <<state, error>>
         \/ state'["receiver"] = "finished"
            /\ error'["receiver"] = (IF state["receiver"] = "finished"
                                     THEN error["receiver"] ELSE "Protocol")
      /\ relay' = relay
      BY <1>3, NextHostDoes
<1>5. CountsTyped' /\ Counted' BY <1>1, <1>2, <1>4, CountsKept
<1>6. Whole' BY <1>1, <1>4, WholeKept
<1>7. \A s \in Side : state'[s] = "none" <=> state[s] = "none" BY <1>2, <1>4, Sides
<1>8. toSender' \in Seq(AnswersFor(method["receiver"]))
      <2>1. [is |-> "error", re |-> IqId("offer")] \in AnswersFor(method["receiver"])
            BY RepliesAnswer, IdFacts
      <2>2. toSender \in Seq(AnswersFor(method["receiver"])) BY DEF TransferInv, MailTyped
      <2> QED BY <1>4, <2>1, <2>2, AnswerTyped
<1>9. RestTyped' BY <1>1 DEF TransferInv, RestTyped
<1>10. HostsTyped' BY <1>1, <1>3, <1>4 DEF HostsTyped
<1> QED BY <1>1, <1>3, <1>4, <1>5, <1>6, <1>7, <1>8, <1>9, <1>10, CarriedOver DEF Methodical, Conveyed

LEMMA CandidateLostSound ==
    ASSUME TransferInv, NEW h \in Host, CandidateDisconnected(h) \/ CandidateTimeout(h)
    PROVE  TransferInv'
<1>1. candidates \in Seq(Host) BY DEF TransferInv, HostsTyped
<1>2. candidates # <<>> => Tail(candidates) \in Seq(Host) BY <1>1
<1>3. candidate \in Host /\ CandidateRest /\ UNCHANGED socks
      BY DEF CandidateDisconnected, CandidateTimeout
<1>4. \E left \in Seq(Host) : NextHost(left)
      BY <1>1, <1>2 DEF CandidateDisconnected, CandidateTimeout
<1>5. PICK left \in Seq(Host) : NextHost(left) BY <1>4
<1> QED BY <1>3, <1>5, NextHostSound

LEMMA ReceiveDataSound == TransferInv /\ ReceiveData => TransferInv'
<1> SUFFICES ASSUME TransferInv, ReceiveData PROVE TransferInv' OBVIOUS
<1>1. PICK n \in 1..underWay :
          /\ \/ done' = [done EXCEPT !["receiver"] = @ + n] /\ UNCHANGED mishap
             \/ mishap' = TRUE /\ UNCHANGED done
          /\ \/ /\ done'["receiver"] = Blocks
                /\ state' = [state EXCEPT !["receiver"] = "finished"]
                /\ error' = [error EXCEPT !["receiver"] = "NoError"]
                /\ iodevice' = [iodevice EXCEPT !["receiver"] = FALSE]
                /\ ending' = [ending EXCEPT !["receiver"] = TRUE]
                /\ conn' = [conn EXCEPT ![socks["receiver"]] = "closed"]
                /\ UNCHANGED <<relay, toWrite>>
             \/ UNCHANGED <<state, error, iodevice, ending, conn, relay, toWrite>>
          /\ underWay' = underWay - n
      BY DEF ReceiveData, Jobs
<1>2. /\ underWay > 0 /\ state["receiver"] = "transfer"
      /\ UNCHANGED <<supports, method, requestId, sequence, answered, candidates, candidate,
                     socks, toReceiver, toSender>>
      BY DEF ReceiveData, StreamRest, mailVars
<1>3. method["receiver"] = "socks" BY <1>2, InUse
<1>4. /\ underWay \in Nat /\ toWrite \in 0..3 /\ n \in Nat /\ n > 0 /\ n <= underWay
      /\ done["receiver"] \in 0..Blocks /\ done["sender"] \in 0..Blocks
      /\ done["receiver"] + underWay + toWrite <= done["sender"]
      BY <1>1, <1>3, Sides DEF TransferInv, LinksTyped, CountsTyped, Counted
<1>5. underWay' \in Nat /\ toWrite' = toWrite
      BY <1>1, <1>4
<1>6. /\ done' \in [Side -> 0..Blocks] /\ done'["sender"] = done["sender"]
      /\ done'["receiver"] \in {done["receiver"], done["receiver"] + n}
      <2>1. done["receiver"] + n \in 0..Blocks BY <1>4, Sizes
      <2> QED BY <1>1, <2>1, Sides DEF TransferInv, CountsTyped
<1>7. done'["receiver"] + underWay' + toWrite' <= done'["sender"]
      <2>1. \A d, w, t, k, f \in Nat : k <= w /\ d + w + t <= f =>
                 d + (w - k) + t <= f /\ (d + k) + (w - k) + t <= f
            OBVIOUS
      <2>2. done["receiver"] \in Nat /\ done["sender"] \in Nat /\ toWrite \in Nat BY <1>4
      <2>3. underWay' = underWay - n BY <1>1
      <2> QED BY <1>4, <1>5, <1>6, <2>1, <2>2, <2>3
<1>8. CountsTyped' BY <1>2, <1>6 DEF TransferInv, CountsTyped
<1>9. Counted' BY <1>2, <1>3, <1>7 DEF TransferInv, Counted, Zero
<1>10. JobsTyped' BY <1>1 DEF TransferInv, JobsTyped, States, Causes
<1>11. LinksTyped' BY <1>1, <1>5 DEF TransferInv, LinksTyped, SocketStates
<1>12. state'["receiver"] \in {"transfer", "finished"} /\ state'["sender"] = state["sender"]
       /\ (state'["receiver"] = "finished" => done'["receiver"] = Blocks)
       BY <1>1, <1>2, Sides DEF TransferInv, JobsTyped
<1>13. Whole' BY <1>12 DEF Whole
<1>14. RestTyped' BY <1>1, <1>2 DEF TransferInv, RestTyped
<1>15. HostsTyped' BY <1>2 DEF TransferInv, HostsTyped
<1>16. \A s \in Side : state'[s] = "none" <=> state[s] = "none" BY <1>2, <1>12, Sides
<1>17. relay' = relay BY <1>1
<1> QED BY <1>2, <1>8, <1>9, <1>10, <1>11, <1>13, <1>14, <1>15, <1>16, <1>17, CarriedOver
        DEF TransferInv, Methodical, MailTyped, Conveyed

LEMMA StreamDisconnectedSound == TransferInv /\ StreamDisconnected => TransferInv'
<1> SUFFICES ASSUME TransferInv, StreamDisconnected PROVE TransferInv' OBVIOUS
<1>1. /\ socks["receiver"] # NoHost /\ done' = done /\ Terminate("receiver", Verdict)
      /\ UNCHANGED <<supports, method, requestId, sequence, answered, candidates, candidate,
                     socks, toReceiver, toSender, mishap>>
      BY DEF StreamDisconnected, StreamRest, mailVars
<1>2. method["receiver"] = "socks" /\ state["receiver"] # "none" BY <1>1, Sides, InUse
<1>3. JobsTyped /\ LinksTyped /\ HostsTyped /\ Methodical BY DEF TransferInv
<1>4. /\ JobsTyped' /\ LinksTyped' /\ Shrinks
      /\ state'["receiver"] = "finished" /\ \A x \in Side \ {"receiver"} : state'[x] = state[x]
      /\ error'["receiver"] = IF state["receiver"] = "finished" THEN error["receiver"] ELSE Verdict
      /\ relay' = relay \/ (relay' = "closed" /\ socks["sender"] = Proxy)
      <2>1. Verdict \in Causes BY DEF Verdict, Causes
      <2> HIDE DEF Verdict
      <2> QED BY <1>1, <1>3, <2>1, Sides, TerminateDoes
<1>5. CountsTyped' /\ Counted' BY <1>1, <1>4, CountsKept
<1>6. Whole' BY <1>1, <1>4, WholeKept DEF Verdict
<1>7. RestTyped' BY <1>1 DEF TransferInv, RestTyped
<1>8. HostsTyped' BY <1>1, <1>3 DEF HostsTyped
<1>9. \A s \in Side : state'[s] = "none" <=> state[s] = "none" BY <1>2, <1>4, Sides
<1> QED BY <1>1, <1>3, <1>4, <1>5, <1>6, <1>7, <1>8, <1>9, CarriedOver
        DEF TransferInv, Methodical, MailTyped, Conveyed

LEMMA ProxyClosesSound == TransferInv /\ ProxyCloses => TransferInv'
<1> SUFFICES ASSUME TransferInv, ProxyCloses PROVE TransferInv' OBVIOUS
<1>1. /\ conn' = [conn EXCEPT ![Proxy] = "half"]
      /\ UNCHANGED <<supports, state, error, method, done, iodevice, ending, requestId, sequence,
                     answered, candidates, candidate, socks, relay, toWrite, underWay, toReceiver,
                     toSender, mishap>>
      BY DEF ProxyCloses, Jobs, StreamRest, mailVars
<1>2. LinksTyped' /\ Shrinks
      <2>1. conn' \in [Host -> SocketStates] BY <1>1 DEF TransferInv, LinksTyped, SocketStates
      <2> QED BY <1>1, <2>1 DEF TransferInv, LinksTyped, Shrinks
<1>3. HostsTyped' BY <1>1 DEF TransferInv, HostsTyped
<1>4. JobsTyped' BY <1>1 DEF TransferInv, JobsTyped
<1>5. CountsTyped' /\ Counted' BY <1>1, <1>2, CountsKept
<1>6. Whole' BY <1>1, WholeKept
<1>7. RestTyped' BY <1>1 DEF TransferInv, RestTyped
<1> QED BY <1>1, <1>2, <1>3, <1>4, <1>5, <1>6, <1>7, CarriedOver
        DEF TransferInv, Methodical, MailTyped, Conveyed

LEMMA StreamBreaksSound == TransferInv /\ StreamBreaks => TransferInv'
<1> SUFFICES ASSUME TransferInv, StreamBreaks PROVE TransferInv' OBVIOUS
<1>1. /\ socks["sender"] # NoHost /\ underWay' = 0 /\ toWrite' = 0 /\ mishap' = TRUE
      /\ conn' = [conn EXCEPT ![socks["sender"]] = "half"]
      /\ UNCHANGED <<supports, state, error, method, done, iodevice, ending, requestId, sequence,
                     answered, candidates, candidate, socks, relay, toReceiver, toSender>>
      BY DEF StreamBreaks, Linked, Jobs, StreamRest, mailVars
<1>2. method["receiver"] = "socks" BY <1>1, Sides, InUse
<1>3. LinksTyped' /\ Shrinks
      <2>1. conn' \in [Host -> SocketStates] BY <1>1 DEF TransferInv, LinksTyped, SocketStates
      <2>2. toWrite \in Nat /\ underWay \in Nat /\ relay' \in Relays BY <1>1 DEF TransferInv, LinksTyped
      <2>3. \A a, b \in Nat : 0 \in 0..a /\ 0 + 0 <= b + a OBVIOUS
      <2> QED BY <1>1, <2>1, <2>2, <2>3 DEF LinksTyped, Shrinks
<1>4. HostsTyped' BY <1>1 DEF TransferInv, HostsTyped
<1> QED BY <1>1, <1>2, <1>3, <1>4, SocketsSound

-----------------------------------------------------------------------------
LEMMA InitSound == TransferInit => TransferInv
<1> SUFFICES ASSUME TransferInit PROVE TransferInv OBVIOUS
<1>1. JobsTyped BY DEF TransferInit, JobsTyped, States, Causes
<1>2. LinksTyped BY DEF TransferInit, LinksTyped, SocketStates, Relays
<1>3. RestTyped BY DEF TransferInit, RestTyped, Methods
<1>4. CountsTyped BY Sizes DEF TransferInit, CountsTyped
<1>5. HostsTyped BY DEF TransferInit, HostsTyped
<1>6. MailTyped BY Sides DEF TransferInit, MailTyped
<1>7. requestId \notin SocksIds BY IdFacts DEF TransferInit
<1>8. Methodical BY <1>7, Sides, Sizes DEF TransferInit, Methodical
<1>9. Counted BY Sides DEF TransferInit, Counted, Zero, Both, NoSocks
<1>10. Whole BY Sides DEF TransferInit, Whole
<1> QED BY <1>1, <1>2, <1>3, <1>4, <1>5, <1>6, <1>8, <1>9, <1>10 DEF TransferInv

LEMMA StillSound == TransferInv /\ UNCHANGED transferVars => TransferInv'
BY DEF transferVars, jobVars, linkageVars, mailVars, TransferInv, JobsTyped, LinksTyped, RestTyped,
       CountsTyped, HostsTyped, MailTyped, Methodical, Counted, Whole, Both, Zero, NoSocks

LEMMA StepSound == TransferInv /\ [TransferNext]_transferVars => TransferInv'
<1> SUFFICES ASSUME TransferInv, [TransferNext]_transferVars PROVE TransferInv' OBVIOUS
<1>1. ASSUME ReceiverHandles PROVE TransferInv'
      <2> DEFINE m == Head(toReceiver)
      <2>1. Takes(m) BY <1>1 DEF ReceiverHandles, Takes
      <2>2. \/ StreamInitiationSet(m) \/ ByteStreamSet(m)
            \/ IbbOpen(m) \/ IbbData(m) \/ IbbClose(m)
            BY <1>1 DEF ReceiverHandles
      <2> HIDE DEF m
      <2> QED BY <2>1, <2>2, StreamInitiationSetSound, ByteStreamSetSound, IbbOpenSound,
                 IbbDataSound, IbbCloseSound
<1>2. ASSUME SenderHandles PROVE TransferInv'
      <2> DEFINE m == Head(toSender)
      <2>1. Learns(m) BY <1>2 DEF SenderHandles, Learns
      <2>2. StreamInitiationResult(m) \/ ByteStreamResult(m) \/ Response(m)
            BY <1>2 DEF SenderHandles
      <2> HIDE DEF m
      <2> QED BY <2>1, <2>2, StreamInitiationResultSound, ByteStreamResultSound, ResponseSound
<1>3. ASSUME NEW s \in Side, Abort(s) \/ Terminated(s) PROVE TransferInv'
      BY <1>3, AbortSound, TerminatedSound
<1>4. ASSUME NEW h \in Host,
             \/ CandidateConnected(h) \/ SocksServerConnected(h) \/ CandidateReady(h)
             \/ CandidateDisconnected(h) \/ CandidateTimeout(h)
      PROVE TransferInv'
      BY <1>4, CandidateConnectedSound, SocksServerConnectedSound, CandidateReadySound,
         CandidateLostSound
<1>5. ASSUME \/ SendFile \/ Accept \/ ProxyAnswers \/ ProxyReady \/ ProxyActivates \/ ProxyCloses
             \/ BytesWritten \/ SenderDisconnected \/ ReceiveData \/ StreamDisconnected
             \/ StreamBreaks
      PROVE TransferInv'
      BY <1>5, SendFileSound, AcceptSound, ProxyAnswersSound, ProxyReadySound, ProxyActivatesSound,
         ProxyClosesSound, BytesWrittenSound, SenderDisconnectedSound, ReceiveDataSound,
         StreamDisconnectedSound, StreamBreaksSound
<1> QED BY <1>1, <1>2, <1>3, <1>4, <1>5, StillSound DEF TransferNext

\* The state of a transfer stays within its type.
THEOREM TransferTypeCorrect == TransferSpec => []TransferTypeOK
<1>1. TransferInv => TransferTypeOK BY SoundTyped
<1> QED BY <1>1, InitSound, StepSound, PTL DEF TransferSpec

-----------------------------------------------------------------------------
(* The course of a transfer without a mishap.                              *)

OnTheWay(r, s) == toReceiver = r /\ toSender = s
FilesOpen == iodevice["sender"] /\ iodevice["receiver"]
NothingSent == Zero(done) /\ Zero(sequence)
NoSockets == NoSocks /\ relay = "none" /\ toWrite = 0 /\ underWay = 0

NotBegun ==
    /\ Both(state, "none") /\ Both(method, "none")
    /\ requestId = IqId("none") /\ OnTheWay(<<>>, <<>>)
Offered ==
    /\ state["sender"] = "offer" /\ state["receiver"] = "none" /\ Both(method, "none")
    /\ requestId = IqId("si") /\ iodevice["sender"]
    /\ \/ toReceiver \in Offers /\ toSender = <<>>
       \/ OnTheWay(<<>>, <<[is |-> "error", re |-> IqId("si")]>>)
GivenUp ==
    /\ state["sender"] = "finished" /\ state["receiver"] = "none" /\ Both(method, "none")
    /\ requestId = IqId("si") /\ OnTheWay(<<>>, <<>>)
Deciding ==
    /\ Both(state, "offer") /\ method["sender"] = "none"
    /\ requestId = IqId("si") /\ iodevice["sender"] /\ OnTheWay(<<>>, <<>>)
    /\ NothingSent /\ NoSockets
OfferTaken ==
    /\ state["sender"] = "offer" /\ state["receiver"] = "start" /\ method["sender"] = "none"
    /\ requestId = IqId("si") /\ FilesOpen /\ answered
    /\ OnTheWay(<<>>, <<[is |-> "siResult", re |-> IqId("si"), method |-> method["receiver"]]>>)
    /\ NothingSent /\ NoSockets

\* In the stream.
Inband == Both(method, "inband") /\ answered
StreamOpening ==
    /\ Inband /\ Both(state, "start") /\ FilesOpen /\ NothingSent
    /\ requestId = IqId("open") /\ OnTheWay(<<[is |-> "open"]>>, <<>>)
Moving ==
    /\ Inband /\ state["sender"] \in {"start", "transfer"} /\ state["receiver"] = "transfer"
    /\ FilesOpen /\ sequence["receiver"] = done["receiver"]
    /\ \/ /\ OnTheWay(<<>>, <<[is |-> "result", re |-> requestId]>>)
          /\ done["sender"] = done["receiver"]
       \/ /\ OnTheWay(<<[is |-> "data", n |-> done["receiver"]]>>, <<>>)
          /\ requestId = DataId(done["receiver"])
          /\ done["sender"] = done["receiver"] + 1
StreamClosing ==
    /\ Inband /\ state["sender"] = "finished" /\ state["receiver"] = "transfer"
    /\ error["sender"] = "NoError" /\ done["receiver"] = done["sender"]
    /\ OnTheWay(<<[is |-> "close"]>>, <<>>)
Closed ==
    /\ Inband /\ Both(state, "finished") /\ error["sender"] = "NoError"
    /\ error["receiver"] = "NoError" <=> done["sender"] = Blocks
    /\ toReceiver = <<>> /\ toSender \in {<<>>, <<[is |-> "result", re |-> IqId("close")]>>}

\* Over SOCKS5.
Socks == Both(method, "socks") /\ answered
ProxyAsked ==
    /\ Socks /\ Both(state, "start") /\ FilesOpen /\ NothingSent /\ NoSockets
    /\ \/ requestId = IqId("proxy") /\ OnTheWay(<<>>, <<>>)
       \/ requestId = IqId("offer") /\ OnTheWay(<<[is |-> "offer"]>>, <<>>)
Trying ==
    /\ Socks /\ Both(state, "start") /\ FilesOpen /\ NothingSent
    /\ requestId = IqId("offer") /\ OnTheWay(<<>>, <<>>)
    /\ candidate # NoHost /\ conn[candidate] \in {"connecting", "greeted", "served"}
    /\ conn[candidate] = "served" /\ candidate # Proxy => socks["sender"] = candidate
    /\ socks["receiver"] = NoHost /\ relay = "none" /\ toWrite = 0 /\ underWay = 0
NoneLeft ==
    /\ Socks /\ state["receiver"] = "finished" /\ error["receiver"] # "NoError"
    /\ candidate = NoHost /\ socks["receiver"] = NoHost /\ relay # "connecting"
    /\ requestId = IqId("offer")
    /\ \/ state["sender"] = "start" /\ OnTheWay(<<>>, <<[is |-> "error", re |-> IqId("offer")]>>)
       \/ state["sender"] = "finished" /\ error["sender"] # "NoError" /\ OnTheWay(<<>>, <<>>)
Chosen ==
    /\ Socks /\ state["sender"] = "start" /\ state["receiver"] = "transfer" /\ FilesOpen /\ NothingSent
    /\ requestId = IqId("offer") /\ candidate = NoHost
    /\ socks["receiver"] # NoHost /\ conn[socks["receiver"]] = "ready"
    /\ socks["receiver"] # Proxy => socks["sender"] = socks["receiver"]
    /\ relay = "none" /\ toWrite = 0 /\ underWay = 0
    /\ OnTheWay(<<>>, <<[is |-> "used", re |-> IqId("offer"), host |-> socks["receiver"]]>>)
Relaying ==
    /\ Socks /\ state["sender"] = "start" /\ state["receiver"] = "transfer" /\ FilesOpen /\ NothingSent
    /\ candidate = NoHost /\ Both(socks, Proxy) /\ conn[Proxy] = "ready"
    /\ toWrite = 0 /\ underWay = 0 /\ OnTheWay(<<>>, <<>>)
    /\ \/ relay = "connecting" /\ requestId = IqId("offer")
       \/ relay = "up" /\ requestId = IqId("activate")
HostSettled ==
    /\ Socks /\ OnTheWay(<<>>, <<>>) /\ candidate = NoHost /\ relay # "connecting"
    /\ requestId \in {IqId("offer"), IqId("none")}
Flowing ==
    /\ HostSettled /\ Both(state, "transfer") /\ FilesOpen
    /\ socks["sender"] # NoHost /\ socks["sender"] = socks["receiver"]
    /\ conn[socks["sender"]] = "ready" /\ (socks["sender"] = Proxy => relay = "up")
    /\ toWrite > 0 \/ done["sender"] < Blocks
    /\ done["sender"] = done["receiver"] + underWay + toWrite
Draining ==
    /\ HostSettled /\ state["sender"] = "finished" /\ error["sender"] = "NoError"
    /\ \/ /\ state["receiver"] = "transfer" /\ iodevice["receiver"]
          /\ underWay > 0 /\ done["receiver"] + underWay = Blocks
       \/ state["receiver"] = "finished" /\ error["receiver"] = "NoError"
Denied ==
    /\ HostSettled /\ state["sender"] = "finished" /\ error["sender"] # "NoError"
    /\ done["receiver"] + underWay < Blocks
    /\ \/ state["receiver"] = "transfer"
       \/ state["receiver"] = "finished" /\ error["receiver"] # "NoError"

\* The jobs that have not ended have nothing to report.
Calm ==
    /\ \A s \in Side : ending[s] => state[s] = "finished"
    /\ state["sender"] # "finished" => error["sender"] = "NoError"
    /\ state["receiver"] = "finished" => answered
    /\ error["sender"] = "Abort" => method["sender"] # "inband"

Phase ==
    \/ NotBegun \/ Offered \/ GivenUp \/ Deciding \/ OfferTaken
    \/ StreamOpening \/ Moving \/ StreamClosing \/ Closed
    \/ ProxyAsked \/ Trying \/ NoneLeft \/ Chosen \/ Relaying
    \/ Flowing \/ Draining \/ Denied

OnCourse == Calm /\ Phase

\* What holds of the shape of the state.
LEMMA Shapes ==
    ASSUME TransferInv
    PROVE  /\ state \in [Side -> States] /\ error \in [Side -> Causes]
           /\ iodevice \in [Side -> BOOLEAN] /\ ending \in [Side -> BOOLEAN]
           /\ method \in [Side -> Methods]
           /\ done \in [Side -> 0..Blocks] /\ sequence \in [Side -> 0..Blocks]
           /\ socks \in [Side -> Host \cup {NoHost}] /\ conn \in [Host -> SocketStates]
           /\ candidate \in Host \cup {NoHost} /\ candidates \in Seq(Host)
           /\ toWrite \in 0..3 /\ underWay \in Nat
           /\ "sender" \in Side /\ "receiver" \in Side
BY Sides DEF TransferInv, JobsTyped, LinksTyped, RestTyped, CountsTyped, HostsTyped

LEMMA One ==
    ASSUME NEW m
    PROVE Append(<<>>, m) = <<m>> /\ Head(<<m>>) = m /\ Tail(<<m>>) = <<>> /\ <<m>> # <<>>
OBVIOUS

\* The identifiers of the sender's requests differ.
LEMMA IdsDiffer ==
    /\ \A j, k \in {"none", "si", "open", "close", "proxy", "offer", "activate"} :
          IqId(j) = IqId(k) => j = k
    /\ \A n \in Nat : DataId(n) # IqId("proxy") /\ DataId(n) # IqId("activate")
BY DEF IqId, DataId

\* By which phase a step can begin.
LEMMA WhichPhase ==
    ASSUME TransferInv, Phase
    PROVE  /\ state["sender"] = "none" => NotBegun
           /\ state["receiver"] = "offer" => Deciding
           /\ toReceiver # <<>> => Offered \/ StreamOpening \/ Moving \/ StreamClosing \/ ProxyAsked
           /\ toSender # <<>> => Offered \/ OfferTaken \/ Moving \/ Closed \/ NoneLeft \/ Chosen
           /\ requestId = IqId("proxy") => ProxyAsked
           /\ requestId = IqId("activate") => Relaying
           /\ relay = "connecting" => Relaying
           /\ candidate # NoHost => Trying
           /\ toWrite > 0 /\ state["sender"] = "transfer" => Flowing
           /\ socks["receiver"] # NoHost /\ state["receiver"] = "transfer" /\ underWay > 0
                 => Flowing \/ Draining \/ Denied
           /\ socks["receiver"] # NoHost /\ conn[socks["receiver"]] = "half"
                 => Draining \/ Denied
           /\ socks["sender"] # NoHost /\ conn[socks["sender"]] = "closed"
              /\ (requestId = IqId("offer") => state["sender"] = "transfer")
                 => state["sender"] = "finished"
<1>1. state["sender"] = "none" => NotBegun
      BY DEF Phase, NotBegun, Offered, GivenUp, Deciding, OfferTaken, StreamOpening, Moving, StreamClosing, Closed,
             ProxyAsked, Trying, NoneLeft, Chosen, Relaying, Flowing, Draining, Denied, Both
<1>2. state["receiver"] = "offer" => Deciding
      BY DEF Phase, NotBegun, Offered, GivenUp, Deciding, OfferTaken, StreamOpening, Moving, StreamClosing, Closed,
             ProxyAsked, Trying, NoneLeft, Chosen, Relaying, Flowing, Draining, Denied, Both
<1>3. toReceiver # <<>> => Offered \/ StreamOpening \/ Moving \/ StreamClosing \/ ProxyAsked
      BY DEF Phase, NotBegun, GivenUp, Deciding, OfferTaken, Closed,
             Trying, NoneLeft, Chosen, Relaying, Flowing, Draining, Denied, HostSettled, OnTheWay
<1>4. toSender # <<>> => Offered \/ OfferTaken \/ Moving \/ Closed \/ NoneLeft \/ Chosen
      BY DEF Phase, NotBegun, GivenUp, Deciding, StreamOpening, StreamClosing,
             ProxyAsked, Trying, Relaying, Flowing, Draining, Denied, HostSettled, OnTheWay
<1> DEFINE Unlinked == method["receiver"] # "socks"
<1>5. NotBegun \/ Offered \/ GivenUp \/ StreamOpening \/ Moving \/ StreamClosing \/ Closed => Unlinked
      BY DEF NotBegun, Offered, GivenUp, StreamOpening, Moving, StreamClosing, Closed, Inband, Both
<1>6. Unlinked => /\ NoSocks /\ toWrite = 0 /\ underWay = 0 /\ relay = "none"
                  /\ requestId \notin SocksIds
      BY DEF TransferInv, Counted, Methodical
<1>7. Deciding \/ OfferTaken => NoSocks /\ toWrite = 0 /\ underWay = 0 /\ relay = "none"
                                 /\ requestId = IqId("si")
      BY DEF Deciding, OfferTaken, NoSockets
<1> HIDE DEF Unlinked
<1> DEFINE Early == /\ NoSocks /\ toWrite = 0 /\ underWay = 0 /\ relay = "none"
                    /\ requestId \notin {IqId("proxy"), IqId("activate")}
<1>8. \/ Early
      \/ ProxyAsked \/ Trying \/ NoneLeft \/ Chosen \/ Relaying \/ Flowing \/ Draining \/ Denied
      <2>1. IqId("si") \notin {IqId("proxy"), IqId("activate")} BY IdsDiffer
      <2>2. Unlinked => Early BY <1>6, SocksIdFacts
      <2>3. Deciding \/ OfferTaken => Early BY <1>7, <2>1
      <2> HIDE DEF Early
      <2> QED BY <1>5, <2>2, <2>3 DEF Phase
<1>9. requestId = IqId("proxy") => ProxyAsked
      BY <1>8, IdsDiffer DEF Trying, NoneLeft, Chosen, Relaying, Flowing, Draining, Denied, HostSettled
<1>10. requestId = IqId("activate") => Relaying
      BY <1>8, IdsDiffer DEF ProxyAsked, Trying, NoneLeft, Chosen, Flowing, Draining, Denied, HostSettled
<1>11. relay = "connecting" => Relaying
      BY <1>8 DEF ProxyAsked, Trying, NoneLeft, Chosen, Flowing, Draining, Denied, HostSettled, NoSockets
<1>12. candidate # NoHost => Trying
      BY <1>8 DEF ProxyAsked, NoneLeft, Chosen, Relaying, Flowing, Draining, Denied, HostSettled, NoSockets,
                  NoSocks
<1>13. toWrite > 0 /\ state["sender"] = "transfer" => Flowing
      BY <1>8 DEF ProxyAsked, Trying, NoneLeft, Chosen, Relaying, Draining, Denied, NoSockets, Both
<1>14. socks["receiver"] # NoHost /\ state["receiver"] = "transfer" /\ underWay > 0
          => Flowing \/ Draining \/ Denied
      BY <1>8 DEF ProxyAsked, Trying, NoneLeft, Chosen, Relaying, NoSockets, Both
<1>15. socks["receiver"] # NoHost /\ conn[socks["receiver"]] = "half" => Draining \/ Denied
      BY <1>8 DEF ProxyAsked, Trying, NoneLeft, Chosen, Relaying, Flowing, NoSockets, NoSocks, Both
<1>16. socks["sender"] # NoHost /\ conn[socks["sender"]] = "closed"
       /\ (requestId = IqId("offer") => state["sender"] = "transfer")
          => state["sender"] = "finished"
      BY <1>8 DEF ProxyAsked, Trying, NoneLeft, Chosen, Relaying, Flowing, Draining, Denied, NoSockets,
                  NoSocks, Both
<1> QED BY <1>1, <1>2, <1>3, <1>4, <1>9, <1>10, <1>11, <1>12, <1>13, <1>14, <1>15, <1>16

-----------------------------------------------------------------------------
(* Each step leads from one phase to another.                              *)

LEMMA TerminatedSteady ==
    ASSUME TransferInv, OnCourse, NEW s \in Side, Terminated(s)
    PROVE  OnCourse' /\ mishap' = mishap
<1>1. state[s] = "finished" /\ (s = "receiver" => answered)
      /\ (s = "sender" => method[s] # "inband" \/ error[s] # "Abort")
      BY DEF Terminated, OnCourse, Calm
<1>2. /\ ending' = [ending EXCEPT ![s] = FALSE]
      /\ UNCHANGED <<supports, state, error, method, done, iodevice, sequence, answered, requestId,
                     candidates, candidate, conn, socks, relay, toWrite, underWay, toReceiver, toSender,
                     mishap>>
      BY <1>1 DEF Terminated, linkageVars, mailVars
<1>3. Calm' BY <1>2, Shapes DEF OnCourse, Calm
<1>4. Phase'
      BY <1>2 DEF OnCourse, Phase, NotBegun, Offered, GivenUp, Deciding, OfferTaken, StreamOpening, Moving,
         StreamClosing, Closed, ProxyAsked, Trying, NoneLeft, Chosen, Relaying, Flowing, Draining, Denied,
         Both, OnTheWay, FilesOpen, NothingSent, Zero, NoSockets, NoSocks, Inband, Socks, HostSettled
<1> QED BY <1>2, <1>3, <1>4 DEF OnCourse

LEMMA SendFileSteady ==
    ASSUME TransferInv, OnCourse, SendFile, ~mishap' PROVE OnCourse' /\ mishap' = mishap
<1>1. NotBegun /\ Calm BY WhichPhase DEF OnCourse, SendFile
<1>2. /\ state' = [state EXCEPT !["sender"] = "offer"]
      /\ iodevice' = [iodevice EXCEPT !["sender"] = TRUE]
      /\ requestId' = IqId("si")
      /\ toReceiver' = Append(toReceiver, [is |-> "si", methods |-> supports["sender"]])
      /\ UNCHANGED <<error, ending, mishap, method, answered, toSender>>
      BY DEF SendFile, Ask
<1>3. toReceiver' = <<[is |-> "si", methods |-> supports["sender"]]>>
      BY <1>1, <1>2, One DEF NotBegun, OnTheWay
<1>4. supports["sender"] \in SUBSET {"inband", "socks"} BY Sides DEF TransferInv, RestTyped
<1>5. toReceiver' \in Offers BY <1>3, <1>4 DEF Offers
<1>6. Offered' BY <1>1, <1>2, <1>5, Shapes DEF NotBegun, Offered, Both, OnTheWay
<1>7. Calm' BY <1>1, <1>2, Shapes, Sides DEF Calm, NotBegun, Both
<1> QED BY <1>2, <1>6, <1>7 DEF OnCourse, Phase

LEMMA AcceptSteady ==
    ASSUME TransferInv, OnCourse, Accept, ~mishap' PROVE OnCourse' /\ mishap' = mishap
<1>1. Deciding /\ Calm BY WhichPhase DEF OnCourse, Accept
<1> DEFINE m == [is |-> "siResult", re |-> IqId("si"), method |-> method["receiver"]]
<1>2. /\ state' = [state EXCEPT !["receiver"] = "start"]
      /\ iodevice' = [iodevice EXCEPT !["receiver"] = TRUE]
      /\ answered' = TRUE
      /\ toSender' = Append(toSender, m)
      /\ UNCHANGED <<error, ending, mishap, method, toReceiver, requestId, done, sequence,
                     candidate, socks, relay, toWrite, underWay>>
      BY DEF Accept, Tell, Links
<1>3. toSender' = <<m>> BY <1>1, <1>2, One DEF Deciding, OnTheWay
<1>4. OfferTaken'
      BY <1>1, <1>2, <1>3, Shapes
      DEF Deciding, OfferTaken, Both, OnTheWay, FilesOpen, NothingSent, Zero, NoSockets, NoSocks
<1>5. Calm' BY <1>1, <1>2, Shapes, Sides DEF Calm, Deciding, Both
<1> QED BY <1>2, <1>4, <1>5 DEF OnCourse, Phase

LEMMA ReceiverHandlesSteady ==
    ASSUME TransferInv, OnCourse, ReceiverHandles, ~mishap' PROVE OnCourse' /\ mishap' = mishap
<1> DEFINE m == Head(toReceiver)
<1>1. /\ toReceiver # <<>> /\ toReceiver' = Tail(toReceiver)
      /\ \/ StreamInitiationSet(m) \/ ByteStreamSet(m)
         \/ IbbOpen(m) \/ IbbData(m) \/ IbbClose(m)
      BY DEF ReceiverHandles
<1>2. Calm BY DEF OnCourse
<1>3. CASE Offered
      <2>1. PICK ms \in SUBSET {"inband", "socks"} : toReceiver = <<[is |-> "si", methods |-> ms]>>
            BY <1>1, <1>3 DEF Offered, Offers, OnTheWay
      <2>2. toReceiver' = <<>> /\ m.is = "si" BY <1>1, <2>1, One
      <2> HIDE DEF m
      <2>3. StreamInitiationSet(m)
            BY <1>1, <2>2 DEF StreamInitiationSet, ByteStreamSet, IbbOpen, IbbData, IbbClose
      <2>4. /\ toSender = <<>> /\ Zero(done) /\ Zero(sequence) /\ NoSockets
            BY <1>1, <1>3, <2>1
            DEF Offered, OnTheWay, TransferInv, Counted, Methodical, Both, NoSockets
      <2>5. UNCHANGED <<error, done, iodevice, ending, requestId, sequence, answered,
                   candidates, candidate, conn, socks, relay, toWrite, underWay, mishap>>
            BY <2>3 DEF StreamInitiationSet, linkageVars
      <2>6. CASE /\ Tell([is |-> "error", re |-> IqId("si")]) /\ UNCHANGED <<state, method>>
            <3>1. toSender' = <<[is |-> "error", re |-> IqId("si")]>> BY <2>4, <2>6, One DEF Tell
            <3>2. Offered' BY <1>3, <2>2, <2>5, <2>6, <3>1 DEF Offered, Both, OnTheWay
            <3>3. Calm' BY <1>2, <2>5, <2>6 DEF Calm
            <3> QED BY <2>5, <3>2, <3>3 DEF OnCourse, Phase
      <2>7. CASE /\ state' = [state EXCEPT !["receiver"] = "offer"]
                 /\ \E k \in Methods : method' = [method EXCEPT !["receiver"] = k]
                 /\ UNCHANGED toSender
            <3>1. Deciding'
                  BY <1>3, <2>2, <2>4, <2>5, <2>7, Shapes
                  DEF Offered, Deciding, Both, OnTheWay, NothingSent, Zero, NoSockets, NoSocks
            <3>2. Calm' BY <1>2, <1>3, <2>5, <2>7, Shapes, Sides DEF Calm, Offered
            <3> QED BY <2>5, <3>1, <3>2 DEF OnCourse, Phase
      <2> QED BY <2>3, <2>6, <2>7 DEF StreamInitiationSet, Methods
<1>4. CASE StreamOpening
      <2>1. toReceiver' = <<>> /\ m = [is |-> "open"] /\ toSender = <<>>
            BY <1>1, <1>4, One DEF StreamOpening, OnTheWay
      <2> HIDE DEF m
      <2>2. IbbOpen(m)
            BY <1>1, <2>1 DEF StreamInitiationSet, ByteStreamSet, IbbOpen, IbbData, IbbClose
      <2>3. /\ state' = [state EXCEPT !["receiver"] = "transfer"]
            /\ Tell([is |-> "result", re |-> IqId("open")])
            /\ UNCHANGED <<error, method, done, iodevice, ending, requestId, sequence,
                           answered, mishap>>
            BY <1>4, <2>2 DEF IbbOpen, StreamOpening, Inband, Both
      <2>4. toSender' = <<[is |-> "result", re |-> requestId]>>
            BY <1>4, <2>1, <2>3, One DEF Tell, StreamOpening
      <2>5. Moving'
            BY <1>4, <2>1, <2>3, <2>4, Shapes
            DEF StreamOpening, Moving, Inband, Both, OnTheWay, FilesOpen, NothingSent, Zero
      <2>6. Calm' BY <1>2, <1>4, <2>3, Shapes, Sides DEF Calm, StreamOpening, Both
      <2> QED BY <2>3, <2>5, <2>6 DEF OnCourse, Phase
<1>5. CASE Moving
      <2>1. /\ toReceiver = <<[is |-> "data", n |-> done["receiver"]]>> /\ toSender = <<>>
            /\ requestId = DataId(done["receiver"]) /\ done["sender"] = done["receiver"] + 1
            BY <1>1, <1>5 DEF Moving, OnTheWay
      <2>2. toReceiver' = <<>> /\ m.is = "data" /\ m.n = done["receiver"] BY <1>1, <2>1, One
      <2> HIDE DEF m
      <2>3. IbbData(m)
            BY <1>1, <2>2 DEF StreamInitiationSet, ByteStreamSet, IbbOpen, IbbData, IbbClose
      <2>4. /\ done' = [done EXCEPT !["receiver"] = @ + 1]
            /\ sequence' = [sequence EXCEPT !["receiver"] = @ + 1]
            /\ Tell([is |-> "result", re |-> DataId(m.n)])
            /\ UNCHANGED <<state, error, iodevice, ending, method, requestId, answered, mishap>>
            BY <1>5, <2>2, <2>3 DEF IbbData, Moving, FilesOpen, Jobs
      <2>5. toSender' = <<[is |-> "result", re |-> requestId]>>
            BY <2>1, <2>2, <2>4, One DEF Tell
      <2>6. Moving'
            BY <1>5, <2>1, <2>2, <2>4, <2>5, Shapes DEF Moving, Inband, Both, OnTheWay, FilesOpen
      <2>7. Calm' BY <1>2, <2>4 DEF Calm
      <2> QED BY <2>4, <2>6, <2>7 DEF OnCourse, Phase
<1>6. CASE StreamClosing
      <2>1. toReceiver' = <<>> /\ m = [is |-> "close"] /\ toSender = <<>>
            BY <1>1, <1>6, One DEF StreamClosing, OnTheWay
      <2> HIDE DEF m
      <2>2. IbbClose(m)
            BY <1>1, <2>1 DEF StreamInitiationSet, ByteStreamSet, IbbOpen, IbbData, IbbClose
      <2>3. /\ done' = done /\ Tell([is |-> "result", re |-> IqId("close")])
            /\ Terminate("receiver", Verdict)
            /\ UNCHANGED <<method, requestId, sequence, answered, mishap>>
            BY <1>6, <2>2 DEF IbbClose, StreamClosing, Inband, Both
      <2>4. Verdict = "NoError" <=> done["sender"] = Blocks
            BY <1>6, <2>3 DEF StreamClosing, Verdict
      <2>5. /\ state' = [state EXCEPT !["receiver"] = "finished"]
            /\ error' = [error EXCEPT !["receiver"] = Verdict]
            /\ ending' = [ending EXCEPT !["receiver"] = TRUE]
            BY <1>6, <2>3 DEF StreamClosing, Terminate
      <2>6. toSender' = <<[is |-> "result", re |-> IqId("close")]>> BY <2>1, <2>3, One DEF Tell
      <2>7. Closed'
            BY <1>6, <2>1, <2>3, <2>4, <2>5, <2>6, Shapes
            DEF StreamClosing, Closed, Inband, Both, OnTheWay
      <2>8. Calm'
            BY <1>2, <1>6, <2>3, <2>5, Shapes, Sides DEF Calm, StreamClosing, Inband
      <2> QED BY <2>3, <2>7, <2>8 DEF OnCourse, Phase
<1>7. CASE ProxyAsked
      <2>1. toReceiver' = <<>> /\ m = [is |-> "offer"] /\ toSender = <<>>
            /\ requestId = IqId("offer")
            BY <1>1, <1>7, One DEF ProxyAsked, OnTheWay
      <2> HIDE DEF m
      <2>2. ByteStreamSet(m)
            BY <1>1, <2>1 DEF StreamInitiationSet, ByteStreamSet, IbbOpen, IbbData, IbbClose
      <2> DEFINE left == Append([h \in 1..Hosts |-> h], Proxy)
      <2>3. NextHost(left) /\ UNCHANGED <<method, done, requestId, sequence, answered, socks, mishap>>
            BY <1>7, <2>2 DEF ByteStreamSet, ProxyAsked, Socks, Both
      <2>4. left \in Seq(Host) /\ left # <<>>
            <3>1. [h \in 1..Hosts |-> h] \in [1..Hosts -> Host] BY Sizes DEF Host
            <3>2. [h \in 1..Hosts |-> h] \in Seq(Host) BY <3>1, Sizes
            <3> QED BY <3>2, Sizes
      <2> HIDE DEF left
      <2>5. /\ candidate' = Head(left) /\ Head(left) \in Host
            /\ conn' = [h \in Host |-> IF h = Head(left) THEN "connecting"
                                       ELSE IF h = candidate THEN "closed" ELSE conn[h]]
            /\ UNCHANGED <<state, error, iodevice, ending, relay, toWrite, underWay, toSender>>
            BY <2>3, <2>4 DEF NextHost, Jobs
      <2>6. candidate' # NoHost /\ conn'[candidate'] = "connecting" BY <2>5, Sizes
      <2>7. Trying'
            BY <1>7, <2>1, <2>3, <2>5, <2>6
            DEF ProxyAsked, Trying, Socks, Both, FilesOpen, NothingSent, Zero, NoSockets, NoSocks, OnTheWay
      <2>8. Calm' BY <1>2, <2>3, <2>5 DEF Calm
      <2> QED BY <2>3, <2>7, <2>8 DEF OnCourse, Phase
<1> QED BY <1>1, <1>3, <1>4, <1>5, <1>6, <1>7, WhichPhase DEF OnCourse

\* The sender begins to send: it writes the first block, finds nothing to read,
\* or cannot read its file.
LEMMA FirstData ==
    ASSUME TransferInv, Calm, SendData(0), Linked, toWrite = 0, underWay = 0, Zero(done),
           FilesOpen, state["sender"] # "finished", state["receiver"] = "transfer",
           socks["sender"] # NoHost, socks["sender"] = socks["receiver"],
           conn[socks["sender"]] = "ready", Socks, candidate = NoHost, relay # "connecting",
           requestId' \in {IqId("offer"), IqId("none")}, OnTheWay(<<>>, <<>>)',
           UNCHANGED <<method, answered, candidate, socks>>
    PROVE  OnCourse'
<1>1. /\ done["sender"] = 0 /\ done["receiver"] = 0 /\ 0 < Blocks /\ 0 # Blocks
      /\ socks["sender"] = Proxy => relay = "up"
      BY Sizes DEF Zero, Linked
<1>2. CASE /\ done' = [done EXCEPT !["sender"] = @ + 1]
           /\ toWrite' = 1 /\ underWay' = 0
           /\ state' = [state EXCEPT !["sender"] = "transfer"]
           /\ UNCHANGED <<error, iodevice, ending, conn, relay>>
      <2>1. done'["sender"] = 1 /\ done'["receiver"] = 0 BY <1>1, <1>2, Shapes
      <2>2. Flowing'
            BY <1>1, <1>2, <2>1, Shapes DEF Flowing, HostSettled, Socks, Both, FilesOpen
      <2>3. Calm' BY <1>2, Shapes, Sides DEF Calm
      <2> QED BY <2>2, <2>3 DEF OnCourse, Phase
<1>3. CASE /\ toWrite' = 0 /\ underWay' = 0
           /\ state' = [state EXCEPT !["sender"] = "transfer"]
           /\ UNCHANGED <<error, iodevice, ending, done, conn, relay>>
      <2>1. Flowing' BY <1>1, <1>3, Shapes DEF Flowing, HostSettled, Socks, Both, FilesOpen
      <2>2. Calm' BY <1>3, Shapes, Sides DEF Calm
      <2> QED BY <2>1, <2>2 DEF OnCourse, Phase
<1>4. CASE Terminate("sender", "FileAccess") /\ UNCHANGED done
      <2>1. /\ state' = [state EXCEPT !["sender"] = "finished"]
            /\ error' = [error EXCEPT !["sender"] = "FileAccess"]
            /\ ending' = [ending EXCEPT !["sender"] = TRUE]
            /\ underWay' = 0 /\ relay' \in {relay, "closed"}
            BY <1>4 DEF Terminate
      <2>2. Denied' BY <1>1, <1>4, <2>1, Shapes DEF Denied, HostSettled, Socks, Both
      <2>3. Calm' BY <2>1, Shapes, Sides DEF Calm, Socks, Both
      <2> QED BY <2>2, <2>3 DEF OnCourse, Phase
<1> QED BY <1>1, <1>2, <1>3, <1>4 DEF SendData

LEMMA SenderHandlesSteady ==
    ASSUME TransferInv, OnCourse, SenderHandles, ~mishap' PROVE OnCourse' /\ mishap' = mishap
<1> DEFINE m == Head(toSender)
<1>1. /\ toSender # <<>> /\ toSender' = Tail(toSender)
      /\ StreamInitiationResult(m) \/ ByteStreamResult(m) \/ Response(m)
      BY DEF SenderHandles
<1>2. Calm BY DEF OnCourse
<1>3. CASE Offered
      <2>1. toSender' = <<>> /\ m = [is |-> "error", re |-> IqId("si")] /\ toReceiver = <<>>
            BY <1>1, <1>3, One DEF Offered, OnTheWay
      <2> HIDE DEF m
      <2>2. Response(m) BY <1>1, <2>1 DEF StreamInitiationResult, ByteStreamResult, Response
      <2>3. /\ Terminate("sender", "Abort")
            /\ UNCHANGED <<requestId, toReceiver, method, answered, mishap>>
            BY <1>3, <2>1, <2>2 DEF Response, Offered, Both
      <2>4. /\ state' = [state EXCEPT !["sender"] = "finished"]
            /\ error' = [error EXCEPT !["sender"] = "Abort"]
            /\ ending' = [ending EXCEPT !["sender"] = TRUE]
            BY <1>3, <2>3 DEF Offered, Terminate
      <2>5. GivenUp' BY <1>3, <2>1, <2>3, <2>4, Shapes DEF Offered, GivenUp, Both, OnTheWay
      <2>6. Calm' BY <1>2, <1>3, <2>3, <2>4, Shapes, Sides DEF Calm, Offered, Both
      <2> QED BY <2>3, <2>5, <2>6 DEF OnCourse, Phase
<1>4. CASE OfferTaken
      <2>1. /\ toSender' = <<>> /\ m.is = "siResult" /\ m.re = IqId("si")
            /\ m.method = method["receiver"] /\ toReceiver = <<>>
            BY <1>1, <1>4, One DEF OfferTaken, OnTheWay
      <2> HIDE DEF m
      <2>2. StreamInitiationResult(m)
            BY <1>1, <2>1 DEF StreamInitiationResult, ByteStreamResult, Response
      <2>3. /\ method' = [method EXCEPT !["sender"] = m.method]
            /\ state' = [state EXCEPT !["sender"] = "start"]
            /\ \/ m.method = "inband" /\ Ask(IqId("open"), [is |-> "open"])
               \/ m.method = "socks" /\ requestId' = IqId("proxy") /\ UNCHANGED toReceiver
            /\ UNCHANGED <<error, done, iodevice, ending, sequence, answered, candidates, candidate,
                           conn, socks, relay, toWrite, underWay, mishap>>
            BY <1>4, <2>1, <2>2 DEF StreamInitiationResult, OfferTaken, linkageVars
      <2>4. CASE m.method = "inband" /\ Ask(IqId("open"), [is |-> "open"])
            <3>1. toReceiver' = <<[is |-> "open"]>> /\ requestId' = IqId("open")
                  BY <2>1, <2>4, One DEF Ask
            <3>2. StreamOpening'
                  BY <1>4, <2>1, <2>3, <2>4, <3>1, Shapes
                  DEF OfferTaken, StreamOpening, Inband, Both, OnTheWay, FilesOpen, NothingSent, Zero
            <3>3. Calm' BY <1>2, <1>4, <2>3, Shapes, Sides DEF Calm, OfferTaken
            <3> QED BY <2>3, <3>2, <3>3 DEF OnCourse, Phase
      <2>5. CASE m.method = "socks" /\ requestId' = IqId("proxy") /\ UNCHANGED toReceiver
            <3>1. ProxyAsked'
                  BY <1>4, <2>1, <2>3, <2>5, Shapes
                  DEF OfferTaken, ProxyAsked, Socks, Both, OnTheWay, FilesOpen, NothingSent, Zero, NoSockets, NoSocks
            <3>2. Calm' BY <1>2, <1>4, <2>3, Shapes, Sides DEF Calm, OfferTaken
            <3> QED BY <2>3, <3>1, <3>2 DEF OnCourse, Phase
      <2> QED BY <2>3, <2>4, <2>5
<1>5. CASE Moving
      <2>1. /\ toSender' = <<>> /\ m = [is |-> "result", re |-> requestId] /\ toReceiver = <<>>
            /\ done["sender"] = done["receiver"]
            BY <1>1, <1>5, One DEF Moving, OnTheWay
      <2> HIDE DEF m
      <2>2. Response(m) BY <1>1, <2>1 DEF StreamInitiationResult, ByteStreamResult, Response
      <2>3. IbbResponse(m) /\ UNCHANGED <<method, answered, mishap>>
            BY <1>5, <2>1, <2>2 DEF Response, Moving, Inband, Both
      <2>4. sequence["sender"] = done["sender"]
            BY <1>5 DEF TransferInv, Counted, Moving, Inband, Both
      <2>5. CASE /\ state' = [state EXCEPT !["sender"] = "transfer"]
                 /\ Ask(DataId(sequence["sender"]), [is |-> "data", n |-> sequence["sender"]])
                 /\ sequence' = [sequence EXCEPT !["sender"] = @ + 1]
                 /\ done' = [done EXCEPT !["sender"] = @ + 1]
                 /\ UNCHANGED <<error, iodevice, ending>>
            <3>1. /\ toReceiver' = <<[is |-> "data", n |-> done["receiver"]]>>
                  /\ requestId' = DataId(done["receiver"])
                  BY <2>1, <2>4, <2>5, One DEF Ask
            <3>2. Moving'
                  BY <1>5, <2>1, <2>3, <2>5, <3>1, Shapes
                  DEF Moving, Inband, Both, OnTheWay, FilesOpen
            <3>3. Calm' BY <1>2, <1>5, <2>3, <2>5, Shapes, Sides DEF Calm, Moving
            <3> QED BY <2>3, <3>2, <3>3 DEF OnCourse, Phase
      <2>6. CASE /\ Ask(IqId("close"), [is |-> "close"])
                 /\ Terminate("sender", "NoError")
                 /\ UNCHANGED <<sequence, done>>
            <3>1. /\ state' = [state EXCEPT !["sender"] = "finished"]
                  /\ error' = [error EXCEPT !["sender"] = "NoError"]
                  /\ ending' = [ending EXCEPT !["sender"] = TRUE]
                  BY <1>5, <2>6 DEF Moving, Terminate
            <3>2. toReceiver' = <<[is |-> "close"]>> BY <2>1, <2>6, One DEF Ask
            <3>3. StreamClosing'
                  BY <1>5, <2>1, <2>3, <2>6, <3>1, <3>2, Shapes
                  DEF Moving, StreamClosing, Inband, Both, OnTheWay
            <3>4. Calm' BY <1>2, <1>5, <2>3, <3>1, Shapes, Sides DEF Calm, Moving
            <3> QED BY <2>3, <3>3, <3>4 DEF OnCourse, Phase
      <2> QED BY <2>1, <2>3, <2>5, <2>6 DEF IbbResponse
<1>6. CASE Closed
      <2>1. toSender' = <<>> /\ m = [is |-> "result", re |-> IqId("close")] /\ toReceiver = <<>>
            BY <1>1, <1>6, One DEF Closed
      <2> HIDE DEF m
      <2>2. Response(m) BY <1>1, <2>1 DEF StreamInitiationResult, ByteStreamResult, Response
      <2>3. /\ UNCHANGED <<state, error, iodevice, ending, method, answered, toReceiver, mishap>>
            /\ done' = done
            BY <1>6, <2>2 DEF Response, Closed, Both, Jobs
      <2>4. Closed' BY <1>6, <2>1, <2>3 DEF Closed, Inband, Both
      <2>5. Calm' BY <1>2, <2>3 DEF Calm
      <2> QED BY <2>3, <2>4, <2>5 DEF OnCourse, Phase
<1>7. CASE NoneLeft
      <2>1. /\ toSender' = <<>> /\ m = [is |-> "error", re |-> IqId("offer")]
            /\ toReceiver = <<>> /\ state["sender"] = "start"
            BY <1>1, <1>7, One DEF NoneLeft, OnTheWay
      <2> HIDE DEF m
      <2>2. Response(m) BY <1>1, <2>1 DEF StreamInitiationResult, ByteStreamResult, Response
      <2>3. /\ Terminate("sender", "Abort")
            /\ UNCHANGED <<requestId, toReceiver, method, answered, candidate, socks, mishap>>
            BY <1>7, <2>1, <2>2 DEF Response, NoneLeft, Socks, Both
      <2>4. /\ state' = [state EXCEPT !["sender"] = "finished"]
            /\ error' = [error EXCEPT !["sender"] = "Abort"]
            /\ ending' = [ending EXCEPT !["sender"] = TRUE]
            /\ relay' \in {relay, "closed"}
            BY <2>1, <2>3 DEF Terminate
      <2>5. NoneLeft'
            BY <1>7, <2>1, <2>3, <2>4, Shapes DEF NoneLeft, Socks, Both, OnTheWay
      <2>6. Calm' BY <1>2, <1>7, <2>1, <2>3, <2>4, Shapes, Sides DEF Calm, NoneLeft, Socks, Both
      <2> QED BY <2>3, <2>5, <2>6 DEF OnCourse, Phase
<1>8. CASE Chosen
      <2> DEFINE h == socks["receiver"]
      <2>1. /\ toSender' = <<>> /\ m.is = "used" /\ m.re = IqId("offer") /\ m.host = h
            /\ toReceiver = <<>>
            BY <1>1, <1>8, One DEF Chosen, OnTheWay
      <2> HIDE DEF m
      <2>2. ByteStreamResult(m)
            BY <1>1, <2>1 DEF StreamInitiationResult, ByteStreamResult, Response
      <2>3. UNCHANGED <<method, requestId, answered, candidate, toReceiver, mishap>>
            BY <2>2 DEF ByteStreamResult
      <2>4. CASE /\ h = Proxy /\ socks' = [socks EXCEPT !["sender"] = Proxy]
                 /\ relay' = "connecting"
                 /\ UNCHANGED <<state, error, iodevice, ending, done, conn, toWrite, underWay>>
            <3>1. sequence' = sequence BY <2>2 DEF ByteStreamResult
            <3>2. Relaying'
                  BY <1>8, <2>1, <2>3, <2>4, <3>1, Shapes
                  DEF Chosen, Relaying, Socks, Both, FilesOpen, NothingSent, Zero, OnTheWay
            <3>3. Calm' BY <1>2, <2>3, <2>4 DEF Calm
            <3> QED BY <2>3, <3>2, <3>3 DEF OnCourse, Phase
      <2>5. CASE h # Proxy /\ UNCHANGED socks /\ SendData(0)
            <3>1. /\ iodevice["sender"] /\ iodevice["receiver"] /\ toWrite = 0 /\ underWay = 0
                  /\ state["receiver"] = "transfer" /\ state["sender"] # "finished"
                  /\ socks["sender"] = h /\ h # NoHost /\ conn[h] = "ready"
                  /\ Zero(done) /\ Socks /\ candidate = NoHost /\ relay # "connecting"
                  /\ requestId' = IqId("offer") /\ OnTheWay(<<>>, <<>>)' /\ FilesOpen
                  BY <1>8, <2>1, <2>3, <2>5 DEF Chosen, NothingSent, FilesOpen, OnTheWay
            <3>2. Linked BY <2>5, <3>1 DEF Linked
            <3>3. OnCourse'
                  BY <1>2, <2>3, <2>5, <3>1, <3>2, FirstData
            <3> QED BY <2>3, <3>3
      <2> QED BY <1>8, <2>1, <2>2, <2>4, <2>5 DEF ByteStreamResult, Jobs, Chosen
<1> QED BY <1>1, <1>3, <1>4, <1>5, <1>6, <1>7, <1>8, WhichPhase DEF OnCourse

LEMMA ProxyAnswersSteady ==
    ASSUME TransferInv, OnCourse, ProxyAnswers, ~mishap' PROVE OnCourse' /\ mishap' = mishap
<1>1. ProxyAsked /\ Calm /\ requestId = IqId("proxy") BY WhichPhase DEF OnCourse, ProxyAnswers
<1>2. toReceiver = <<>> /\ toSender = <<>> BY <1>1, IdsDiffer DEF ProxyAsked, OnTheWay
<1>3. /\ requestId' = IqId("offer") /\ toReceiver' = <<[is |-> "offer"]>>
      /\ UNCHANGED <<state, error, method, done, iodevice, ending, sequence, answered, candidate,
                     socks, relay, toWrite, underWay, toSender, mishap>>
      BY <1>2, One DEF ProxyAnswers, Ask, linkageVars
<1>4. ProxyAsked'
      BY <1>1, <1>2, <1>3
      DEF ProxyAsked, Socks, Both, FilesOpen, NothingSent, Zero, NoSockets, NoSocks, OnTheWay
<1>5. Calm' BY <1>1, <1>3 DEF Calm
<1> QED BY <1>3, <1>4, <1>5 DEF OnCourse, Phase

LEMMA ProxyReadySteady ==
    ASSUME TransferInv, OnCourse, ProxyReady, ~mishap' PROVE OnCourse' /\ mishap' = mishap
<1>1. Relaying /\ Calm BY WhichPhase DEF OnCourse, ProxyReady
<1>2. /\ relay' = "up" /\ requestId' = IqId("activate")
      /\ UNCHANGED <<state, error, method, done, iodevice, ending, sequence, answered, candidate,
                     conn, socks, toWrite, underWay, toReceiver, toSender, mishap>>
      BY DEF ProxyReady, Jobs, SenderRest, mailVars
<1>3. Relaying' BY <1>1, <1>2 DEF Relaying, Socks, Both, FilesOpen, NothingSent, Zero, OnTheWay
<1>4. Calm' BY <1>1, <1>2 DEF Calm
<1> QED BY <1>2, <1>3, <1>4 DEF OnCourse, Phase

LEMMA ProxyActivatesSteady ==
    ASSUME TransferInv, OnCourse, ProxyActivates, ~mishap' PROVE OnCourse' /\ mishap' = mishap
<1>1. Relaying /\ Calm /\ requestId = IqId("activate")
      BY WhichPhase DEF OnCourse, ProxyActivates
<1>2. /\ relay = "up" /\ toWrite = 0 /\ underWay = 0 /\ done["sender"] = 0 /\ done["receiver"] = 0
      /\ iodevice["sender"] /\ iodevice["receiver"]
      /\ state["sender"] = "start" /\ state["receiver"] = "transfer"
      /\ socks["sender"] = Proxy /\ socks["receiver"] = Proxy /\ conn[Proxy] = "ready"
      BY <1>1, IdsDiffer DEF Relaying, NothingSent, Zero, FilesOpen, Both
<1>3. /\ requestId' = IqId("none")
      /\ UNCHANGED <<method, answered, candidate, socks, toReceiver, toSender, mishap>>
      /\ SendData(0) \/ (Terminate("sender", "Protocol") /\ UNCHANGED done)
      BY <1>2 DEF ProxyActivates, SenderRest, mailVars, Jobs
<1>4. CASE SendData(0)
      <2>1. Linked BY <1>2, Sizes DEF Linked
      <2>2. /\ Zero(done) /\ FilesOpen /\ Socks /\ candidate = NoHost /\ OnTheWay(<<>>, <<>>)'
            BY <1>1, <1>2, <1>3 DEF Zero, FilesOpen, Relaying, OnTheWay
      <2>3. OnCourse' BY <1>1, <1>2, <1>3, <1>4, <2>1, <2>2, Sizes, FirstData
      <2> QED BY <1>3, <2>3
<1>5. CASE Terminate("sender", "Protocol") /\ UNCHANGED done
      <2>1. /\ state' = [state EXCEPT !["sender"] = "finished"]
            /\ error' = [error EXCEPT !["sender"] = "Protocol"]
            /\ ending' = [ending EXCEPT !["sender"] = TRUE]
            /\ underWay' \in {underWay, underWay + toWrite} /\ relay' \in {relay, "closed"}
            BY <1>2, <1>5 DEF Terminate
      <2>2. Denied'
            BY <1>1, <1>2, <1>3, <1>5, <2>1, Shapes, Sizes
            DEF Relaying, Denied, HostSettled, Socks, Both, OnTheWay
      <2>3. Calm' BY <1>1, <1>2, <1>3, <2>1, Shapes, Sides DEF Calm
      <2> QED BY <1>3, <2>2, <2>3 DEF OnCourse, Phase
<1> QED BY <1>3, <1>4, <1>5

LEMMA ProxyClosesSteady ==
    ASSUME TransferInv, OnCourse, ProxyCloses, ~mishap' PROVE OnCourse' /\ mishap' = mishap
<1>1. /\ relay = "closed" \/ state["sender"] = "finished"
      /\ conn' = [conn EXCEPT ![Proxy] = "half"]
      /\ UNCHANGED <<state, error, iodevice, ending, method, requestId, sequence, answered,
                     candidate, socks, toReceiver, toSender, done, relay, toWrite, underWay, mishap>>
      BY DEF ProxyCloses, Jobs, StreamRest, mailVars
<1>2. Calm /\ Calm' BY <1>1 DEF OnCourse, Calm
<1>3. ~Trying /\ ~Chosen /\ ~Relaying BY <1>1 DEF Trying, Chosen, Relaying, Both
<1>4. CASE Flowing
      <2>1. socks["sender"] # Proxy BY <1>1, <1>4 DEF Flowing, Both
      <2>2. conn'[socks["sender"]] = conn[socks["sender"]]
            BY <1>1, <1>4, <2>1, Shapes DEF Flowing
      <2>3. Flowing' BY <1>1, <1>4, <2>2 DEF Flowing, HostSettled, Socks, Both, FilesOpen, OnTheWay
      <2> QED BY <1>1, <1>2, <2>3 DEF OnCourse, Phase
<1>5. CASE ~Flowing
      <2>1. Phase'
            BY <1>1, <1>3, <1>5
            DEF OnCourse, Phase, NotBegun, Offered, GivenUp, Deciding, OfferTaken, StreamOpening, Moving,
                StreamClosing, Closed, ProxyAsked, NoneLeft, Draining, Denied, Both, OnTheWay, FilesOpen, NothingSent,
                Zero, NoSockets, NoSocks, Inband, Socks, HostSettled
      <2> QED BY <1>1, <1>2, <2>1 DEF OnCourse
<1> QED BY <1>4, <1>5

LEMMA CandidateSteady ==
    ASSUME TransferInv, OnCourse, ~mishap', NEW h \in Host,
           \/ CandidateConnected(h) \/ SocksServerConnected(h) \/ CandidateReady(h)
           \/ CandidateDisconnected(h) \/ CandidateTimeout(h)
    PROVE  OnCourse' /\ mishap' = mishap
<1>1. candidate = h /\ CandidateRest
      BY DEF CandidateConnected, SocksServerConnected, CandidateReady, CandidateDisconnected,
             CandidateTimeout
<1>2. Trying /\ Calm BY <1>1, Sizes, WhichPhase DEF OnCourse
<1>3. UNCHANGED <<method, done, requestId, sequence, answered, toReceiver, mishap>>
      BY <1>1 DEF CandidateRest
<1>4. CASE CandidateConnected(h) \/ SocksServerConnected(h)
      <2>1. /\ UNCHANGED <<candidate, relay, toWrite, underWay, toSender, state, error, iodevice, ending>>
            /\ \/ conn' = [conn EXCEPT ![h] = "greeted"] /\ socks' = socks
               \/ /\ conn' = [conn EXCEPT ![h] = "served"]
                  /\ socks' = IF h = Proxy THEN socks ELSE [socks EXCEPT !["sender"] = h]
            BY <1>4 DEF CandidateConnected, SocksServerConnected, Jobs
      <2>2. /\ conn'[h] \in {"greeted", "served"}
            /\ conn'[h] = "served" /\ h # Proxy => socks'["sender"] = h
            /\ socks'["receiver"] = socks["receiver"]
            BY <2>1, Shapes
      <2>3. Trying'
            BY <1>1, <1>2, <1>3, <2>1, <2>2 DEF Trying, Socks, Both, FilesOpen, NothingSent, Zero, OnTheWay
      <2>4. Calm' BY <1>2, <1>3, <2>1 DEF Calm
      <2> QED BY <1>3, <2>3, <2>4 DEF OnCourse, Phase
<1>5. CASE CandidateReady(h)
      <2>1. /\ conn[h] = "served" /\ candidate' = NoHost
            /\ conn' = [conn EXCEPT ![h] = "ready"]
            /\ socks' = [socks EXCEPT !["receiver"] = h]
            /\ state' = [state EXCEPT !["receiver"] = "transfer"]
            /\ toSender' = Append(toSender, [is |-> "used", re |-> IqId("offer"), host |-> h])
            /\ UNCHANGED <<error, iodevice, ending, relay, toWrite, underWay>>
            BY <1>5 DEF CandidateReady, Tell
      <2>2. toSender' = <<[is |-> "used", re |-> IqId("offer"), host |-> socks'["receiver"]]>>
            BY <1>2, <2>1, Shapes, One DEF Trying, OnTheWay
      <2>3. socks'["receiver"] = h /\ socks'["sender"] = socks["sender"] /\ conn'[h] = "ready"
            BY <2>1, Shapes
      <2>4. Chosen'
            BY <1>1, <1>2, <1>3, <2>1, <2>2, <2>3, Shapes, Sizes
            DEF Trying, Chosen, Socks, Both, FilesOpen, NothingSent, Zero, OnTheWay
      <2>5. Calm' BY <1>2, <1>3, <2>1, Shapes, Sides DEF Calm, Trying, Both
      <2> QED BY <1>3, <2>4, <2>5 DEF OnCourse, Phase
<1>6. CASE CandidateDisconnected(h) \/ CandidateTimeout(h)
      <2>1. /\ \E left \in Seq(Host) : NextHost(left)
            /\ UNCHANGED socks
            <3>1. candidates \in Seq(Host) BY Shapes
            <3>2. candidates # <<>> => Tail(candidates) \in Seq(Host) BY <3>1
            <3> QED BY <1>6, <3>1, <3>2 DEF CandidateDisconnected, CandidateTimeout
      <2>2. PICK left \in Seq(Host) : NextHost(left) BY <2>1
      <2>3. CASE left = <<>>
            <3>1. /\ candidate' = NoHost /\ toSender' = Append(toSender, [is |-> "error", re |-> IqId("offer")])
                  /\ Terminate("receiver", "Protocol")
                  BY <2>2, <2>3 DEF NextHost, Tell
            <3>2. /\ state' = [state EXCEPT !["receiver"] = "finished"]
                  /\ error' = [error EXCEPT !["receiver"] = "Protocol"]
                  /\ ending' = [ending EXCEPT !["receiver"] = TRUE]
                  /\ relay' = relay
                  BY <1>2, <3>1 DEF Trying, Both, Terminate
            <3>3. toSender' = <<[is |-> "error", re |-> IqId("offer")]>>
                  BY <1>2, <3>1, One DEF Trying, OnTheWay
            <3>4. NoneLeft'
                  BY <1>2, <1>3, <2>1, <3>1, <3>2, <3>3, Shapes
                  DEF Trying, NoneLeft, Socks, Both, OnTheWay
            <3>5. Calm' BY <1>2, <1>3, <3>2, Shapes, Sides DEF Calm, Trying, Socks, Both
            <3> QED BY <1>3, <3>4, <3>5 DEF OnCourse, Phase
      <2>4. CASE left # <<>>
            <3>1. /\ candidate' = Head(left) /\ Head(left) \in Host
                  /\ conn' = [x \in Host |-> IF x = Head(left) THEN "connecting"
                                             ELSE IF x = candidate THEN "closed" ELSE conn[x]]
                  /\ UNCHANGED <<state, error, iodevice, ending, relay, toWrite, underWay, toSender>>
                  BY <2>2, <2>4 DEF NextHost, Jobs
            <3>2. candidate' # NoHost /\ conn'[candidate'] = "connecting" BY <3>1, Sizes
            <3>3. Trying'
                  BY <1>2, <1>3, <2>1, <3>1, <3>2
                  DEF Trying, Socks, Both, FilesOpen, NothingSent, Zero, OnTheWay
            <3>4. Calm' BY <1>2, <1>3, <3>1 DEF Calm
            <3> QED BY <1>3, <3>3, <3>4 DEF OnCourse, Phase
      <2> QED BY <2>3, <2>4
<1> QED BY <1>4, <1>5, <1>6

LEMMA BytesWrittenSteady ==
    ASSUME TransferInv, OnCourse, BytesWritten, ~mishap' PROVE OnCourse' /\ mishap' = mishap
<1> DEFINE u == toWrite - 1
<1>1. /\ Linked /\ toWrite > 0 /\ SendData(u)
      /\ UNCHANGED <<method, answered, candidate, socks, toReceiver, toSender, requestId, mishap>>
      BY DEF BytesWritten, SenderRest, mailVars
<1>2. Flowing /\ Calm BY WhichPhase DEF OnCourse, BytesWritten
<1>3. /\ toWrite \in 1..3 /\ u \in 0..2 /\ underWay \in Nat /\ toWrite = u + 1
      /\ done["sender"] \in 0..Blocks /\ done["receiver"] \in 0..Blocks
      /\ done["sender"] = done["receiver"] + underWay + toWrite
      BY <1>1, <1>2, Shapes DEF Flowing
<1>4. iodevice["sender"] /\ iodevice["receiver"]
      /\ state["sender"] = "transfer" /\ state["receiver"] = "transfer"
      BY <1>2 DEF Flowing, Both, FilesOpen
<1>5. CASE done["sender"] = Blocks /\ u = 0 /\ Terminate("sender", "NoError") /\ UNCHANGED done
      <2>1. /\ state' = [state EXCEPT !["sender"] = "finished"]
            /\ error' = [error EXCEPT !["sender"] = "NoError"]
            /\ iodevice' = [iodevice EXCEPT !["sender"] = FALSE]
            /\ ending' = [ending EXCEPT !["sender"] = TRUE]
            /\ underWay' = underWay + toWrite /\ relay' \in {relay, "closed"}
            BY <1>1, <1>4, <1>5 DEF Terminate
      <2>2. underWay' > 0 /\ done'["receiver"] + underWay' = Blocks
            <3>1. \A d, w, t \in Nat : t > 0 => w + t > 0 /\ d + (w + t) = d + w + t OBVIOUS
            <3>2. done["receiver"] \in Nat /\ toWrite \in Nat /\ underWay \in Nat /\ toWrite > 0
                  BY <1>3
            <3> QED BY <1>3, <1>5, <2>1, <3>1, <3>2
      <2>3. Draining'
            BY <1>1, <1>2, <1>4, <1>5, <2>1, <2>2, Shapes
            DEF Flowing, Draining, HostSettled, Socks, Both, OnTheWay
      <2>4. Calm' BY <1>1, <1>2, <1>4, <2>1, Shapes, Sides DEF Calm
      <2> QED BY <1>1, <2>3, <2>4 DEF OnCourse, Phase
<1>6. CASE /\ done' = [done EXCEPT !["sender"] = @ + 1]
           /\ toWrite' = u + 1 /\ underWay' = underWay + (toWrite - u)
           /\ state' = [state EXCEPT !["sender"] = "transfer"]
           /\ UNCHANGED <<error, iodevice, ending, conn, relay>>
      <2>1. toWrite' = toWrite /\ underWay' = underWay + 1 BY <1>3, <1>6
      <2>2. done'["sender"] = done["sender"] + 1 /\ done'["receiver"] = done["receiver"]
            BY <1>6, Shapes
      <2>3. done'["sender"] = done'["receiver"] + underWay' + toWrite'
            <3>1. \A d, w, t \in Nat : (d + w + t) + 1 = d + (w + 1) + t OBVIOUS
            <3>2. done["receiver"] \in Nat /\ toWrite \in Nat BY <1>3
            <3> QED BY <1>3, <2>1, <2>2, <3>1, <3>2
      <2>4. Flowing'
            BY <1>1, <1>2, <1>4, <1>6, <2>1, <2>3, Shapes
            DEF Flowing, HostSettled, Socks, Both, FilesOpen, OnTheWay
      <2>5. Calm' BY <1>1, <1>2, <1>4, <1>6, Shapes, Sides DEF Calm
      <2> QED BY <1>1, <2>4, <2>5 DEF OnCourse, Phase
<1>7. CASE /\ u > 0 \/ done["sender"] < Blocks
           /\ toWrite' = u /\ underWay' = underWay + (toWrite - u)
           /\ state' = [state EXCEPT !["sender"] = "transfer"]
           /\ UNCHANGED <<error, iodevice, ending, done, conn, relay>>
      <2>1. /\ underWay' = underWay + 1 /\ toWrite' \in Nat /\ toWrite = toWrite' + 1
            /\ toWrite' > 0 \/ done'["sender"] < Blocks
            BY <1>3, <1>7
      <2>2. done'["sender"] = done'["receiver"] + underWay' + toWrite'
            <3>1. \A d, w, t \in Nat : d + w + (t + 1) = d + (w + 1) + t OBVIOUS
            <3>2. done["receiver"] \in Nat BY <1>3
            <3> QED BY <1>3, <1>7, <2>1, <3>1, <3>2
      <2>3. Flowing'
            BY <1>1, <1>2, <1>4, <1>7, <2>1, <2>2, Shapes
            DEF Flowing, HostSettled, Socks, Both, FilesOpen, OnTheWay
      <2>4. Calm' BY <1>1, <1>2, <1>4, <1>7, Shapes, Sides DEF Calm
      <2> QED BY <1>1, <2>3, <2>4 DEF OnCourse, Phase
<1>8. CASE done["sender"] < Blocks /\ Terminate("sender", "FileAccess") /\ UNCHANGED done
      <2>1. /\ state' = [state EXCEPT !["sender"] = "finished"]
            /\ error' = [error EXCEPT !["sender"] = "FileAccess"]
            /\ ending' = [ending EXCEPT !["sender"] = TRUE]
            /\ underWay' = underWay + toWrite /\ relay' \in {relay, "closed"}
            BY <1>1, <1>4, <1>8 DEF Terminate
      <2>2. done'["receiver"] + underWay' < Blocks
            <3>1. \A d, w, t \in Nat : d + (w + t) = d + w + t OBVIOUS
            <3>2. done["receiver"] \in Nat /\ toWrite \in Nat BY <1>3
            <3> QED BY <1>3, <1>8, <2>1, <3>1, <3>2
      <2>3. Denied'
            BY <1>1, <1>2, <1>4, <1>8, <2>1, <2>2, Shapes
            DEF Flowing, Denied, HostSettled, Socks, Both, OnTheWay
      <2>4. Calm' BY <1>1, <1>2, <1>4, <2>1, Shapes, Sides DEF Calm, Flowing, HostSettled, Socks, Both
      <2> QED BY <1>1, <2>3, <2>4 DEF OnCourse, Phase
<1> HIDE DEF u
<1> QED BY <1>1, <1>4, <1>5, <1>6, <1>7, <1>8 DEF SendData

LEMMA SenderDisconnectedSteady == TransferInv /\ OnCourse => ~SenderDisconnected
BY WhichPhase DEF OnCourse, SenderDisconnected

LEMMA ReceiveDataSteady ==
    ASSUME TransferInv, OnCourse, ReceiveData, ~mishap' PROVE OnCourse' /\ mishap' = mishap
<1>1. PICK n \in 1..underWay :
          /\ done' = [done EXCEPT !["receiver"] = @ + n] /\ UNCHANGED mishap
          /\ \/ /\ done'["receiver"] = Blocks
                /\ state' = [state EXCEPT !["receiver"] = "finished"]
                /\ error' = [error EXCEPT !["receiver"] = "NoError"]
                /\ iodevice' = [iodevice EXCEPT !["receiver"] = FALSE]
                /\ ending' = [ending EXCEPT !["receiver"] = TRUE]
                /\ conn' = [conn EXCEPT ![socks["receiver"]] = "closed"]
                /\ UNCHANGED <<relay, toWrite>>
             \/ /\ done'["receiver"] # Blocks
                /\ UNCHANGED <<state, error, iodevice, ending, conn, relay, toWrite>>
          /\ underWay' = underWay - n
      BY DEF ReceiveData, Jobs
<1>2. /\ underWay > 0 /\ state["receiver"] = "transfer" /\ socks["receiver"] # NoHost
      /\ UNCHANGED <<method, requestId, answered, candidate, socks, toReceiver, toSender>>
      BY DEF ReceiveData, StreamRest, mailVars
<1>3. Calm /\ (Flowing \/ Draining \/ Denied) BY <1>2, WhichPhase DEF OnCourse
<1>4. /\ underWay \in Nat /\ n \in Nat /\ n > 0 /\ n <= underWay /\ underWay' \in Nat
      /\ done["sender"] \in 0..Blocks /\ done["receiver"] \in 0..Blocks /\ toWrite \in Nat
      BY <1>1, <1>2, Shapes
<1>5. done'["receiver"] = done["receiver"] + n /\ done'["sender"] = done["sender"] BY <1>1, Shapes
<1>6. \A d, w, k \in Nat : k <= w => (d + k) + (w - k) = d + w OBVIOUS
<1>7. done'["receiver"] + underWay' = done["receiver"] + underWay
      <2>1. done["receiver"] \in Nat BY <1>4
      <2> QED BY <1>1, <1>4, <1>5, <1>6, <2>1
<1>8. done'["receiver"] \in Nat BY <1>4, <1>5
<1>9. CASE Flowing
      <2>1. /\ done["sender"] = done["receiver"] + underWay + toWrite
            /\ toWrite > 0 \/ done["sender"] < Blocks
            BY <1>9 DEF Flowing
      <2>2. done'["receiver"] # Blocks
            <3>1. CASE toWrite > 0
                  <4>1. done["receiver"] + n < done["sender"] BY <1>4, <2>1, <3>1
                  <4> QED BY <1>4, <1>5, <4>1, Sizes
            <3>2. CASE done["sender"] < Blocks
                  <4>1. done["receiver"] + n <= done["sender"] BY <1>4, <2>1
                  <4> QED BY <1>4, <1>5, <3>2, <4>1, Sizes
            <3> QED BY <2>1, <3>1, <3>2
      <2>3. UNCHANGED <<state, error, iodevice, ending, conn, relay, toWrite>> BY <1>1, <2>2
      <2>4. done'["sender"] = done'["receiver"] + underWay' + toWrite'
            BY <1>5, <1>7, <2>1, <2>3
      <2>5. Flowing'
            BY <1>2, <1>5, <1>9, <2>3, <2>4 DEF Flowing, HostSettled, Socks, Both, FilesOpen, OnTheWay
      <2>6. Calm' BY <1>2, <1>3, <2>3 DEF Calm
      <2> QED BY <1>1, <2>5, <2>6 DEF OnCourse, Phase
<1>10. CASE Draining
       <2>1. done["receiver"] + underWay = Blocks BY <1>2, <1>10 DEF Draining
       <2>2. CASE /\ state' = [state EXCEPT !["receiver"] = "finished"]
                  /\ error' = [error EXCEPT !["receiver"] = "NoError"]
                  /\ ending' = [ending EXCEPT !["receiver"] = TRUE]
                  /\ relay' = relay
             <3>1. Draining' BY <1>2, <1>10, <2>2, Shapes DEF Draining, HostSettled, Socks, Both, OnTheWay
             <3>2. Calm'
                   BY <1>2, <1>3, <1>10, <2>2, Shapes, Sides DEF Calm, Draining, HostSettled, Socks
             <3> QED BY <1>1, <3>1, <3>2 DEF OnCourse, Phase
       <2>3. CASE /\ done'["receiver"] # Blocks
                  /\ UNCHANGED <<state, error, iodevice, ending, conn, relay, toWrite>>
             <3>1. underWay' > 0 BY <1>4, <1>7, <1>8, <2>1, <2>3, Sizes
             <3>2. Draining'
                   BY <1>2, <1>7, <1>10, <2>1, <2>3, <3>1 DEF Draining, HostSettled, Socks, Both, OnTheWay
             <3>3. Calm' BY <1>2, <1>3, <2>3 DEF Calm
             <3> QED BY <1>1, <3>2, <3>3 DEF OnCourse, Phase
       <2> QED BY <1>1, <2>2, <2>3
<1>11. CASE Denied
       <2>1. done["receiver"] + underWay < Blocks BY <1>11 DEF Denied
       <2>2. done'["receiver"] # Blocks BY <1>4, <1>7, <1>8, <2>1, Sizes
       <2>3. UNCHANGED <<state, error, iodevice, ending, conn, relay, toWrite>> BY <1>1, <2>2
       <2>4. Denied'
             BY <1>2, <1>7, <1>11, <2>1, <2>3 DEF Denied, HostSettled, Socks, Both, OnTheWay
       <2>5. Calm' BY <1>2, <1>3, <2>3 DEF Calm
       <2> QED BY <1>1, <2>4, <2>5 DEF OnCourse, Phase
<1> QED BY <1>3, <1>9, <1>10, <1>11

LEMMA StreamDisconnectedSteady ==
    ASSUME TransferInv, OnCourse, StreamDisconnected, ~mishap' PROVE OnCourse' /\ mishap' = mishap
<1>1. /\ socks["receiver"] # NoHost /\ conn[socks["receiver"]] = "half" /\ underWay = 0
      /\ done' = done /\ Terminate("receiver", Verdict)
      /\ UNCHANGED <<method, requestId, answered, candidate, socks, toReceiver, toSender, mishap>>
      BY DEF StreamDisconnected, StreamRest, mailVars
<1>2. Calm /\ (Draining \/ Denied) BY <1>1, WhichPhase DEF OnCourse
<1>3. CASE state["receiver"] = "finished"
      <2>1. UNCHANGED <<state, error, iodevice, ending, conn, relay, toWrite, underWay>>
            BY <1>1, <1>3 DEF Terminate
      <2>2. Draining' \/ Denied'
            BY <1>1, <1>2, <2>1 DEF Draining, Denied, HostSettled, Socks, Both, OnTheWay
      <2>3. Calm' BY <1>1, <1>2, <2>1 DEF Calm
      <2> QED BY <1>1, <2>2, <2>3 DEF OnCourse, Phase
<1>4. CASE state["receiver"] # "finished"
      <2>1. Denied /\ state["receiver"] = "transfer" BY <1>1, <1>2, <1>4 DEF Draining, Denied
      <2>2. Verdict = "FileCorrupt"
            <3>1. done["receiver"] < Blocks BY <1>1, <2>1, Shapes DEF Denied
            <3> QED BY <1>1, <3>1, Shapes, Sizes DEF Verdict
      <2>3. /\ state' = [state EXCEPT !["receiver"] = "finished"]
            /\ error' = [error EXCEPT !["receiver"] = "FileCorrupt"]
            /\ ending' = [ending EXCEPT !["receiver"] = TRUE]
            /\ underWay' = underWay /\ relay' = relay
            BY <1>1, <1>4, <2>2 DEF Terminate
      <2>4. Denied' BY <1>1, <2>1, <2>3, Shapes DEF Denied, HostSettled, Socks, Both, OnTheWay
      <2>5. Calm' BY <1>1, <1>2, <2>1, <2>3, Shapes, Sides DEF Calm, Denied, HostSettled, Socks
      <2> QED BY <1>1, <2>4, <2>5 DEF OnCourse, Phase
<1> QED BY <1>3, <1>4

-----------------------------------------------------------------------------
\* A mishap is not forgotten.
LEMMA MishapStays == TransferInv /\ TransferNext /\ ~mishap' => ~mishap
<1> SUFFICES ASSUME TransferInv, TransferNext, mishap, ~mishap' PROVE FALSE OBVIOUS
<1>1. ~ReceiverHandles
      BY DEF ReceiverHandles, StreamInitiationSet, ByteStreamSet, IbbOpen, IbbData, IbbClose
<1>2. ~SenderHandles BY DEF SenderHandles, StreamInitiationResult, ByteStreamResult, Response
<1>3. \A s \in Side : ~Abort(s) /\ ~Terminated(s) BY DEF Abort, Terminated
<1>4. ~SendFile /\ ~Accept BY DEF SendFile, Accept
<1>5. ~ProxyAnswers /\ ~ProxyReady /\ ~ProxyActivates /\ ~ProxyCloses
      BY DEF ProxyAnswers, ProxyReady, ProxyActivates, ProxyCloses
<1>6. \A h \in Host :
          /\ ~CandidateConnected(h) /\ ~SocksServerConnected(h) /\ ~CandidateReady(h)
          /\ ~CandidateDisconnected(h) /\ ~CandidateTimeout(h)
      BY DEF CandidateConnected, SocksServerConnected, CandidateReady, CandidateDisconnected,
             CandidateTimeout, CandidateRest
<1>7. ~BytesWritten /\ ~SenderDisconnected BY DEF BytesWritten, SenderDisconnected
<1>8. ~ReceiveData /\ ~StreamDisconnected /\ ~StreamBreaks
      BY DEF ReceiveData, StreamDisconnected, StreamBreaks
<1> QED BY <1>1, <1>2, <1>3, <1>4, <1>5, <1>6, <1>7, <1>8 DEF TransferNext

Smooth == ~mishap => OnCourse

LEMMA InitSmooth == TransferInit => Smooth
<1> SUFFICES ASSUME TransferInit PROVE OnCourse BY DEF Smooth
<1>1. NotBegun BY Sides DEF TransferInit, NotBegun, Both, OnTheWay
<1>2. Calm BY Sides DEF TransferInit, Calm
<1> QED BY <1>1, <1>2 DEF OnCourse, Phase

LEMMA StillSmooth == Smooth /\ UNCHANGED transferVars => Smooth'
BY DEF Smooth, OnCourse, Calm, transferVars, jobVars, linkageVars, mailVars, Phase,
       NotBegun, Offered, GivenUp, Deciding, OfferTaken, StreamOpening, Moving,
       StreamClosing, Closed, ProxyAsked, Trying, NoneLeft, Chosen, Relaying, Flowing, Draining, Denied,
       Both, OnTheWay, FilesOpen, NothingSent, Zero, NoSockets, NoSocks, Inband, Socks, HostSettled

LEMMA StepSmooth == TransferInv /\ Smooth /\ [TransferNext]_transferVars => Smooth'
<1>1. ASSUME TransferInv, Smooth, TransferNext, ~mishap' PROVE OnCourse'
      <2>1. OnCourse BY <1>1, MishapStays DEF Smooth
      <2>2. \A s \in Side : ~Abort(s) BY <1>1 DEF Abort
      <2>3. ~StreamBreaks BY <1>1 DEF StreamBreaks
      <2>4. ~SenderDisconnected BY <1>1, <2>1, SenderDisconnectedSteady
      <2>5. ASSUME NEW s \in Side, Terminated(s) PROVE OnCourse'
            BY <1>1, <2>1, <2>5, TerminatedSteady
      <2>6. ASSUME NEW h \in Host,
                   \/ CandidateConnected(h) \/ SocksServerConnected(h) \/ CandidateReady(h)
                   \/ CandidateDisconnected(h) \/ CandidateTimeout(h)
            PROVE OnCourse'
            BY <1>1, <2>1, <2>6, CandidateSteady
      <2>7. ASSUME \/ SendFile \/ Accept \/ SenderHandles \/ ReceiverHandles
                   \/ ProxyAnswers \/ ProxyReady \/ ProxyActivates \/ ProxyCloses
                   \/ BytesWritten \/ ReceiveData \/ StreamDisconnected
            PROVE OnCourse'
            BY <1>1, <2>1, <2>7, SendFileSteady, AcceptSteady, SenderHandlesSteady,
               ReceiverHandlesSteady, ProxyAnswersSteady, ProxyReadySteady, ProxyActivatesSteady,
               ProxyClosesSteady, BytesWrittenSteady, ReceiveDataSteady, StreamDisconnectedSteady
      <2> QED BY <1>1, <2>2, <2>3, <2>4, <2>5, <2>6, <2>7 DEF TransferNext
<1> QED BY <1>1, StillSmooth DEF Smooth

\* The receiver never takes a part of the file for the whole, and two jobs that
\* have ended without a mishap agree on the outcome, but for the sender in the
\* stream itself that takes a file it could not read to its end for one it has
\* sent (ibbResponseReceived).
THEOREM OutcomesAlwaysAgree == TransferSpec => []OutcomesAgree
<1>1. TransferInv /\ Smooth => OutcomesAgree
      <2> SUFFICES ASSUME TransferInv, Smooth PROVE OutcomesAgree OBVIOUS
      <2> DEFINE Unread == method["sender"] = "inband" /\ done["sender"] < Blocks
      <2>1. state["receiver"] = "finished" /\ error["receiver"] = "NoError"
               => done["receiver"] = Blocks
            BY DEF TransferInv, Whole
      <2>2. ASSUME ~mishap, \A s \in Side : state[s] = "finished"
            PROVE  error["receiver"] = "NoError" <=> error["sender"] = "NoError" /\ ~Unread
            <3>1. state["sender"] = "finished" /\ state["receiver"] = "finished" BY <2>2, Sides
            <3>2. Phase BY <2>2 DEF Smooth, OnCourse
            <3>3. Closed \/ NoneLeft \/ Draining \/ Denied
                  BY <3>1, <3>2
                  DEF Phase, NotBegun, Offered, GivenUp, Deciding, OfferTaken, StreamOpening, Moving, StreamClosing,
                      ProxyAsked, Trying, Chosen, Relaying, Flowing, Both
            <3>4. CASE Closed
                  <4>1. done["sender"] < Blocks <=> done["sender"] # Blocks BY Shapes, Sizes
                  <4> QED BY <3>4, <4>1 DEF Closed, Inband, Both
            <3>5. CASE NoneLeft \/ Draining \/ Denied
                  <4>1. method["sender"] = "socks"
                        BY <3>5 DEF NoneLeft, Draining, Denied, HostSettled, Socks, Both
                  <4> QED BY <3>1, <3>5, <4>1 DEF NoneLeft, Draining, Denied
            <3> QED BY <3>3, <3>4, <3>5
      <2> QED BY <2>1, <2>2 DEF OutcomesAgree
<1>2. TransferInit => TransferInv /\ Smooth BY InitSound, InitSmooth
<1>3. TransferInv /\ Smooth /\ [TransferNext]_transferVars => TransferInv' /\ Smooth'
      BY StepSound, StepSmooth
<1> QED BY <1>1, <1>2, <1>3, PTL DEF TransferSpec
=============================================================================
