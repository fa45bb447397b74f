------------------------------- MODULE OtrSmp -------------------------------
(***************************************************************************)
(* The socialist millionaires' protocol of libotr (sm.c, and its part of   *)
(* message.c) and the glue around it (OTR.cpp: ask_question_smp,           *)
(* respond_smp, handle_smp), between two users in a private conversation.  *)
(*                                                                         *)
(* The exponents x2, x3 a side draws are one number; g2 and g3 are the set *)
(* of the two sides' exponents.  A proof convinces who holds the same g2   *)
(* and g3 as its author.  What is compared is the bytes of the two secrets *)
(* (libotr hashes them with the session and the fingerprints, which are    *)
(* the same on both sides).  Both texts come from the user interface in    *)
(* UTF-8; the glue turns the one of who asks into bytes by toAscii, that   *)
(* of who answers by toUtf8.                                               *)
(***************************************************************************)
EXTENDS Integers, Sequences, FiniteSets

CONSTANTS
    Users,
    Secrets,        \* texts that users type
    ToAscii,        \* QString::toAscii of each, as ask_question_smp takes it:
                    \* Latin-1, where several texts may become the same
    ToUtf8,         \* QString::toUtf8 of each
    MaxExponents,   \* bound on the exponents drawn
    MaxLine         \* bound on the messages in flight to one user

ASSUME UsersAssumption == \E p, q \in Users : p # q /\ Users = {p, q}
ASSUME SecretsAssumption ==
    /\ "none" \notin Secrets
    /\ \A t \in Secrets : "none" \notin {ToAscii[t], ToUtf8[t]}
    /\ \A t, u \in Secrets : ToUtf8[t] = ToUtf8[u] => t = u
ASSUME SmpBoundsAssumption == MaxExponents \in Nat /\ MaxLine \in Nat

VARIABLES
    smp,        \* smstate of the context each user has for the other
    asked,      \* the user has been asked and has not answered
    trust,      \* the trust of the contact's fingerprint is "smp"
    line,       \* messages on their way to each user
    exponents,  \* history: the number of exponents drawn
    told,       \* history: the verdicts each user was told, in order
    typed,      \* history: what each user first typed for an exponent
    smooth,     \* history: nothing was lost or restarted so far
    crossed     \* history: a comparison was started during another one

smpVars == <<smp, asked, trust, line, exponents, told, typed, smooth, crossed>>

Contact(p) == CHOOSE q \in Users : q # p

Exponent == 1..MaxExponents
NoExponent == 0
NoSecret == "none"

\* A secret, typed to ask or to answer, and the bytes the glue makes of it.
Typing == [to : {"ask", "answer"}, text : Secrets]
Untyped == [to |-> "none", text |-> NoSecret]
Code(t) == IF t.to = "ask" THEN ToAscii[t.text] ELSE ToUtf8[t.text]
Codes == {Code(t) : t \in Typing}

SMPMessage ==
    [type : {"smp1", "smp2", "smp3", "smp4", "abort"},
     x : Exponent \cup {NoExponent},        \* g2a, g3a or g2b, g3b
     gens : SUBSET Exponent,                \* the generators of its proofs
     secret : Codes \cup {NoSecret},        \* in p and q
     question : BOOLEAN]
SMP1(x, question) ==
    [type |-> "smp1", x |-> x, gens |-> {}, secret |-> NoSecret,
     question |-> question]
SMP2(x, gens, secret) ==
    [type |-> "smp2", x |-> x, gens |-> gens, secret |-> secret,
     question |-> FALSE]
SMP3(gens, secret) ==
    [type |-> "smp3", x |-> NoExponent, gens |-> gens, secret |-> secret,
     question |-> FALSE]
SMP4(gens) ==
    [type |-> "smp4", x |-> NoExponent, gens |-> gens, secret |-> NoSecret,
     question |-> FALSE]
SMPAbort ==
    [type |-> "abort", x |-> NoExponent, gens |-> {}, secret |-> NoSecret,
     question |-> FALSE]

SMState ==
    [nextExpected : 1..4,
     prog : {"ok", "failed", "succeeded"},  \* "cheated" is reset at once
     x : Exponent \cup {NoExponent},        \* NoExponent: g1 is NULL
     gens : SUBSET Exponent,
     secret : Codes \cup {NoSecret},
     match : BOOLEAN,                       \* pab against qab
     question : BOOLEAN]                    \* received_question

\* otrl_sm_state_new, and otrl_sm_state_free which ends with it
StateNew == [nextExpected |-> 1, prog |-> "ok", x |-> NoExponent, gens |-> {},
             secret |-> NoSecret, match |-> FALSE, question |-> FALSE]

\* Types; and a side that waits for the last message holds the generators
\* its own exponent is part of.
SmpTypeOK ==
    /\ smp \in [Users -> SMState]
    /\ \A p \in Users : smp[p].nextExpected = 4 => smp[p].x \in smp[p].gens
    /\ asked \in [Users -> BOOLEAN] /\ trust \in [Users -> BOOLEAN]
    /\ line \in [Users -> Seq(SMPMessage)]
    /\ exponents \in 0..MaxExponents
    /\ told \in [Users -> Seq([run : SUBSET Exponent, verdict : BOOLEAN])]
    /\ typed \in [Users -> [Exponent -> Typing \cup {Untyped}]]
    /\ smooth \in BOOLEAN /\ crossed \in BOOLEAN

SmpInit ==
    /\ smp = [p \in Users |-> StateNew]
    /\ asked = [p \in Users |-> FALSE] /\ trust = [p \in Users |-> FALSE]
    /\ line = [p \in Users |-> <<>>]
    /\ exponents = 0
    /\ told = [p \in Users |-> <<>>]
    /\ typed = [p \in Users |-> [x \in Exponent |-> Untyped]]
    /\ smooth = TRUE /\ crossed = FALSE

-----------------------------------------------------------------------------

Silent == \A p \in Users : line[p] = <<>>
Idle == Silent /\ \A p \in Users : ~asked[p] /\ smp[p].nextExpected = 1

Draws == exponents < MaxExponents /\ exponents' = exponents + 1

Send(p, m) ==
    /\ Len(line[Contact(p)]) < MaxLine
    /\ line' = [line EXCEPT ![Contact(p)] = Append(@, m)]

Incoming(p, type) == line[p] # <<>> /\ Head(line[p]).type = type
Take(p) == line' = [line EXCEPT ![p] = Tail(@)]
TakeAndSend(p, m) ==
    /\ Len(line[Contact(p)]) < MaxLine
    /\ line' = [q \in Users |->
                   IF q = p THEN Tail(line[p]) ELSE Append(line[q], m)]

\* What handle_smp tells the user at the end of every message with an SMP
\* part: the verdict the state holds.
TellVerdict(p, s) ==
    told' = [told EXCEPT ![p] =
        IF s.prog = "ok" THEN @
        ELSE Append(@, [run |-> s.gens, verdict |-> s.prog = "succeeded"])]

-----------------------------------------------------------------------------
(* The users: ask_question_smp with otrl_sm_step1, respond_smp with        *)
(* otrl_sm_step2b.                                                         *)

AskQuestion(p) ==
    \E text \in Secrets, question \in BOOLEAN :
        LET x == exponents + 1
        IN  /\ Draws
            /\ smp' = [smp EXCEPT ![p] =
                  [@ EXCEPT !.nextExpected = 2, !.prog = "ok", !.x = x,
                            !.secret = ToAscii[text], !.question = FALSE]]
            /\ typed' = [typed EXCEPT ![p][x] = [to |-> "ask", text |-> text]]
            /\ Send(p, SMP1(x, question))
            /\ crossed' = (crossed \/ ~Idle)
            /\ UNCHANGED <<asked, trust, told, smooth>>

AnswerQuestion(p) ==
    \E text \in Secrets :
        LET s == smp[p]
            answer == [to |-> "answer", text |-> text]
        IN  /\ asked[p] /\ s.x # NoExponent
            /\ asked' = [asked EXCEPT ![p] = FALSE]
            /\ smp' = [smp EXCEPT ![p] =
                  [@ EXCEPT !.nextExpected = 3, !.secret = ToUtf8[text]]]
            /\ typed' = [typed EXCEPT ![p][s.x] = IF @ = Untyped THEN answer ELSE @]
            /\ Send(p, SMP2(s.x, s.gens, ToUtf8[text]))
            /\ UNCHANGED <<trust, exponents, told, smooth, crossed>>

\* The process of one user ends.  The messages that were on their way to it
\* were sealed for keys that are gone.
Gone(p) ==
    /\ smp' = [smp EXCEPT ![p] = StateNew]
    /\ asked' = [asked EXCEPT ![p] = FALSE]
    /\ line' = [line EXCEPT ![p] = <<>>]
    /\ smooth' = FALSE
    /\ UNCHANGED <<trust, exponents, told, typed, crossed>>

\* An answer to a question whose state has been freed: step2b uses the NULL
\* generators, and the process ends there.
AnswerTooLate(p) == asked[p] /\ smp[p].x = NoExponent /\ Gone(p)

RestartUser(p) == Gone(p)

LoseSMP(p) ==
    /\ line[p] # <<>>
    /\ Take(p)
    /\ smooth' = FALSE
    /\ UNCHANGED <<smp, asked, trust, exponents, told, typed, crossed>>

-----------------------------------------------------------------------------
(* otrl_message_receiving, then handle_smp.                                *)

\* SMP1 and SMP1Q.  libotr takes it when it expects one (otrl_sm_step2a) and
\* ignores it otherwise; the glue then stops the comparison that goes on.
HandleSMP1(p) ==
    LET m == Head(line[p])
        x == exponents + 1
    IN  /\ Incoming(p, "smp1")
        /\ \/ /\ smp[p].nextExpected = 1
              /\ Draws
              /\ smp' = [smp EXCEPT ![p] =
                    [@ EXCEPT !.prog = "ok", !.x = x, !.gens = {m.x, x},
                              !.question = m.question]]
              /\ asked' = [asked EXCEPT ![p] = TRUE]
              /\ Take(p)
              /\ UNCHANGED told
           \/ /\ smp[p].nextExpected # 1
              /\ smp' = [smp EXCEPT ![p] = StateNew]
              /\ told' = [told EXCEPT ![p] =
                    Append(@, [run |-> {}, verdict |-> FALSE])]
              /\ TakeAndSend(p, SMPAbort)
              /\ UNCHANGED <<exponents, asked>>
        /\ UNCHANGED <<trust, typed, smooth, crossed>>

\* Mutant: pab and qab are left from the comparison before.
HandleSMP2Stale(p) ==
    LET m == Head(line[p])
        s == smp[p]
        gens == {s.x, m.x}
    IN  /\ Incoming(p, "smp2")
        /\ \/ /\ s.nextExpected = 2 /\ m.gens = gens
              /\ smp' = [smp EXCEPT ![p] =
                    [s EXCEPT !.nextExpected = 4, !.prog = "ok", !.gens = gens]]
              /\ TakeAndSend(p, SMP3(gens, s.secret))
              /\ UNCHANGED told
           \/ /\ s.nextExpected = 2 /\ m.gens # gens    \* cheated
              /\ smp' = [smp EXCEPT ![p] =
                    [s EXCEPT !.nextExpected = 1, !.prog = "ok", !.gens = gens]]
              /\ Take(p)
              /\ UNCHANGED told
           \/ /\ s.nextExpected # 2
              /\ Take(p)
              /\ TellVerdict(p, s)
              /\ UNCHANGED smp
        /\ UNCHANGED <<asked, trust, exponents, typed, smooth, crossed>>

\* otrl_sm_step3
HandleSMP2(p) ==
    LET m == Head(line[p])
        s == smp[p]
        gens == {s.x, m.x}
    IN  /\ Incoming(p, "smp2")
        /\ \/ /\ s.nextExpected = 2 /\ m.gens = gens
              /\ smp' = [smp EXCEPT ![p] =
                    [s EXCEPT !.nextExpected = 4, !.prog = "ok", !.gens = gens,
                              !.match = (m.secret = s.secret)]]
              /\ TakeAndSend(p, SMP3(gens, s.secret))
              /\ UNCHANGED told
           \/ /\ s.nextExpected = 2 /\ m.gens # gens    \* cheated
              /\ smp' = [smp EXCEPT ![p] =
                    [s EXCEPT !.nextExpected = 1, !.prog = "ok", !.gens = gens]]
              /\ Take(p)
              /\ UNCHANGED told
           \/ /\ s.nextExpected # 2
              /\ Take(p)
              /\ TellVerdict(p, s)
              /\ UNCHANGED smp
        /\ UNCHANGED <<asked, trust, exponents, typed, smooth, crossed>>

\* otrl_sm_step4.  Who was asked a question does not trust for his answer.
HandleSMP3(p) ==
    LET m == Head(line[p])
        s == smp[p]
        convinced == m.gens = s.gens
        same == m.secret = s.secret
        ended == [s EXCEPT !.nextExpected = 1,
                          !.match = IF convinced THEN same ELSE @,
                          !.prog = IF ~convinced THEN "ok"
                                   ELSE IF same THEN "succeeded" ELSE "failed"]
    IN  /\ Incoming(p, "smp3")
        /\ \/ /\ s.nextExpected = 3
              /\ smp' = [smp EXCEPT ![p] = ended]
              /\ trust' = [trust EXCEPT ![p] =
                    IF s.question THEN @ ELSE ended.prog = "succeeded"]
              /\ IF convinced THEN TakeAndSend(p, SMP4(s.gens)) ELSE Take(p)
              /\ TellVerdict(p, ended)
           \/ /\ s.nextExpected # 3
              /\ Take(p)
              /\ TellVerdict(p, s)
              /\ UNCHANGED <<smp, trust>>
        /\ UNCHANGED <<asked, exponents, typed, smooth, crossed>>

\* Mutant: the verdict does not end the comparison.
HandleSMP4Open(p) ==
    LET m == Head(line[p])
        s == smp[p]
        ended == [s EXCEPT !.prog = IF m.gens # s.gens THEN "ok"
                                   ELSE IF s.match THEN "succeeded" ELSE "failed"]
    IN  /\ Incoming(p, "smp4")
        /\ Take(p)
        /\ \/ /\ s.nextExpected = 4
              /\ smp' = [smp EXCEPT ![p] = ended]
              /\ trust' = [trust EXCEPT ![p] = ended.prog = "succeeded"]
              /\ TellVerdict(p, ended)
           \/ /\ s.nextExpected # 4
              /\ TellVerdict(p, s)
              /\ UNCHANGED <<smp, trust>>
        /\ UNCHANGED <<asked, exponents, typed, smooth, crossed>>

\* otrl_sm_step5
HandleSMP4(p) ==
    LET m == Head(line[p])
        s == smp[p]
        ended == [s EXCEPT !.nextExpected = 1,
                          !.prog = IF m.gens # s.gens THEN "ok"
                                   ELSE IF s.match THEN "succeeded" ELSE "failed"]
    IN  /\ Incoming(p, "smp4")
        /\ Take(p)
        /\ \/ /\ s.nextExpected = 4
              /\ smp' = [smp EXCEPT ![p] = ended]
              /\ trust' = [trust EXCEPT ![p] = ended.prog = "succeeded"]
              /\ TellVerdict(p, ended)
           \/ /\ s.nextExpected # 4
              /\ TellVerdict(p, s)
              /\ UNCHANGED <<smp, trust>>
        /\ UNCHANGED <<asked, exponents, typed, smooth, crossed>>

\* The contact has stopped: the user is not told, and a question he has been
\* asked stays open.
HandleAbort(p) ==
    /\ Incoming(p, "abort")
    /\ Take(p)
    /\ smp' = [smp EXCEPT ![p] = StateNew]
    /\ TellVerdict(p, smp[p])
    /\ UNCHANGED <<asked, trust, exponents, typed, smooth, crossed>>

SmpNext ==
    \E p \in Users :
        \/ AskQuestion(p) \/ AnswerQuestion(p) \/ AnswerTooLate(p)
        \/ HandleSMP1(p) \/ HandleSMP2(p) \/ HandleSMP3(p) \/ HandleSMP4(p)
        \/ HandleAbort(p)
        \/ RestartUser(p) \/ LoseSMP(p)

SmpSpec == SmpInit /\ [][SmpNext]_smpVars

-----------------------------------------------------------------------------
(* Properties.                                                             *)

\* Texts that are the same bytes for who asks and for who answers: ASCII.
Ascii == {t \in Secrets : ToAscii[t] = ToUtf8[t]}

\* The verdict on a comparison is the same on both sides, whatever else was
\* started, stopped, repeated or lost in between: it is whether the bytes of
\* what one user typed to ask are those of what the other typed to answer.
\* So it is whether they typed the same as long as both keep to ASCII, and
\* only then: the two conversions (OTR.cpp:361 and 379) part on other texts.
VerdictIsTrue ==
    \A p \in Users : \A i \in DOMAIN told[p] :
        LET run == told[p][i].run
            verdict == told[p][i].verdict
        IN  run # {} => \E x, y \in run :
               LET mine == typed[p][x]
                   others == typed[Contact(p)][y]
               IN  /\ {mine.to, others.to} = {"ask", "answer"}
                   /\ verdict = (Code(mine) = Code(others))
                   /\ {mine.text, others.text} \subseteq Ascii
                         => verdict = (mine.text = others.text)

\* Comparisons each started while none goes on end, once the questions are
\* answered and the messages have arrived, with one verdict each for both
\* users: none is left waiting, none is told an old verdict again.
SmpConcludes ==
    (smooth /\ ~crossed /\ Silent /\ \A p \in Users : ~asked[p])
        => \A p \in Users : /\ smp[p].nextExpected = 1
                            /\ 2 * Len(told[p]) = exponents
=============================================================================
