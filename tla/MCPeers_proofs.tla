--------------------------- MODULE MCPeers_proofs ---------------------------
(***************************************************************************)
(* What is proved of the parts holds of the whole of MCPeers: each of its  *)
(* behaviours is, for every part, a behaviour of that part, the one it     *)
(* follows or one that never leaves its initial state.                     *)
(***************************************************************************)
EXTENDS MCPeers, Otr_proofs, OtrKeys_proofs, Peers_proofs

LEMMA PartsBegin ==
  MCPeersInit => /\ AkeInit /\ KeysInit /\ SmpInit /\ TransferInit
                 /\ CallInit /\ IceInit /\ TurnInit
BY DEF MCPeersInit

LEMMA PartsStep ==
  [MCPeersNext]_mcPeersVars =>
      /\ [AkeNext]_akeVars /\ [KeysNext]_keysVars /\ [SmpNext]_smpVars
      /\ [TransferNext]_transferVars /\ [CallNext]_callVars
      /\ [IceNext]_iceVars /\ [TurnNext]_turnVars
<1>1. UNCHANGED mcPeersVars =>
          UNCHANGED <<akeVars, keysVars, smpVars, transferVars, callVars, iceVars, turnVars>>
  BY DEF mcPeersVars
<1> QED  BY <1>1 DEF MCPeersNext

\* Every behaviour of the composition is one of each of its parts: of the key
\* exchange and the comparison of secrets (auth.c, sm.c), of the keys of a
\* conversation (message.c), of a file transfer (QXmppTransferManager.cpp), of
\* a call (QXmppCallManager.cpp), and of its connectivity checks and its relay
\* (QXmppStun.cpp).
THEOREM WholeImplementsParts ==
  MCPeersSpec => /\ AkeSpec /\ KeysSpec /\ SmpSpec /\ TransferSpec
                 /\ CallSpec /\ IceSpec /\ TurnSpec
BY PartsBegin, PartsStep, PTL
   DEF MCPeersSpec, AkeSpec, KeysSpec, SmpSpec, TransferSpec, CallSpec, IceSpec, TurnSpec

\* ... so the state of every part keeps its type ...
THEOREM PeersTypeCorrect == MCPeersSpec => []MCPeersTypeOK
<1>1. AkeTypeOK /\ KeysTypeOK /\ SmpTypeOK /\ TransferTypeOK /\ CallTypeOK /\ IceTypeOK /\ TurnTypeOK
         => MCPeersTypeOK
  BY DEF MCPeersTypeOK
<1> QED
  BY <1>1, WholeImplementsParts, AkeTypeCorrect, KeysTypeCorrect, SmpTypeCorrect,
     TransferTypeCorrect, CallTypeCorrect, IceTypeCorrect, TurnTypeCorrect, PTL

\* ... and whatever is promised of a part holds in the whole.
THEOREM PeersKeepTheirPromises ==
  MCPeersSpec => [](/\ AkeAgreement /\ OneSessionPerKey /\ SettledTogether /\ ExchangeConcludes
                    /\ StaysReadable /\ AcceptedOnce /\ VerdictIsTrue /\ SmpConcludes
                    /\ OutcomesAgree /\ PartiesAgree /\ PathWorks /\ ChannelsBacked)
BY WholeImplementsParts, AgreementHolds, KeysUsedOnce, SettledAgree, ExchangeHolds, ReadableInOrder,
   NeverAcceptedTwice, VerdictsAreTrue, ComparisonsConclude, OutcomesAlwaysAgree, CallEndsTogether,
   PathsWork, ChannelsSafe, PTL
=============================================================================
