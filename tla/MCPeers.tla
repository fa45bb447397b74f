------------------------------ MODULE MCPeers -------------------------------
(***************************************************************************)
(* What the clients of two users say to each other past their servers, for *)
(* TLC: the key exchange, the keys of the conversation and the comparison  *)
(* of secrets of libotr, file transfers, calls, and the connectivity checks*)
(* and relays of calls.                                                    *)
(* They share no variable; a behaviour follows one of them and leaves the  *)
(* others at one initial state, so that the state spaces add up and are    *)
(* not multiplied.                                                         *)
(***************************************************************************)
EXTENDS OtrAke, OtrKeys, OtrSmp, Transfer, Call, Ice, Turn

\* "??", and a text of two characters Latin-1 has not: QString::toAscii makes
\* "??" of it.
MCToAscii == [t \in Secrets |-> "marks"]
MCToUtf8 == [t \in Secrets |-> t]

VARIABLE part

mcPeersVars == <<akeVars, keysVars, smpVars, transferVars, callVars, iceVars, turnVars, part>>

MCPeersInit ==
    /\ AkeInit /\ KeysInit /\ SmpInit /\ TransferInit /\ CallInit /\ IceInit /\ TurnInit
    /\ part \in {"exchange", "keys", "comparison", "transfer", "call", "checks", "relay"}
    /\ part # "transfer" => supports = [s \in Side |-> {"socks"}]
    /\ part # "checks" => reaches = [p \in Path |-> Agent]

MCPeersNext ==
    \/ /\ part = "exchange" /\ AkeNext
       /\ UNCHANGED <<keysVars, smpVars, transferVars, callVars, iceVars, turnVars, part>>
    \/ /\ part = "keys" /\ KeysNext
       /\ UNCHANGED <<akeVars, smpVars, transferVars, callVars, iceVars, turnVars, part>>
    \/ /\ part = "comparison" /\ SmpNext
       /\ UNCHANGED <<akeVars, keysVars, transferVars, callVars, iceVars, turnVars, part>>
    \/ /\ part = "transfer" /\ TransferNext
       /\ UNCHANGED <<akeVars, keysVars, smpVars, callVars, iceVars, turnVars, part>>
    \/ /\ part = "call" /\ CallNext
       /\ UNCHANGED <<akeVars, keysVars, smpVars, transferVars, iceVars, turnVars, part>>
    \/ /\ part = "checks" /\ IceNext
       /\ UNCHANGED <<akeVars, keysVars, smpVars, transferVars, callVars, turnVars, part>>
    \/ /\ part = "relay" /\ TurnNext
       /\ UNCHANGED <<akeVars, keysVars, smpVars, transferVars, callVars, iceVars, part>>

MCPeersSpec == MCPeersInit /\ [][MCPeersNext]_mcPeersVars

\* The parts are type correct, each in the behaviours that follow it.
MCPeersTypeOK ==
    /\ part = "exchange" => AkeTypeOK
    /\ part = "keys" => KeysTypeOK
    /\ part = "comparison" => SmpTypeOK
    /\ part = "transfer" => TransferTypeOK
    /\ part = "call" => CallTypeOK
    /\ part = "checks" => IceTypeOK
    /\ part = "relay" => TurnTypeOK
=============================================================================
