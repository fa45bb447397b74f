--------------------------- MODULE NetworkStatus ---------------------------
(***************************************************************************)
(* The reachability monitor of the headless service (NetworkStatus.cpp).   *)
(* The platform delivers an event with the present availability; a gain is *)
(* reported at once, a loss only when a 20 s single-shot timer fires, so   *)
(* that a short outage is not reported at all.                             *)
(***************************************************************************)
EXTENDS Naturals

CONSTANT MaxLossTimers     \* bound on the loss timers pending at once

VARIABLES
    available,     \* availability carried by the last platform event
    nsConnected,   \* m_Connected: what was last reported
    nsCache,       \* m_ConnectedCache
    lossTimers     \* pending singleShot(20 s, registerConnectionLoss)

nsVars == <<available, nsConnected, nsCache, lossTimers>>

NSTypeOK ==
    /\ available \in BOOLEAN
    /\ nsConnected \in BOOLEAN
    /\ nsCache \in BOOLEAN
    /\ lossTimers \in Nat /\ lossTimers <= MaxLossTimers

\* The constructor; no event has been delivered yet.
NSInit ==
    /\ available = FALSE
    /\ nsConnected = FALSE
    /\ nsCache = FALSE
    /\ lossTimers = 0

\* Whether the two handlers below emit connectedChanged.
EmitsGain(b) == b /\ ~nsConnected
EmitsLoss == ~nsCache

\* Mutant: the cache only follows gains.
SetConnectedKeepsCache(b) ==
    /\ available' = b
    /\ nsCache' = (nsCache \/ b)
    /\ nsConnected' = (nsConnected \/ b)
    /\ \/ (b \/ ~nsConnected) /\ UNCHANGED lossTimers
       \/ /\ ~b /\ nsConnected
          /\ lossTimers < MaxLossTimers
          /\ lossTimers' = lossTimers + 1

\* event() reads the availability and calls setConnected(b).
SetConnected(b) ==
    /\ available' = b
    /\ \/ /\ b = nsConnected
          /\ UNCHANGED <<nsConnected, nsCache, lossTimers>>
       \/ /\ b /\ ~nsConnected
          /\ nsConnected' = TRUE
          /\ nsCache' = TRUE
          /\ UNCHANGED lossTimers
       \/ /\ ~b /\ nsConnected
          /\ lossTimers < MaxLossTimers
          /\ nsCache' = FALSE
          /\ lossTimers' = lossTimers + 1
          /\ UNCHANGED nsConnected

\* Mutant: the loss is reported but m_Connected keeps its value.
RegisterConnectionLossUnrecorded ==
    /\ lossTimers > 0
    /\ lossTimers' = lossTimers - 1
    /\ UNCHANGED <<available, nsConnected, nsCache>>

\* The 20 s timer: reports the loss unless the cache says connected.
RegisterConnectionLoss ==
    /\ lossTimers > 0
    /\ lossTimers' = lossTimers - 1
    /\ nsConnected' = (nsConnected /\ nsCache)
    /\ UNCHANGED <<available, nsCache>>

NSNext == (\E b \in BOOLEAN : SetConnected(b)) \/ RegisterConnectionLoss

NSSpec == NSInit /\ [][NSNext]_nsVars

-----------------------------------------------------------------------------
\* A loss is never forgotten: while the platform says "unavailable" and the
\* loss is still unreported, a timer is pending and the cache lets it report
\* (setConnected / registerConnectionLoss, over any mix of repeated events).
LossArmed == ~available /\ nsConnected => lossTimers > 0 /\ ~nsCache

=============================================================================
