---------------------------- MODULE Supervision ----------------------------
(***************************************************************************)
(* The service and its network monitor together: HeadlessApplication owns  *)
(* a NetworkStatus and, 3 s after its own start, connects the signal       *)
(* connectedChanged to waitForInternet / internetIsBack of the XMPP object.*)
(* The platform's events reach the monitor in the same event loop, and the *)
(* monitor lives and dies with the process.                                *)
(***************************************************************************)
EXTENDS XMPPConnection

CONSTANT MaxLossTimers     \* see NetworkStatus

ASSUME MaxLossTimersAssumption == MaxLossTimers \in Nat \ {0}

VARIABLES
    available, nsConnected, nsCache, lossTimers,   \* the monitor
    attached      \* delayedXMPPInit has run: the signal is connected

NS == INSTANCE NetworkStatus

monitorVars == <<available, nsConnected, nsCache, lossTimers>>
allVars == <<vars, monitorVars, attached>>

SupTypeOK == TypeOK /\ NS!NSTypeOK /\ attached \in BOOLEAN

SupInit == Init /\ NS!NSInit /\ attached = FALSE

\* A step of the process itself; if it is the last one, the monitor is gone.
Inside(A) ==
    /\ A
    /\ \/ alive' /\ UNCHANGED <<monitorVars, attached>>
       \/ /\ ~alive'
          /\ available' = FALSE /\ nsConnected' = FALSE
          /\ nsCache' = FALSE /\ lossTimers' = 0
          /\ attached' = FALSE

\* delayedXMPPInit, HeadlessApplication's 3 s timer.
Attach ==
    /\ alive /\ ~attached
    /\ attached' = TRUE
    /\ UNCHANGED <<vars, monitorVars>>

\* A platform event, and internetIsBack if the monitor reports a gain.
PlatformEvent(b) ==
    /\ alive
    /\ NS!SetConnected(b)
    /\ IF attached /\ NS!EmitsGain(b) THEN GainResume ELSE UNCHANGED vars
    /\ UNCHANGED attached

\* The loss timer, and waitForInternet if the monitor reports a loss.
LossTimer ==
    /\ alive
    /\ NS!RegisterConnectionLoss
    /\ IF attached /\ NS!EmitsLoss THEN LosePause ELSE UNCHANGED vars
    /\ UNCHANGED attached

SupNext ==
    \/ Inside(Internal)
    \/ Attach
    \/ \E b \in BOOLEAN : PlatformEvent(b)
    \/ LossTimer

SupSpec == SupInit /\ [][SupNext]_allVars

\* Qt fires the loss timer.
MonitorFairSpec == SupSpec /\ WF_allVars(LossTimer)

\* Qt fires all timers, and every lookup and HTTP reply finishes.
SupFairSpec ==
    /\ MonitorFairSpec
    /\ WF_allVars(Inside(Ask)) /\ WF_allVars(Inside(Again))
    /\ WF_allVars(Inside(Resolve)) /\ WF_allVars(Inside(Reply))

-----------------------------------------------------------------------------
\* The two never disagree the dangerous way: the service is only paused while
\* the monitor has reported "not connected", so that the report which ends
\* the pause (connectedChanged(true)) is still to come.  A pause that began
\* with the monitor already at "connected" would last until the next outage.
PauseEnds == alive /\ paused => attached /\ ~nsConnected

\* A loss the monitor has not reported yet is not forgotten (NetworkStatus),
\* whatever the service does meanwhile, its end and restart included.
LossNotForgotten == NS!LossArmed

\* A lasting loss of the network always ends in a paused service, whatever
\* events and timers pile up in between.
LossPauses ==
    (alive /\ attached /\ ~available /\ nsConnected)
        ~> (paused \/ available \/ ~alive)

\* "auto start when headless start" and "auto restart after losing
\* connection": a service that has a token and, by its own monitor, a network
\* comes to try, or to have tried and failed again.
AutoRestart ==
    (alive /\ attached /\ google /\ token /\ nsConnected /\ sock = "unconnected")
        ~> (Trying \/ ~alive \/ ~token \/ ~nsConnected)

\* "if token asked wait reply before asking a new token".
OneRequest == renewals <= 1

\* "INTERNET access has been lost. Disconnect & wait it return.": no
\* connection is opened while the service waits.
QuietWhilePaused ==
    [][paused /\ paused' /\ sock = "unconnected" => sock' = "unconnected"]_allVars

\* "if there is no access, wait 1 min in case the access could come back":
\* no loss is reported when the access did come back.
LossIsReal ==
    [][alive' /\ nsConnected /\ ~nsConnected' => ~available]_allVars

=============================================================================
