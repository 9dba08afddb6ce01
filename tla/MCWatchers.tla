------------------------------- MODULE MCWatchers -------------------------------
(***************************************************************************)
(* What must go on, end or settle in the services that keep watch: the     *)
(* soak's observer, the log forwarder and what it captures, the CoT relay  *)
(* and the terminal runner.  A behaviour is one of a single service; the   *)
(* others stay in a state in which nothing of theirs is due.               *)
(***************************************************************************)
EXTENDS SoakObserver, LogForwarder, FleetCapture, CotRelay, PytestTui

CONSTANT t1

VARIABLE which

TuiTests == <<t1>>

observerVars == <<vars, obsVars>>
allVars == <<which, observerVars, fwdVars, capVars, cotVars, tuiVars>>

WatchersInit ==
  /\ which \in {"observer", "forwarder", "capture", "relay", "terminal"}
  /\ ObsInit /\ FwdInit /\ CapFresh /\ CotInit /\ TuiFresh
  /\ which # "forwarder" => ~key
  /\ which # "capture" => ~capturing
  /\ rec = [r \in Reconcilers |->
              IF which = "capture" THEN Idle ELSE [Idle EXCEPT !.at = "over"]]
  /\ ui = IF which = "terminal" THEN "idle" ELSE "exited"
  /\ child = IF which = "terminal" THEN "runs" ELSE "exited"

WatchersNext ==
  \/ which = "observer" /\ ObsNext /\ UNCHANGED <<which, fwdVars, capVars, cotVars, tuiVars>>
  \/ which = "forwarder" /\ FwdNext /\ UNCHANGED <<which, observerVars, capVars, cotVars, tuiVars>>
  \/ which = "capture" /\ CapNext /\ UNCHANGED <<which, observerVars, fwdVars, cotVars, tuiVars>>
  \/ which = "relay" /\ CotNext /\ UNCHANGED <<which, observerVars, fwdVars, capVars, tuiVars>>
  \/ which = "terminal" /\ TuiNext /\ UNCHANGED <<which, observerVars, fwdVars, capVars, cotVars>>

WatchersSpec ==
  /\ WatchersInit /\ [][WatchersNext]_allVars
  /\ Fairness /\ WF_<<vars, obsVars>>(Job) /\ WF_<<vars, obsVars>>(Coroutine)
  /\ FwdFairness /\ CapFairness /\ CotFairness /\ TuiFairness

\* What is captured of the fleet is shipped once and in order, with its losses
\* counted, and captured by one reference.
DatadogInv ==
  FwdTypeOK /\ CapTypeOK
    /\ ShippedOnce /\ NothingLostOnTheWay /\ DroppedIsEvicted /\ OneHoldEach

\* A port comes back, a lost connection is settled, the queue drains, a capture
\* follows the fleet, a stop returns, a quit ends the app.
WatchersSettle ==
  /\ LockIsReturned /\ LossIsSettled
  /\ QueueDrains /\ CaptureSettles
  /\ StopReturns /\ DevicesRefreshed /\ QuitEnds

=============================================================================
