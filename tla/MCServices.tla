------------------------------- MODULE MCServices -------------------------------
(***************************************************************************)
(* The safety of the services that share no state with one another, in one *)
(* instance for TLC: a behaviour is one of a single service, and the       *)
(* others stay where they began.                                           *)
(***************************************************************************)
EXTENDS MessageHub, RecorderFiles, SerialSession, DisplayMirror, CotRelay, PytestTui, TLC

CONSTANT t1

VARIABLE which

TuiTests == <<t1>>

Symmetry == Permutations(Peers)

allVars ==
  <<which, hubVars, recVars, sessionVars, displayVars, cotVars, tuiVars>>

Init ==
  /\ which \in {"hub", "recorder", "session", "display", "relay", "terminal"}
  /\ HubInit /\ RecInit /\ SessionInit /\ DisplayInit /\ CotInit /\ TuiInit

Next ==
  \/ /\ which = "hub" /\ HubNext
     /\ UNCHANGED <<which, recVars, sessionVars, displayVars, cotVars, tuiVars>>
  \/ /\ which = "recorder" /\ RecNext
     /\ UNCHANGED <<which, hubVars, sessionVars, displayVars, cotVars, tuiVars>>
  \/ /\ which = "session" /\ SessionNext
     /\ UNCHANGED <<which, hubVars, recVars, displayVars, cotVars, tuiVars>>
  \/ /\ which = "display" /\ DisplayNext
     /\ UNCHANGED <<which, hubVars, recVars, sessionVars, cotVars, tuiVars>>
  \/ /\ which = "relay" /\ CotNext
     /\ UNCHANGED <<which, hubVars, recVars, sessionVars, displayVars, tuiVars>>
  \/ /\ which = "terminal" /\ TuiNext
     /\ UNCHANGED <<which, hubVars, recVars, sessionVars, displayVars, cotVars>>

Spec == Init /\ [][Next]_allVars

\* What is over stays so: no dead peer in the hub, no row after a stop, no capture
\* written over.
ServicesKeep == DeadAreRemoved /\ SilentAfterStop /\ NeverOverwritten

=============================================================================
