------------------------------ MODULE FleetCapture ------------------------------
(***************************************************************************)
(* The holds that the Datadog forwarder keeps on the serial monitors of    *)
(* all online devices (web/services/datadog.py:511-546), reconciled by the *)
(* discovery scan, by each reload of the settings and by stop(), one at a  *)
(* time under _capture_lock, against monitors whose acquire and release    *)
(* take time, may raise, and whose callers may be cancelled.               *)
(***************************************************************************)
EXTENDS Integers, FiniteSets

CONSTANTS
  NoSerial,
  Serials,     \* devices on the bus
  MaxBroken    \* acquires and releases that raise or are cancelled

ASSUME CaptureAssumption == NoSerial \notin Serials /\ MaxBroken \in Nat

Reconcilers == {"scan", "reload", "stop"}

VARIABLES
  capturing,   \* active(): the API key is set
  testing,     \* test_runner.is_running()
  online,      \* devices on the bus
  captured,    \* _captured
  refs,        \* references the forwarder has on each monitor
  rec,         \* per caller: what it is at, the set it wants, its monitor
  broken       \* acquires and releases that did not end well

capVars == <<capturing, testing, online, captured, refs, rec, broken>>

Idle == [at |-> "idle", want |-> {}, on |-> NoSerial]

CapFresh ==
  /\ capturing \in BOOLEAN /\ testing = FALSE
  /\ online = Serials
  /\ captured = {}
  /\ refs = [s \in Serials |-> 0]
  /\ broken = 0

CapInit == CapFresh /\ rec = [r \in Reconcilers |-> Idle]

AtMonitor == {"acquires", "acquired", "releases", "released"}
Applying == {"reads", "applies"} \cup AtMonitor   \* under the lock

CaptureLockFree == \A r \in Reconcilers : rec[r].at \notin Applying

-----------------------------------------------------------------------------
(* The world: devices, test runs, the settings.                            *)

DeviceChanges(s) ==
  /\ online' = IF s \in online THEN online \ {s} ELSE online \cup {s}
  /\ UNCHANGED <<capturing, testing, captured, refs, rec, broken>>

TestRunToggles ==
  /\ testing' = ~testing
  /\ UNCHANGED <<capturing, online, captured, refs, rec, broken>>

-----------------------------------------------------------------------------
(* The callers.                                                            *)

worldVars == <<testing, online>>

Asks(r, want) ==
  /\ rec[r].at = "idle"
  /\ rec' = [rec EXCEPT ![r] = [Idle EXCEPT !.at = "waits", !.want = want]]
  /\ UNCHANGED <<worldVars, captured, refs, broken>>

\* A scan passes what it saw; the loop is cancelled before the forwarder stops.
ScanAsks == ~testing /\ rec["stop"].at = "idle" /\ Asks("scan", online) /\ UNCHANGED capturing

\* The settings are saved first; the set is formed under the lock.
ReloadAsks == rec["stop"].at = "idle" /\ Asks("reload", {}) /\ capturing' = TRUE

StopAsks == Asks("stop", {}) /\ UNCHANGED capturing

\* What _apply_capture works towards: a test run that has begun meanwhile wins.
Gated(want) == IF ~capturing \/ testing THEN {} ELSE want

Applies(r, want) ==
  rec' = [rec EXCEPT ![r] = [rec[r] EXCEPT !.at = "applies", !.want = Gated(want)]]

Enters(r) ==
  /\ rec[r].at = "waits" /\ CaptureLockFree
  /\ IF r = "reload"
     THEN rec' = [rec EXCEPT ![r] = [rec[r] EXCEPT !.at = "reads", !.want = online]]
     ELSE Applies(r, rec[r].want)
  /\ UNCHANGED <<capturing, worldVars, captured, refs, broken>>

\* The registry's answer arrives after the read.
ReloadReads ==
  /\ rec["reload"].at = "reads"
  /\ Applies("reload", rec["reload"].want)
  /\ UNCHANGED <<capturing, worldVars, captured, refs, broken>>

-----------------------------------------------------------------------------
(* _apply_capture: what is missing is acquired, then the rest is released. *)

othersOfApply == <<capturing, worldVars>>

Goes(r, at, s) == rec' = [rec EXCEPT ![r] = [rec[r] EXCEPT !.at = at, !.on = s]]

AcquireBegins(r, s) ==
  /\ rec[r].at = "applies" /\ s \in rec[r].want \ captured
  /\ Goes(r, "acquires", s)
  /\ UNCHANGED <<othersOfApply, captured, refs, broken>>

\* The reference counts before the port is opened.
AcquireCounts(r) ==
  /\ rec[r].at = "acquires"
  /\ refs' = [refs EXCEPT ![rec[r].on] = @ + 1]
  /\ Goes(r, "acquired", rec[r].on)
  /\ UNCHANGED <<othersOfApply, captured, broken>>

AcquireEnds(r) ==
  /\ rec[r].at = "acquired"
  /\ captured' = captured \cup {rec[r].on}
  /\ Goes(r, "applies", NoSerial)
  /\ UNCHANGED <<othersOfApply, refs, broken>>

ReleaseBegins(r, s) ==
  /\ rec[r].at = "applies" /\ rec[r].want \subseteq captured
  /\ s \in captured \ rec[r].want
  /\ Goes(r, "releases", s)
  /\ UNCHANGED <<othersOfApply, captured, refs, broken>>

\* The reference is given up before the reader is joined.  A release repeated
\* after one that broke off finds none of the forwarder's: it would take that of
\* another holder, which is not modelled.
ReleaseCounts(r) ==
  /\ rec[r].at = "releases"
  /\ refs' = [refs EXCEPT ![rec[r].on] = IF @ = 0 THEN 0 ELSE @ - 1]
  /\ Goes(r, "released", rec[r].on)
  /\ UNCHANGED <<othersOfApply, captured, broken>>

ReleaseEnds(r) ==
  /\ rec[r].at = "released"
  /\ captured' = captured \ {rec[r].on}
  /\ Goes(r, "applies", NoSerial)
  /\ UNCHANGED <<othersOfApply, refs, broken>>

Leaves(r) == rec' = [rec EXCEPT ![r] = [Idle EXCEPT !.at = IF r = "stop" THEN "over" ELSE "idle"]]

ApplyEnds(r) ==
  /\ rec[r].at = "applies" /\ rec[r].want = captured
  /\ Leaves(r)
  /\ UNCHANGED <<othersOfApply, captured, refs, broken>>

\* The monitor raises, or the caller is cancelled: the lock is freed, the set is
\* left as it is, and a reference taken or given up stays so.
ApplyBreaks(r) ==
  /\ broken < MaxBroken
  /\ rec[r].at \in AtMonitor
  /\ Leaves(r)
  /\ broken' = broken + 1
  /\ UNCHANGED <<othersOfApply, captured, refs>>

Apply(r) ==
  \/ \E s \in Serials : AcquireBegins(r, s) \/ ReleaseBegins(r, s)
  \/ AcquireCounts(r) \/ AcquireEnds(r) \/ ReleaseCounts(r) \/ ReleaseEnds(r)
  \/ ApplyEnds(r) \/ (r = "reload" /\ ReloadReads)

CapNext ==
  \/ TestRunToggles \/ \E s \in Serials : DeviceChanges(s)
  \/ ScanAsks \/ ReloadAsks \/ StopAsks
  \/ \E r \in Reconcilers : Enters(r) \/ Apply(r) \/ ApplyBreaks(r)

\* The scan comes round; a waiting lock is had, and acquire and release end.
CapFairness ==
  /\ WF_capVars(ScanAsks)
  /\ \A r \in Reconcilers : SF_capVars(Enters(r)) /\ WF_capVars(Apply(r))

CapSpec == CapInit /\ [][CapNext]_capVars /\ CapFairness

-----------------------------------------------------------------------------
(* Properties.                                                             *)

CapTypeOK ==
  /\ capturing \in BOOLEAN /\ testing \in BOOLEAN
  /\ online \subseteq Serials /\ captured \subseteq Serials
  /\ refs \in [Serials -> Nat]
  /\ rec \in [Reconcilers ->
       [at : {"idle", "waits", "over"} \cup Applying, want : SUBSET Serials,
        on : Serials \cup {NoSerial}]]
  /\ \A r \in Reconcilers : rec[r].on # NoSerial <=> rec[r].at \in AtMonitor
  /\ broken \in 0..MaxBroken

\* However scans, reloads and the stop overlap, the forwarder has one reference
\* on the monitor of each device in its set and none on another, except while it
\* is at that monitor, and unless an acquire or a release broke off: a second
\* reference would never be given up, and the reader would hold the port for good.
OneHoldEach ==
  broken = 0 =>
    \A s \in Serials :
      \/ refs[s] = IF s \in captured THEN 1 ELSE 0
      \/ \E r \in Reconcilers : rec[r].on = s /\ refs[s] <= 1

\* A device that a broken acquire left out is captured by a later scan: with the
\* devices and the settings at rest and no test run, the set becomes what is
\* online.
CaptureSettles ==
  (\E S \in SUBSET Serials :
      <>[](capturing /\ ~testing /\ rec["stop"].at = "idle" /\ online = S))
    => <>[](captured = online)

=============================================================================
