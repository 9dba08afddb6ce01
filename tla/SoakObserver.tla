---------------------------- MODULE SoakObserver ----------------------------
(***************************************************************************)
(* The API observer a soak holds on ONE device                             *)
(* (web/services/soak_observer.py, driven by NightlySoak.run), among the   *)
(* other users of the device's port lock.                                  *)
(*                                                                         *)
(* The soak's coroutine opens the observer, reconnects it from its health  *)
(* ticks when the connection is lost, and closes it at the end.  Opening   *)
(* and closing block, so they run in a thread that nobody can cancel; the  *)
(* coroutine that waits for it can be.  The loss of a connection is        *)
(* reported by a callback in yet another thread.                           *)
(***************************************************************************)
EXTENDS PortRegistry

CONSTANTS
  Observer,      \* the lock owner that stands for the observer
  MaxAttempts,   \* RECONNECT_MAX_ATTEMPTS
  Aborts         \* the waits of the coroutine at which it may be cancelled

ASSUME ObserverAssumption ==
  /\ Observer \in Others /\ MaxAttempts \in Nat
  /\ Aborts \subseteq {"opening", "holding", "closing", "reopening"}

VARIABLES
  soak,      \* where the coroutine is
  job,       \* where its thread is, and what the thread came to
  iface,     \* held.iface
  owns,      \* held.port_lock is set
  held,      \* the device is in _held and _by_port
  lost,
  attempts,
  gaveUp,
  news       \* a lost connection whose callback has not run yet

deviceVars == <<iface, owns, held, lost, attempts, gaveUp, news>>
obsVars == <<soak, job, deviceVars>>

ObsInit ==
  /\ Init
  /\ soak = "off" /\ job = "none"
  /\ iface = "none" /\ owns = FALSE /\ held = FALSE
  /\ lost = FALSE /\ attempts = 0 /\ gaveUp = FALSE
  /\ news = FALSE

-----------------------------------------------------------------------------
(* _open_blocking and _close_blocking.                                     *)

Working == job \in {"sweep", "look", "lock", "construct", "close"}

JobSweeps ==
  /\ job = "sweep" /\ job' = "look"
  /\ OtherSweeps
  /\ UNCHANGED <<soak, deviceVars>>

JobLooks ==
  /\ job = "look"
  /\ job' = IF ActiveSession THEN "failed" ELSE "lock"
  /\ UNCHANGED <<vars, soak, deviceVars>>

JobLocks ==
  /\ job = "lock" /\ job' = "construct"
  /\ OtherLocks(Observer)
  /\ UNCHANGED <<soak, deviceVars>>

\* Busy in each of its attempts.
JobRefused ==
  /\ job = "lock" /\ lock # None
  /\ job' = "failed"
  /\ UNCHANGED <<vars, soak, deviceVars>>

JobConnects ==
  /\ job = "construct" /\ job' = "ok"
  /\ iface' = "live" /\ owns' = TRUE
  /\ UNCHANGED <<vars, soak, held, lost, attempts, gaveUp, news>>

\* Fault: the lock is kept when the interface does not come up.
ConstructFailsLocked ==
  /\ job = "construct" /\ job' = "failed"
  /\ UNCHANGED <<vars, soak, deviceVars>>

ConstructFails ==
  /\ job = "construct" /\ job' = "failed"
  /\ OtherUnlocks(Observer)
  /\ UNCHANGED <<soak, deviceVars>>

\* Fault: held.port_lock is not reset, and the next close releases a lock that is
\* not the observer's any more (a threading.Lock has no owner).
ClosedForgetful ==
  /\ iface' = "none" /\ UNCHANGED owns
  /\ IF owns THEN lock' = None ELSE UNCHANGED lock
  /\ UNCHANGED <<sessionVars, tty, pc>>

\* The interface is closed (within a bound) and the lock given back, if they are
\* there.
Closed ==
  /\ iface' = "none" /\ owns' = FALSE
  /\ IF owns THEN OtherUnlocks(Observer) ELSE UNCHANGED vars

JobCloses ==
  /\ job = "close" /\ job' = "ok"
  /\ Closed
  /\ UNCHANGED <<soak, held, lost, attempts, gaveUp, news>>

-----------------------------------------------------------------------------
(* The coroutine: open_device, health_tick, close_all.                     *)

\* A new observer for a new soak.  It is used when nothing is left of the last.
SoakOpens ==
  /\ soak = "off" /\ ~Working /\ iface = "none" /\ ~owns
  /\ soak' = "opening" /\ job' = "sweep"
  /\ held' = FALSE /\ lost' = FALSE /\ attempts' = 0 /\ gaveUp' = FALSE /\ news' = FALSE
  /\ UNCHANGED <<vars, iface, owns>>

Opened ==
  /\ soak = "opening"
  /\ \/ job = "ok" /\ soak' = "holding" /\ held' = TRUE
     \/ job = "failed" /\ soak' = "off" /\ UNCHANGED held
  /\ job' = "none"
  /\ UNCHANGED <<vars, iface, owns, lost, attempts, gaveUp, news>>

\* Fault: the attempts are not counted.
TickUncounted ==
  /\ soak = "holding" /\ lost /\ ~gaveUp
  /\ \/ attempts >= MaxAttempts /\ gaveUp' = TRUE /\ UNCHANGED <<soak, job, attempts>>
     \/ /\ attempts < MaxAttempts
        /\ attempts' = attempts
        /\ soak' = "closing" /\ job' = "close"
        /\ UNCHANGED gaveUp
  /\ UNCHANGED <<vars, iface, owns, held, lost, news>>

Tick ==
  /\ soak = "holding" /\ lost /\ ~gaveUp
  /\ \/ attempts >= MaxAttempts /\ gaveUp' = TRUE /\ UNCHANGED <<soak, job, attempts>>
     \/ /\ attempts < MaxAttempts
        /\ attempts' = attempts + 1
        /\ soak' = "closing" /\ job' = "close"
        /\ UNCHANGED gaveUp
  /\ UNCHANGED <<vars, iface, owns, held, lost, news>>

Reopens ==
  /\ soak = "closing" /\ job = "ok"
  /\ soak' = "reopening" /\ job' = "sweep"
  /\ UNCHANGED <<vars, deviceVars>>

Reopened ==
  /\ soak = "reopening" /\ job \in {"ok", "failed"}
  /\ soak' = "holding" /\ job' = "none"
  /\ \/ job = "ok" /\ lost' = FALSE /\ attempts' = 0
     \/ job = "failed" /\ UNCHANGED <<lost, attempts>>
  /\ UNCHANGED <<vars, iface, owns, held, gaveUp, news>>

\* The window is over or the soak was told to stop.
SoakEnds ==
  /\ soak = "holding" /\ soak' = "ending"
  /\ UNCHANGED <<vars, job, deviceVars>>

\* The pipeline's timeout cancels the coroutine where it waits: the soak goes to
\* its finally clause at once, and a thread it waited for goes on.
SoakAborted ==
  /\ soak \in Aborts /\ soak' = "ending"
  /\ UNCHANGED <<vars, job, deviceVars>>

\* close_all closes the devices in _held.
CloseAll ==
  /\ soak = "ending" /\ soak' = "off"
  /\ IF held THEN Closed ELSE UNCHANGED <<vars, iface, owns>>
  /\ held' = FALSE
  /\ UNCHANGED <<job, lost, attempts, gaveUp, news>>

-----------------------------------------------------------------------------
(* The device and its callback.                                            *)

ConnectionBreaks ==
  /\ iface = "live"
  /\ iface' = "dead" /\ news' = TRUE
  /\ UNCHANGED <<vars, soak, job, owns, held, lost, attempts, gaveUp>>

\* A device that is not in _by_port, or already lost, is passed over.
OnConnectionLost ==
  /\ news /\ news' = FALSE
  /\ lost' = (lost \/ held)
  /\ UNCHANGED <<vars, soak, job, iface, owns, held, attempts, gaveUp>>

-----------------------------------------------------------------------------
Job == JobSweeps \/ JobLooks \/ JobLocks \/ JobRefused \/ JobConnects
       \/ ConstructFails \/ JobCloses

Coroutine == Opened \/ Tick \/ Reopens \/ Reopened \/ CloseAll

ObsNext ==
  \/ CallNext /\ UNCHANGED obsVars
  \/ Job \/ Coroutine
  \/ SoakOpens \/ SoakEnds \/ SoakAborted
  \/ ConnectionBreaks \/ OnConnectionLost

ObsSpec == ObsInit /\ [][ObsNext]_<<vars, obsVars>>

(***************************************************************************)
(* Threads and the coroutine go on.  Nothing is assumed of the end of a     *)
(* soak: it may last longer than any loss.                                 *)
(***************************************************************************)
ObsFairSpec ==
  /\ ObsSpec /\ Fairness
  /\ WF_<<vars, obsVars>>(Job)
  /\ WF_<<vars, obsVars>>(Coroutine)

-----------------------------------------------------------------------------
(* Properties.                                                             *)

ObsTypeOK ==
  /\ TypeOK
  /\ soak \in {"off", "opening", "holding", "closing", "reopening", "ending"}
  /\ job \in {"none", "sweep", "look", "lock", "construct", "close", "ok", "failed"}
  /\ iface \in {"none", "live", "dead"}
  /\ {owns, held, lost, gaveUp, news} \subseteq BOOLEAN
  /\ attempts \in 0 .. MaxAttempts

\* The port lock is the observer's exactly while it has or makes a connection:
\* no failed or repeated reconnect leaves the interface without the lock, or the
\* lock without anybody to give it back (soak_observer.py:29-34 and 152-172).
LockFollowsInterface ==
  lock = Observer <=> iface # "none" \/ job = "construct"

\* A soak that is over, its threads included, holds neither the interface nor the
\* lock: close_all strands no device still holding its port
\* (soak_observer.py:174-184).
SoakLetsGo == soak = "off" /\ ~Working => iface = "none" /\ lock # Observer

\* The observer, its interface and the lock belong together, to the end of the soak.
ObserverInv == ObsTypeOK /\ LockFollowsInterface /\ SoakLetsGo

\* A lost connection is reconnected, given up after MaxAttempts, or the soak ends;
\* it does not stay lost, however the attempts fail.
LossIsSettled == lost ~> ~lost \/ gaveUp \/ soak = "off"

\* The observer is one of the registry's other holders and does nothing that
\* PortRegistry does not allow.
RegistrySpec == Spec

=============================================================================
