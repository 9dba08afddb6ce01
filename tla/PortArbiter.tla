----------------------------- MODULE PortArbiter -----------------------------
(***************************************************************************)
(* Who may use the serial port of ONE device, and when.                    *)
(*                                                                         *)
(* PortLocks (web/services/portlock.py) gives each device a FIFO asyncio   *)
(* lock and at most one long-lived claim; SerialMonitor gives it a reader  *)
(* thread.  The users of both are modelled as processes:                   *)
(*                                                                         *)
(*   Ops      users of guard(): enrichment, keep-alive, control actions,   *)
(*            power actions and recovery                                   *)
(*   Owners   the soak: claim, wait_clear, suspend, hold an API observer   *)
(*   Clients  subscribers of the monitor: WebSocket peers and the log      *)
(*            forwarder                                                    *)
(*   Runs     requests to the TestRunner: start, each driving one pytest,  *)
(*            and reset                                                    *)
(*   Sweeps   hub-wide identify: suspend_all, cut power, resume_all        *)
(*                                                                         *)
(* Everything here is per device in the code (locks, claim and monitor are *)
(* dictionaries keyed by serial), except the run flag, so one device shows *)
(* every interleaving of these users on a port.  A step is what the event  *)
(* loop runs between two awaits.                                           *)
(***************************************************************************)
EXTENDS SerialMonitor, FiniteSets

CONSTANTS
  Ops, Owners, Clients, Runs, Sweeps,
  Rechecking   \* the Ops that test is_running() again inside the guard

Procs == Ops \cup Owners \cup Clients \cup Runs \cup Sweeps

ASSUME ProcsAssumption ==
  /\ None \notin Procs
  /\ Ops \cap Owners = {} /\ Ops \cap Clients = {} /\ Ops \cap Runs = {}
  /\ Ops \cap Sweeps = {} /\ Owners \cap Clients = {} /\ Owners \cap Runs = {}
  /\ Owners \cap Sweeps = {} /\ Clients \cap Runs = {} /\ Clients \cap Sweeps = {}
  /\ Runs \cap Sweeps = {}
  /\ Rechecking \subseteq Ops
  /\ IsFiniteSet(Clients)

VARIABLES
  holder,     \* the Op that holds the device's guard lock
  ahead       \* for each waiter of the guard lock, the waiters before it

vars == <<monVars, claim, running, pc, holder, ahead>>

OpPC     == {"idle", "queued", "suspend", "wedged", "body", "resume"}
OwnerPC  == {"idle", "queued", "suspend", "leaving", "opening", "held", "resume"}
ClientPC == {"idle", "acquire", "subscribed", "release"}

\* A run is exposed when pytest drives the bench and the monitor may have the port:
\* its suspension did not come this far, or somebody took the run flag down since.
RunPC    == {"idle", "starting", "suspend", "driving", "exposed", "finishing", "resume"}
SweepPC  == {"idle", "gated", "suspend", "cutting", "resume"}

PCOf(p) == IF p \in Ops THEN OpPC
           ELSE IF p \in Owners THEN OwnerPC
           ELSE IF p \in Clients THEN ClientPC
           ELSE IF p \in Runs THEN RunPC ELSE SweepPC

Init ==
  /\ mon = NoMonitor
  /\ monHolder = None /\ monStage = "free"
  /\ alive = {} /\ stopped = {}
  /\ claim = None /\ running = FALSE
  /\ pc = [p \in Procs |-> "idle"]
  /\ holder = None
  /\ ahead = [p \in Ops \cup Owners |-> {}]

Goto(p, l) == pc' = [pc EXCEPT ![p] = l]

-----------------------------------------------------------------------------
(* The guard lock: an asyncio.Lock, which serves its waiters in order of   *)
(* arrival and lets nobody in past a waiter.                               *)

Waiters == {p \in Ops \cup Owners : pc[p] = "queued"}

LockIsFree == holder = None /\ Waiters = {}

\* Fault: arrivals are not ordered.
EnqueueUnordered(p) ==
  /\ ahead' = ahead
  /\ Goto(p, "queued")

Enqueue(p) ==
  /\ ahead' = [ahead EXCEPT ![p] = Waiters]
  /\ Goto(p, "queued")

IsNext(p) == pc[p] = "queued" /\ holder = None /\ ahead[p] = {}

\* Fault: the others go on waiting for one that left.
LeaveLeavingTrace(p) == ahead' = [ahead EXCEPT ![p] = {}]

Leave(p) == ahead' = [q \in Ops \cup Owners |-> ahead[q] \ {p}]

-----------------------------------------------------------------------------
(* guard(serial)                                                           *)

\* The gate its caller passed: every user but the rechecking ones tests the
\* run flag in the step that enters the guard.
Gated(p) == p \in Rechecking \/ ~running

\* Fault: the claim is not tested before the lock is joined.
GuardEnterUnclaimed(p) ==
  /\ p \in Ops /\ pc[p] = "idle"
  /\ Gated(p)
  /\ \/ LockIsFree /\ holder' = p /\ Goto(p, "suspend") /\ UNCHANGED ahead
     \/ ~LockIsFree /\ Enqueue(p) /\ UNCHANGED holder
  /\ UNCHANGED <<monVars, claim, running>>

\* A claimed device is refused before the lock (PortClaimedError); otherwise
\* the lock is taken or waited for.
GuardEnter(p) ==
  /\ p \in Ops /\ pc[p] = "idle"
  /\ Gated(p)
  /\ claim = None
  /\ \/ LockIsFree /\ holder' = p /\ Goto(p, "suspend") /\ UNCHANGED ahead
     \/ ~LockIsFree /\ Enqueue(p) /\ UNCHANGED holder
  /\ UNCHANGED <<monVars, claim, running>>

GuardGranted(p) ==
  /\ p \in Ops /\ IsNext(p)
  /\ holder' = p
  /\ Leave(p)
  /\ Goto(p, "suspend")
  /\ UNCHANGED <<monVars, claim, running>>

\* The body of a rechecking user returns at once when a run is on.
BodyOrResume(p) == IF p \in Rechecking /\ running THEN "resume" ELSE "body"

\* The poll for an abandoned reader ends: it died, or the wait ran out and
\* PortWedgedError leaves through the finally.
WedgeCleared(p) ==
  /\ p \in Ops /\ pc[p] = "wedged"
  /\ ~IsWedged
  /\ Goto(p, BodyOrResume(p))
  /\ UNCHANGED <<monVars, claim, running, holder, ahead>>

WedgeTimesOut(p) ==
  /\ p \in Ops /\ pc[p] = "wedged"
  /\ IsWedged
  /\ Goto(p, "resume")
  /\ UNCHANGED <<monVars, claim, running, holder, ahead>>

BodyEnds(p) ==
  /\ p \in Ops /\ pc[p] = "body"
  /\ Goto(p, "resume")
  /\ UNCHANGED <<monVars, claim, running, holder, ahead>>

-----------------------------------------------------------------------------
(* The soak's ownership of the device (NightlySoak.run).                   *)

\* claim() and the start of wait_clear() in one step: a free lock is taken and
\* released on the spot.  The run flag is not tested here: soak_now tests it
\* some awaits earlier, the pipeline's own soak not at all.
ClaimDevice(p) ==
  /\ p \in Owners /\ pc[p] = "idle"
  /\ claim \in {None, p}
  /\ claim' = p
  /\ \/ LockIsFree /\ Goto(p, "suspend") /\ UNCHANGED ahead
     \/ ~LockIsFree /\ Enqueue(p)
  /\ UNCHANGED <<monVars, running, holder>>

PortIsClear(p) ==
  /\ p \in Owners /\ IsNext(p)
  /\ Leave(p)
  /\ Goto(p, "suspend")
  /\ UNCHANGED <<monVars, claim, running, holder>>

\* wait_clear() gave up: the claim is released and the board skipped.
WaitClearTimesOut(p) ==
  /\ p \in Owners /\ pc[p] = "queued"
  /\ Leave(p)
  /\ claim' = None
  /\ Goto(p, "idle")
  /\ UNCHANGED <<monVars, running, holder>>

ObserverOpens(p) ==
  /\ p \in Owners /\ pc[p] = "opening"
  /\ Goto(p, "held")
  /\ UNCHANGED <<monVars, claim, running, holder, ahead>>

ObserverFails(p) ==
  /\ p \in Owners /\ pc[p] = "opening"
  /\ claim' = None
  /\ Goto(p, "resume")
  /\ UNCHANGED <<monVars, running, holder, ahead>>

\* The soak is cancelled while it waits to suspend the monitor, or inside suspend():
\* the board is not yet on its list of those to resume.
SoakCancelled(p) ==
  /\ p \in Owners /\ pc[p] = "suspend"
  /\ Goto(p, "leaving")
  /\ \/ monHolder = p /\ Return /\ mon' = [mon EXCEPT !.left = TRUE]
     \/ monHolder # p /\ UNCHANGED <<mon, monHolder, monStage>>
  /\ UNCHANGED <<alive, stopped, claim, running, holder, ahead>>

\* Its finally closes the observers and releases the claims.
SoakLeaves(p) ==
  /\ p \in Owners /\ pc[p] = "leaving"
  /\ claim' = None
  /\ Goto(p, "idle")
  /\ UNCHANGED <<monVars, running, holder, ahead>>

\* The window is over or cancelled: close the interface, release the claim,
\* give the monitor back.
SoakEnds(p) ==
  /\ p \in Owners /\ pc[p] = "held"
  /\ claim' = None
  /\ Goto(p, "resume")
  /\ UNCHANGED <<monVars, running, holder, ahead>>

-----------------------------------------------------------------------------
(* Subscribers.                                                            *)

Subscribe(p) ==
  /\ p \in Clients /\ pc[p] = "idle"
  /\ Goto(p, "acquire")
  /\ UNCHANGED <<monVars, claim, running, holder, ahead>>

Unsubscribe(p) ==
  /\ p \in Clients /\ pc[p] = "subscribed"
  /\ Goto(p, "release")
  /\ UNCHANGED <<monVars, claim, running, holder, ahead>>

-----------------------------------------------------------------------------
(* TestRunner.start, its _drive task, and the identify sweep.              *)

RunChecks(p) ==
  /\ p \in Runs /\ pc[p] = "idle"
  /\ ~running
  /\ Goto(p, "starting")
  /\ UNCHANGED <<monVars, claim, running, holder, ahead>>

\* Fault: a monitor that is suspended is passed by.
VisitUnsuspended(p, method, otherwise) ==
  Goto(p, IF mon.known /\ ~mon.suspended THEN method ELSE otherwise)

\* suspend_all and resume_all visit the monitors that exist when they begin.
VisitMonitor(p, method, otherwise) ==
  Goto(p, IF mon.known THEN method ELSE otherwise)

\* The run row exists: raise the flag, then free the monitored ports.
RunCommits(p) ==
  /\ p \in Runs /\ pc[p] = "starting"
  /\ running' = TRUE
  /\ VisitMonitor(p, "suspend", "driving")
  /\ UNCHANGED <<monVars, claim, holder, ahead>>

\* Where a run drives from: freed of the monitor only under its own flag.
Drives == IF running THEN "driving" ELSE "exposed"

\* The 10 s bound on suspend_all over all monitors in turn, or its failure, at any
\* moment of this one: not yet visited, or in its close, whose part stays done.
SuspendAllTimesOut(p) ==
  /\ p \in Runs /\ pc[p] = "suspend"
  /\ \/ monHolder = p /\ Return /\ Goto(p, Drives)
     \/ monHolder # p /\ UNCHANGED <<monHolder, monStage>> /\ Goto(p, "exposed")
  /\ UNCHANGED <<mon, alive, stopped, claim, running, holder, ahead>>

\* The flag comes down under every run that drives: p goes on to l, and a run
\* that is gone does nothing more.
FlagDown(p, l, gone) ==
  /\ running' = FALSE
  /\ pc' = [q \in Procs |-> IF q = p THEN l
                            ELSE IF q = gone THEN "idle"
                            ELSE IF pc[q] = "driving" THEN "exposed" ELSE pc[q]]

\* _drive's finally, over a cancelled task too: the flag is down before the run row
\* is finished.
RunFinishes(p) ==
  /\ p \in Runs /\ pc[p] \in {"driving", "exposed"}
  /\ FlagDown(p, "finishing", None)
  /\ UNCHANGED <<monVars, claim, holder, ahead>>

\* reset() takes the flag down and resumes the monitors itself.  The task it cancels
\* goes to its finally; one that has not begun, or is in its finally, is gone.
Reset(p) ==
  /\ p \in Runs /\ pc[p] = "idle"
  /\ \E gone \in {q \in Runs : pc[q] \in {"driving", "exposed", "finishing", "resume"}} \cup {None} :
       /\ FlagDown(p, IF mon.known THEN "resume" ELSE "idle", gone)
       /\ \/ monHolder = gone /\ Return
          \/ monHolder # gone /\ UNCHANGED <<monHolder, monStage>>
  /\ UNCHANGED <<mon, alive, stopped, claim, holder, ahead>>

RunRestores(p) ==
  /\ p \in Runs /\ pc[p] = "finishing"
  /\ VisitMonitor(p, "resume", "idle")
  /\ UNCHANGED <<monVars, claim, running, holder, ahead>>

SweepGate(p) ==
  /\ p \in Sweeps /\ pc[p] = "idle"
  /\ ~running
  /\ Goto(p, "gated")
  /\ UNCHANGED <<monVars, claim, running, holder, ahead>>

SweepBegins(p) ==
  /\ p \in Sweeps /\ pc[p] = "gated"
  /\ VisitMonitor(p, "suspend", "cutting")
  /\ UNCHANGED <<monVars, claim, running, holder, ahead>>

SweepEnds(p) ==
  /\ p \in Sweeps /\ pc[p] = "cutting"
  /\ VisitMonitor(p, "resume", "idle")
  /\ UNCHANGED <<monVars, claim, running, holder, ahead>>

-----------------------------------------------------------------------------
(* Calls into the serial monitor, and where they return to.                *)

\* Fault: the guard does not look for an abandoned reader.
ReturnsToUnwary(p) ==
  CASE pc[p] = "acquire" -> "subscribed"
    [] pc[p] \in {"release", "resume"} -> "idle"
    [] pc[p] = "suspend" /\ p \in Ops -> BodyOrResume(p)
    [] pc[p] = "suspend" /\ p \in Owners -> "opening"
    [] pc[p] = "suspend" /\ p \in Runs -> Drives
    [] OTHER -> "cutting"

ReturnsTo(p) ==
  CASE pc[p] = "acquire" -> "subscribed"
    [] pc[p] \in {"release", "resume"} -> "idle"
    [] pc[p] = "suspend" /\ p \in Ops -> IF IsWedged' THEN "wedged" ELSE BodyOrResume(p)
    [] pc[p] = "suspend" /\ p \in Owners -> "opening"
    [] pc[p] = "suspend" /\ p \in Runs -> Drives
    [] OTHER -> "cutting"

CallContinues(p) ==
  \/ monHolder' # None /\ UNCHANGED <<pc, holder>>
  \/ /\ monHolder' = None
     /\ Goto(p, ReturnsTo(p))
     /\ holder' = IF p \in Ops /\ pc[p] = "resume" THEN None ELSE holder

MonitorCall(p) ==
  /\ p \in Procs
  /\ CallBegins(p) \/ CallEnds(p)
  /\ CallContinues(p)
  /\ UNCHANGED <<claim, running, ahead>>

ReaderExits(t) ==
  /\ ReaderStops(t) \/ ReaderFails(t)
  /\ UNCHANGED <<claim, running, pc, holder, ahead>>

-----------------------------------------------------------------------------
OpNext(p) ==
  \/ GuardEnter(p) \/ GuardGranted(p) \/ WedgeCleared(p) \/ WedgeTimesOut(p)
  \/ BodyEnds(p)

OwnerNext(p) ==
  \/ ClaimDevice(p) \/ PortIsClear(p) \/ WaitClearTimesOut(p)
  \/ ObserverOpens(p) \/ ObserverFails(p) \/ SoakEnds(p)
  \/ SoakCancelled(p) \/ SoakLeaves(p)

RunNext(p) ==
  \/ RunChecks(p) \/ RunCommits(p) \/ SuspendAllTimesOut(p)
  \/ RunFinishes(p) \/ RunRestores(p) \/ Reset(p)

SweepNext(p) == SweepGate(p) \/ SweepBegins(p) \/ SweepEnds(p)

Next ==
  \/ \E p \in Ops : OpNext(p)
  \/ \E p \in Owners : OwnerNext(p)
  \/ \E p \in Clients : Subscribe(p) \/ Unsubscribe(p)
  \/ \E p \in Runs : RunNext(p)
  \/ \E p \in Sweeps : SweepNext(p)
  \/ \E p \in Procs : MonitorCall(p)
  \/ \E t \in Readers : ReaderExits(t)

Spec == Init /\ [][Next]_vars

(***************************************************************************)
(* What the event loop guarantees.  Every coroutine that can run runs; a   *)
(* monitor caller is not overtaken for ever (the code's lock is FIFO, the  *)
(* model's is not, hence strong fairness; of the Ops one at a time is      *)
(* inside the guard); a reader whose stop event is set exits unless it is  *)
(* wedged.  A soak has a deadline, a sweep is a bounded number of calls.   *)
(* Nothing bounds a guarded body (portlock.py:95-99) or a pytest, nor need *)
(* anybody enter a guard, subscribe, claim, cancel, start or reset.        *)
(***************************************************************************)
Fairness ==
  /\ \A p \in Ops : WF_vars(GuardGranted(p) \/ WedgeCleared(p) \/ WedgeTimesOut(p))
  /\ \A p \in Owners :
       WF_vars(\/ PortIsClear(p) \/ WaitClearTimesOut(p) \/ ObserverOpens(p)
               \/ ObserverFails(p) \/ SoakEnds(p) \/ SoakLeaves(p))
  /\ \A p \in Runs : WF_vars(RunCommits(p) \/ RunRestores(p))
  /\ \A p \in Sweeps : WF_vars(SweepBegins(p) \/ SweepEnds(p))
  /\ SF_vars(\E p \in Ops : MonitorCall(p))
  /\ \A p \in Owners \cup Runs \cup Sweeps : SF_vars(MonitorCall(p))
  /\ \A p \in Clients : WF_vars(MonitorCall(p))
  /\ ~CanWedge => \A t \in Readers : WF_vars(ReaderStops(t) /\ ReaderExits(t))

FairSpec == Spec /\ Fairness

-----------------------------------------------------------------------------
(* Properties.                                                             *)

TypeOK ==
  /\ mon \in [known : BOOLEAN, refs : Nat, suspended : BOOLEAN, left : BOOLEAN,
               thread : Readers \cup {None}]
  /\ monHolder \in Procs \cup {None}
  /\ monStage \in {"free", "open", "close"}
  /\ alive \subseteq Readers /\ stopped \subseteq Readers
  /\ claim \in Owners \cup {None}
  /\ running \in BOOLEAN
  /\ pc \in [Procs -> OpPC \cup OwnerPC \cup ClientPC \cup RunPC \cup SweepPC]
  /\ \A p \in Procs : pc[p] \in PCOf(p)
  /\ holder \in Ops \cup {None}
  /\ ahead \in [Ops \cup Owners -> SUBSET (Ops \cup Owners)]

InGuard(p) == pc[p] \in {"suspend", "wedged", "body", "resume"}
OwnsPort(p) == pc[p] \in {"suspend", "leaving", "opening", "held"}

\* The guard is exclusive, and a soak that waited the port clear shares it with
\* no guarded operation, not even one admitted before the claim: the claim is
\* tested before a FIFO lock is joined, so the claimant is the last in line
\* (portlock.py:86-94 and 113-129, nightly_soak.py:344-367).
GuardExclusive ==
  /\ \A p, q \in Ops : InGuard(p) /\ InGuard(q) => p = q
  /\ \A o \in Owners : OwnsPort(o) =>
       claim = o /\ \A p \in Ops : ~InGuard(p) /\ pc[p] # "queued"

\* The inductive strengthening of GuardExclusive: the waiters of the guard lock
\* are totally ordered by ahead, and nobody queues behind a claimant.
QueueOrder ==
  /\ \A p \in Ops \cup Owners : ahead[p] \subseteq Waiters
  /\ \A p, q \in Waiters : p # q => p \in ahead[q] \/ q \in ahead[p]

ClaimantIsLast == \A p \in Ops \cup Owners : claim \notin ahead[p]

HolderInGuard == \A p \in Ops : InGuard(p) <=> holder = p

ClaimByOwner ==
  \A o \in Owners : pc[o] = "queued" \/ OwnsPort(o) => claim = o

PortCleared ==
  \A o \in Owners : OwnsPort(o) =>
    \A p \in Ops : ~InGuard(p) /\ pc[p] # "queued"

GuardInv ==
  QueueOrder /\ ClaimantIsLast /\ HolderInGuard /\ ClaimByOwner /\ PortCleared

\* The reference count is the number of subscribers, whatever the order in
\* which their calls went through the lock; a monitor nobody subscribes to is
\* forgotten (serial_monitor.py:79-94).
Counted(c) == \/ pc[c] = "subscribed"
              \/ pc[c] = "acquire" /\ monHolder = c
              \/ pc[c] = "release" /\ monHolder # c

RefsMatchSubscribers ==
  /\ mon.refs = Cardinality({c \in Clients : Counted(c)})
  /\ mon.known <=> \/ mon.refs > 0
                   \/ monHolder # None /\ pc[monHolder] = "release"

\* A monitor is suspended only on behalf of somebody who has yet to resume it,
\* so no order of overlapping suspensions leaves a Serial tab dead for good; but
\* a soak that is cancelled inside suspend() does (nightly_soak.py:361-366, 422-437).
Suspends(p) ==
  \/ pc[p] \in {"wedged", "body", "opening", "held", "driving", "exposed", "finishing",
                "cutting", "resume"}
  \/ pc[p] = "suspend" /\ monHolder = p

SuspensionHasOwner == mon.suspended /\ ~mon.left => \E p \in Procs : Suspends(p)

\* What the server has on record of a monitor is true: its subscribers are counted
\* and its suspension has an owner (serial_monitor.py:79-114).
MonitorBooks == RefsMatchSubscribers /\ SuspensionHasOwner

\* While pytest drives the bench no reader thread of the server holds the tty,
\* except one that was told to stop and wedged, although _open tests the run flag
\* before an await and starts the reader after it (serial_monitor.py:131-140), and
\* whatever other runs start, end or are reset: once the monitor was suspended
\* under the flag, and while nobody takes the flag down (test_runner.py:273-315).
NoReaderMidRun == \A r \in Runs : pc[r] = "driving" => alive \subseteq stopped

\* No monitor, however its acquire or resume interleaves with the claim, puts a
\* reader beside a held observer: only one that wedged before can be there
\* (serial_monitor.py:141-150 and 169-176).
ObserverAlone == \A o \in Owners : pc[o] = "held" => alive \subseteq stopped

\* No reader is beside those who took the port from the monitor for long.
ReadersKeepOut == NoReaderMidRun /\ ObserverAlone

\* The port is never double-opened (serial_monitor.py:11-13, portlock.py:118-124):
\* of the reader threads, the guarded bodies and the held observers, one has it.
NeverDoubleOpened ==
  Cardinality(alive) + Cardinality({p \in Ops \cup Owners : pc[p] \in {"body", "held"}}) <= 1

\* Every operation admitted to the guard's queue leaves the guard again, over a
\* wedged reader too, whatever claim is laid and whoever subscribes meanwhile, if no
\* body of the guard lasts for ever (portlock.py:95-99 does not exclude it).
GuardTerminates ==
  (\A q \in Ops : []<>(pc[q] # "body")) =>
    \A p \in Ops : pc[p] = "queued" ~> pc[p] = "idle"

\* A claim ends, over a guarded body that does not end too (portlock.py:95-99).
ClaimEnds == claim # None ~> claim = None

\* So does a suspension, if bodies and runs end, and but for the cancelled soak.
SuspensionEnds ==
  /\ \A q \in Ops : []<>(pc[q] # "body")
  /\ \A r \in Runs : []<>(pc[r] \notin {"driving", "exposed"})
  => (mon.suspended ~> ~mon.suspended \/ mon.left)

\* The monitor comes back to its subscribers, whoever took the port: an operation,
\* a soak, a run or a sweep.
MonitorComesBack == ClaimEnds /\ SuspensionEnds

(***************************************************************************)
(* The abstract view: the port has at most one exclusive user at a time.   *)
(***************************************************************************)
Uses(p) == p \in Ops \cup Owners /\ pc[p] \in {"body", "held"}

user == IF \E p \in Ops \cup Owners : Uses(p)
        THEN CHOOSE p \in Ops \cup Owners : Uses(p) ELSE None

Ownership == INSTANCE PortOwnership WITH Users <- Ops \cup Owners, user <- user

ExclusiveUse == Ownership!Spec

=============================================================================
