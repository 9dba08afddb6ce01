---------------------------- MODULE PortRegistry ----------------------------
(***************************************************************************)
(* Who owns ONE serial port inside one process, the MCP server or          *)
(* FleetSuite (registry.py, connection.py, serial_session.py, flash.py,    *)
(* serial_open and serial_close of server.py).                             *)
(*                                                                         *)
(* Tools run in threads.  A port is owned by its in-process lock, taken    *)
(* without waiting, or by a registered session, a `pio device monitor`     *)
(* that runs after the call that opened it has released the lock:          *)
(*                                                                         *)
(*   Connects   calls of connect(): admin and info tools                   *)
(*   Uploads    flash, flash_start, erase_and_flash and update_flash       *)
(*   Sessions   monitors; as a process, the serial_open that makes it      *)
(*   Others     holders that only take the lock and give it back: power    *)
(*              meter, BLE sniffer, the observers of a soak                *)
(*                                                                         *)
(* A step is what a thread does under registry._LOCK, a call on the port   *)
(* lock, or something that happens to a subprocess or an interface.  A     *)
(* call that is refused changes nothing once it gave the lock back.        *)
(***************************************************************************)
EXTENDS Naturals

CONSTANTS None, Connects, Uploads, Sessions, Others

Lockers == Uploads \cup Sessions
Procs == Connects \cup Lockers

ASSUME CallersAssumption ==
  /\ None \notin Procs \cup Others /\ Others \cap Procs = {}
  /\ Connects \cap Uploads = {} /\ Connects \cap Sessions = {}
  /\ Uploads \cap Sessions = {}

VARIABLES
  lock,       \* the call that holds the port's lock
  registry,   \* _sessions: the sessions registered for the port
  proc,       \* the pio subprocess of each session: it holds the tty
  closes,     \* close_session calls made for each session
  tty,        \* the interface of each connect()
  pc

vars == <<lock, registry, proc, closes, tty, pc>>

Init ==
  /\ lock = None
  /\ registry = {}
  /\ proc = [s \in Sessions |-> "none"]
  /\ closes = [s \in Sessions |-> 0]
  /\ tty = [c \in Connects |-> "none"]
  /\ pc = [p \in Procs |-> "idle"]

Goto(p, l) == pc' = [pc EXCEPT ![p] = l]

sessionVars == <<registry, proc, closes>>

-----------------------------------------------------------------------------
(* The lock, and the question whether a session has the port.              *)

\* acquire(blocking=False); a caller that fails is refused.
TakeLock(p, l) ==
  /\ lock = None
  /\ lock' = p
  /\ Goto(p, l)

GiveLock(p) == lock' = None /\ Goto(p, "idle")

Swept == {s \in registry : proc[s] = "exited"}

\* sweep_dead: the sessions whose monitor exited are popped and closed.
SweepDead(p, from) ==
  /\ pc[p] = from
  /\ registry' = registry \ Swept
  /\ closes' = [s \in Sessions |-> IF s \in Swept THEN closes[s] + 1 ELSE closes[s]]
  /\ Goto(p, "swept")
  /\ UNCHANGED <<lock, proc, tty>>

ActiveSession == \E s \in registry : proc[s] = "alive"

-----------------------------------------------------------------------------
(* serial_open and the uploads: lock, ask, act.                            *)

\* A session identity is used again when nothing is left of the last one.
LockPort(p) ==
  /\ p \in Lockers /\ pc[p] = "idle"
  /\ p \in Sessions => p \notin registry /\ proc[p] # "alive"
  /\ TakeLock(p, "locked")
  /\ UNCHANGED <<sessionVars, tty>>

SweepLocked(p) == p \in Lockers /\ SweepDead(p, "locked")

\* Fault: the sessions are not asked.
LookupSkipped(p) ==
  /\ p \in Lockers /\ pc[p] = "swept"
  /\ Goto(p, "clear")
  /\ UNCHANGED <<lock, sessionVars, tty>>

Lookup(p) ==
  /\ p \in Lockers /\ pc[p] = "swept"
  /\ \/ ActiveSession /\ GiveLock(p)
     \/ ~ActiveSession /\ Goto(p, "clear") /\ UNCHANGED lock
  /\ UNCHANGED <<sessionVars, tty>>

\* The upload is over, has failed, or its thread could not be started.
UploadEnds(p) ==
  /\ p \in Uploads /\ pc[p] = "clear"
  /\ GiveLock(p)
  /\ UNCHANGED <<sessionVars, tty>>

OpenSpawns(s) ==
  /\ s \in Sessions /\ pc[s] = "clear"
  /\ proc' = [proc EXCEPT ![s] = "alive"]
  /\ closes' = [closes EXCEPT ![s] = 0]
  /\ Goto(s, "spawned")
  /\ UNCHANGED <<lock, registry, tty>>

SpawnFails(s) ==
  /\ s \in Sessions /\ pc[s] = "clear"
  /\ GiveLock(s)
  /\ UNCHANGED <<sessionVars, tty>>

\* The session is registered, and only then the lock given back.
OpenRegisters(s) ==
  /\ s \in Sessions /\ pc[s] = "spawned"
  /\ registry' = registry \cup {s}
  /\ GiveLock(s)
  /\ UNCHANGED <<proc, closes, tty>>

-----------------------------------------------------------------------------
(* Sessions after serial_open.                                             *)

\* Popped, then terminated: for some seconds the monitor is still there.
SerialClose(s) ==
  /\ s \in registry
  /\ registry' = registry \ {s}
  /\ closes' = [closes EXCEPT ![s] = @ + 1]
  /\ UNCHANGED <<lock, proc, tty, pc>>

\* Terminated, or by itself when the device goes away.
MonitorExits(s) ==
  /\ proc[s] = "alive"
  /\ proc' = [proc EXCEPT ![s] = "exited"]
  /\ UNCHANGED <<lock, registry, closes, tty, pc>>

-----------------------------------------------------------------------------
(* connect(): ask, lock, act.                                              *)

ConnectSweeps(c) == c \in Connects /\ tty[c] = "none" /\ SweepDead(c, "idle")

ConnectLooks(c) ==
  /\ c \in Connects /\ pc[c] = "swept"
  /\ \/ ActiveSession /\ Goto(c, "idle")
     \/ ~ActiveSession /\ Goto(c, "looked")
  /\ UNCHANGED <<lock, sessionVars, tty>>

ConnectLocks(c) ==
  /\ c \in Connects /\ pc[c] = "looked"
  /\ \/ TakeLock(c, "opening")
     \/ lock # None /\ Goto(c, "idle") /\ UNCHANGED lock
  /\ UNCHANGED <<sessionVars, tty>>

InterfaceOpens(c) ==
  /\ c \in Connects /\ pc[c] = "opening"
  /\ \/ tty' = [tty EXCEPT ![c] = "open"] /\ Goto(c, "using") /\ UNCHANGED lock
     \/ GiveLock(c) /\ UNCHANGED tty
  /\ UNCHANGED sessionVars

\* The body is over and has lingered: close() is called in a thread, and may
\* get stuck.
CloseBegins(c) ==
  /\ c \in Connects /\ pc[c] = "using"
  /\ \/ tty' = [tty EXCEPT ![c] = "stuck"]
     \/ UNCHANGED tty
  /\ Goto(c, "closing")
  /\ UNCHANGED <<lock, sessionVars>>

CloseReturns(c) ==
  /\ c \in Connects /\ pc[c] = "closing" /\ tty[c] = "open"
  /\ tty' = [tty EXCEPT ![c] = "none"]
  /\ GiveLock(c)
  /\ UNCHANGED sessionVars

\* _CLOSE_TIMEOUT_S: the close is left to its thread.
CloseAbandoned(c) ==
  /\ c \in Connects /\ pc[c] = "closing" /\ tty[c] = "stuck"
  /\ GiveLock(c)
  /\ UNCHANGED <<sessionVars, tty>>

\* A stuck close goes through after all, when the device re-enumerates.
StuckReleased(c) ==
  /\ tty[c] = "stuck"
  /\ pc[c] = "idle"
  /\ tty' = [tty EXCEPT ![c] = "none"]
  /\ UNCHANGED <<lock, sessionVars, pc>>

-----------------------------------------------------------------------------
(* The other holders.  Some ask for sessions before they take the lock.    *)

OtherSweeps ==
  /\ registry' = registry \ Swept
  /\ closes' = [s \in Sessions |-> IF s \in Swept THEN closes[s] + 1 ELSE closes[s]]
  /\ UNCHANGED <<lock, proc, tty, pc>>

OtherLocks(o) ==
  /\ lock = None
  /\ lock' = o
  /\ UNCHANGED <<sessionVars, tty, pc>>

OtherUnlocks(o) ==
  /\ lock = o
  /\ lock' = None
  /\ UNCHANGED <<sessionVars, tty, pc>>

-----------------------------------------------------------------------------
LockerNext(p) ==
  \/ SweepLocked(p) \/ Lookup(p)
  \/ UploadEnds(p) \/ OpenSpawns(p) \/ SpawnFails(p) \/ OpenRegisters(p)

ConnectNext(c) ==
  \/ ConnectLooks(c) \/ ConnectLocks(c) \/ InterfaceOpens(c)
  \/ CloseBegins(c) \/ CloseReturns(c) \/ CloseAbandoned(c)

CallNext ==
  \/ \E p \in Lockers : LockPort(p) \/ LockerNext(p)
  \/ \E s \in Sessions : SerialClose(s) \/ MonitorExits(s)
  \/ \E c \in Connects : ConnectSweeps(c) \/ ConnectNext(c) \/ StuckReleased(c)

Next ==
  \/ CallNext
  \/ OtherSweeps
  \/ \E o \in Others : OtherLocks(o) \/ OtherUnlocks(o)

Spec == Init /\ [][Next]_vars

(***************************************************************************)
(* Threads go on; uploads and the bodies of connect() end (each has its    *)
(* timeouts).  Nobody has to call a tool, close a session or free a stuck  *)
(* interface.                                                              *)
(***************************************************************************)
Fairness ==
  /\ \A p \in Lockers : WF_vars(LockerNext(p))
  /\ \A c \in Connects : WF_vars(ConnectNext(c))

-----------------------------------------------------------------------------
(* Properties.                                                             *)

PC == {"idle", "locked", "swept", "clear", "spawned", "looked", "opening",
       "using", "closing"}

TypeOK ==
  /\ lock \in Procs \cup Others \cup {None}
  /\ registry \subseteq Sessions
  /\ proc \in [Sessions -> {"none", "alive", "exited"}]
  /\ closes \in [Sessions -> Nat]
  /\ tty \in [Connects -> {"none", "open", "stuck"}]
  /\ pc \in [Procs -> PC]

\* A monitor that runs and that nobody is closing.
Monitors(s) == proc[s] = "alive" /\ closes[s] = 0

\* No upload runs beside a monitor, and no two monitors read one port, but for
\* one that is being terminated: whoever asks for sessions under the lock cannot
\* miss one that registers meanwhile (flash.py:100-102, server.py:1530-1535).
MonitorAlone ==
  \A s \in Sessions : Monitors(s) =>
    /\ \A u \in Uploads : pc[u] # "clear"
    /\ \A t \in Sessions : Monitors(t) => s = t

\* The inductive strengthening of MonitorAlone: who has the lock, where a live
\* monitor is on record, and what a lookup under the lock established.
Holds(p) == IF p \in Connects THEN pc[p] \in {"opening", "using", "closing"}
            ELSE pc[p] # "idle"

LockHeld == \A p \in Procs : Holds(p) <=> lock = p

OnRecord ==
  /\ \A s \in registry : closes[s] = 0 /\ pc[s] = "idle"
  /\ \A s \in Sessions : pc[s] = "spawned" => closes[s] = 0
  /\ \A s \in Sessions : Monitors(s) => s \in registry \/ pc[s] = "spawned"

ClearMeansAlone ==
  \A p \in Lockers : pc[p] \in {"clear", "spawned"} =>
    \A s \in Sessions : Monitors(s) => s = p /\ pc[p] = "spawned"

OneMonitor == \A s, t \in Sessions : Monitors(s) /\ Monitors(t) => s = t

RegistryInv == LockHeld /\ OnRecord /\ ClearMeansAlone /\ OneMonitor

\* A session is closed once, by the serial_close or by the one of the sweeping
\* calls that popped it: a second close would hit a reused file descriptor
\* (registry.py:33-35 and 55-62).
ClosedOnce == \A s \in Sessions : closes[s] <= 1

\* What the registry and its lock are for.
SessionsKeepApart == TypeOK /\ MonitorAlone /\ ClosedOnce

\* No call keeps the port for ever, not even one whose interface does not close.
LockIsReturned == lock \in Procs ~> lock = None

\* serial_open and connect() do not both own the port (server.py:1530-1535).
NotBothOwners ==
  \A c \in Connects : pc[c] = "using" => \A s \in registry : proc[s] # "alive"

(***************************************************************************)
(* The abstract view of those who ask under the lock.                      *)
(***************************************************************************)
Uses(p) == \/ p \in Uploads /\ pc[p] = "clear"
           \/ p \in Sessions /\ Monitors(p)

user == IF \E p \in Lockers : Uses(p) THEN CHOOSE p \in Lockers : Uses(p) ELSE None

Ownership == INSTANCE PortOwnership WITH Users <- Lockers, user <- user

ExclusiveUse == Ownership!Spec

=============================================================================
