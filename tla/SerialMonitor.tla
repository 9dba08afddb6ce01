---------------------------- MODULE SerialMonitor ----------------------------
(***************************************************************************)
(* The live serial monitor of ONE device (web/services/serial_monitor.py). *)
(*                                                                         *)
(* A monitor is reference counted by subscriber.  The first acquire spawns *)
(* a reader thread that holds the tty, the last release closes it, and     *)
(* suspend/resume free the tty for a while.  All four run under one        *)
(* asyncio lock per device and yield inside it at two places: _open waits  *)
(* for a database query, _close waits for the reader thread to be joined.  *)
(* The rest of a method is one step, as it is in the event loop.           *)
(*                                                                         *)
(* This module holds the methods; the processes that call them, and the    *)
(* claim and the run flag that _open consults, are those of PortArbiter.   *)
(* A caller p says which method it is in by pc[p].                         *)
(*                                                                         *)
(* The waiters of the monitor lock are served in any order (the code's     *)
(* lock serves them in order of arrival, which is one of these orders).    *)
(***************************************************************************)
EXTENDS Naturals

CONSTANTS
  None,       \* the absence of a thread, a caller or a claim
  Readers,    \* reader threads that can be alive at once (bounds the model)
  CanWedge    \* may a reader outlive the two joins of _close?

ASSUME ReadersAssumption == None \notin Readers
ASSUME WedgeAssumption == CanWedge \in BOOLEAN

VARIABLES
  mon,        \* _mons.get(serial): the _Monitor, known = it is in the dict,
              \* left = a caller was cancelled inside suspend() since the last resume
  monHolder,  \* the caller inside the per-serial monitor lock
  monStage,   \* where that caller is suspended
  alive,      \* reader threads that have not exited: each holds the tty
  stopped,    \* reader threads whose stop event is set
  claim,      \* PortLocks._claims.get(serial)
  running,    \* test_runner._state["running"]
  pc          \* what each process of the server is doing with the device

monVars == <<mon, monHolder, monStage, alive, stopped>>

NoMonitor == [known |-> FALSE, refs |-> 0, suspended |-> FALSE, left |-> FALSE,
              thread |-> None]

Methods == {"acquire", "release", "suspend", "resume"}

\* A reader abandoned by a timed-out close that still holds the tty.
IsWedged == mon.known /\ mon.suspended /\ mon.thread \in alive

-----------------------------------------------------------------------------
(* _open and _close, each in two parts: up to its await, and after it.     *)

Return == monHolder' = None /\ monStage' = "free"

Await(p, s) == monHolder' = p /\ monStage' = s

\* Fault: the run flag is not tested.
MayOpenAnytime(m) == claim = None /\ m.thread \notin alive

\* The checks _open makes before it reads the device row.
MayOpen(m) == ~running /\ claim = None /\ m.thread \notin alive

OpenBegin(p, m) ==
  \/ /\ MayOpen(m)
     /\ mon' = [m EXCEPT !.thread = None]
     /\ Await(p, "open")
     /\ UNCHANGED <<alive, stopped>>
  \/ /\ ~MayOpen(m)
     /\ mon' = m
     /\ Return
     /\ UNCHANGED <<alive, stopped>>

StartReader ==
  \E t \in Readers \ alive :
    /\ mon' = [mon EXCEPT !.thread = t]
    /\ alive' = alive \cup {t}
    /\ stopped' = stopped \ {t}

\* The row has arrived.  It may name no tty; and what was decided before the
\* query is decided again.
OpenEnd(p) ==
  /\ monHolder = p /\ monStage = "open"
  /\ Return
  /\ \/ ~mon.suspended /\ claim = None /\ StartReader
     \/ UNCHANGED <<mon, alive, stopped>>

\* What is left of the monitor when its close returns: release forgets it.
AfterClose(p, m) == IF pc[p] = "release" THEN NoMonitor ELSE m

CloseBegin(p, m) ==
  /\ UNCHANGED alive
  /\ \/ m.thread = None /\ mon' = AfterClose(p, m) /\ Return /\ UNCHANGED stopped
     \/ /\ m.thread # None
        /\ mon' = m
        /\ stopped' = stopped \cup {m.thread}
        /\ Await(p, "close")

CloseJoined(p) ==
  /\ monHolder = p /\ monStage = "close"
  /\ mon.thread \notin alive
  /\ mon' = AfterClose(p, [mon EXCEPT !.thread = None])
  /\ Return
  /\ UNCHANGED <<alive, stopped>>

\* Both joins timed out: the thread is left to itself and the monitor keeps it.
CloseAbandoned(p) ==
  /\ CanWedge
  /\ monHolder = p /\ monStage = "close"
  /\ mon.thread \in alive
  /\ mon' = AfterClose(p, mon)
  /\ Return
  /\ UNCHANGED <<alive, stopped>>

-----------------------------------------------------------------------------
(* The methods.  Each takes the monitor lock and runs to its first await.  *)

Acquire(p) ==
  LET m == [mon EXCEPT !.known = TRUE, !.refs = @ + 1]
  IN  /\ pc[p] = "acquire"
      /\ \/ m.refs = 1 /\ ~m.suspended /\ OpenBegin(p, m)
         \/ /\ m.refs > 1 \/ m.suspended
            /\ mon' = m
            /\ Return
            /\ UNCHANGED <<alive, stopped>>

\* Fault: every release closes, not the last one.
ReleaseAlwaysCloses(p) ==
  LET m == [mon EXCEPT !.refs = IF @ = 0 THEN 0 ELSE @ - 1]
  IN  /\ pc[p] = "release"
      /\ \/ ~mon.known /\ Return /\ UNCHANGED <<mon, alive, stopped>>
         \/ mon.known /\ CloseBegin(p, m)

Release(p) ==
  LET m == [mon EXCEPT !.refs = IF @ = 0 THEN 0 ELSE @ - 1]
  IN  /\ pc[p] = "release"
      /\ \/ ~mon.known /\ Return /\ UNCHANGED <<mon, alive, stopped>>
         \/ mon.known /\ m.refs = 0 /\ CloseBegin(p, m)
         \/ /\ mon.known /\ m.refs > 0
            /\ mon' = m
            /\ Return
            /\ UNCHANGED <<alive, stopped>>

Suspend(p) ==
  /\ pc[p] = "suspend"
  /\ \/ ~mon.known /\ Return /\ UNCHANGED <<mon, alive, stopped>>
     \/ mon.known /\ CloseBegin(p, [mon EXCEPT !.suspended = TRUE])

Resume(p) ==
  LET m == [mon EXCEPT !.suspended = FALSE, !.left = FALSE]
  IN  /\ pc[p] = "resume"
      /\ \/ ~mon.known /\ Return /\ UNCHANGED <<mon, alive, stopped>>
         \/ mon.known /\ m.refs > 0 /\ m.thread \notin alive /\ OpenBegin(p, m)
         \/ /\ mon.known
            /\ m.refs = 0 \/ m.thread \in alive
            /\ mon' = m
            /\ Return
            /\ UNCHANGED <<alive, stopped>>

CallBegins(p) ==
  /\ monHolder = None
  /\ Acquire(p) \/ Release(p) \/ Suspend(p) \/ Resume(p)

CallEnds(p) == OpenEnd(p) \/ CloseJoined(p) \/ CloseAbandoned(p)

-----------------------------------------------------------------------------
(* The reader threads (_read_loop).                                        *)

\* The loop sees its stop event at the next read timeout and closes the tty.
ReaderStops(t) ==
  /\ t \in alive \cap stopped
  /\ alive' = alive \ {t}
  /\ UNCHANGED <<mon, monHolder, monStage, stopped>>

\* The open or a read fails (the device went away): the loop ends by itself.
ReaderFails(t) ==
  /\ t \in alive
  /\ alive' = alive \ {t}
  /\ UNCHANGED <<mon, monHolder, monStage, stopped>>

=============================================================================
