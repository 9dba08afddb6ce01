------------------------------- MODULE ToolJobs -------------------------------
(***************************************************************************)
(* Background jobs around one external program (jobs.py): the captures of  *)
(* a BLE sniffer (ble_sniffer.py) and the key grinds (vanity.py).  A job   *)
(* is a daemon thread that starts the program, waits for it or terminates  *)
(* it when its time is up; stop() signals the program from another thread  *)
(* and leaves the state of the job to the worker.                          *)
(***************************************************************************)
EXTENDS Naturals, FiniteSets

CONSTANTS
  Captures,    \* calls of capture_start, all for one sniffer
  Grinds,      \* calls of grind_start
  Stoppers,    \* calls of capture_stop and grind_stop
  NoTool

Tools == Captures \cup Grinds

ASSUME ToolsAssumption == Captures \cap Grinds = {} /\ NoTool \notin Tools

VARIABLES
  worker,      \* where the thread of a job is
  state,       \* its state dict: port, pid, stop_requested, status
  program,     \* its program: "none", "alive", "signalled" or its end
  snifferLock, \* registry.port_lock of the sniffer
  stopper      \* each stop: where it is, and its job

toolVars == <<worker, state, program, snifferLock, stopper>>

NoState == [port |-> FALSE, pid |-> FALSE, stop |-> FALSE, status |-> "none"]

ToolsFresh ==
  /\ state = [j \in Tools |-> NoState] /\ program = [j \in Tools |-> "none"]
  /\ stopper = [c \in Stoppers |-> [at |-> "idle", job |-> NoTool]]
  /\ snifferLock = NoTool

ToolsInit == worker = [j \in Tools |-> "idle"] /\ ToolsFresh

Works(j, at) == worker' = [worker EXCEPT ![j] = at]

Ended == {"ok", "fault", "killed"}

-----------------------------------------------------------------------------
(* A job.                                                                  *)

\* A capture is refused while another is listed for its sniffer, which that
\* one's worker does some time after its start returned.
ToolStarts(j) ==
  /\ worker[j] = "idle"
  /\ IF j \in Captures
        /\ \E k \in Captures : state[k].status = "running" /\ state[k].port
     THEN Works(j, "refused") /\ UNCHANGED state
     ELSE /\ Works(j, "begun")
          /\ state' = [state EXCEPT ![j].status = "running"]
  /\ UNCHANGED <<program, snifferLock, stopper>>

Lists(j) ==
  /\ worker[j] = "begun"
  /\ state' = [state EXCEPT ![j].port = j \in Captures]
  /\ Works(j, IF j \in Captures THEN "locking" ELSE "launching")
  /\ UNCHANGED <<program, snifferLock, stopper>>

\* The lock of the sniffer is not waited for.
LocksSniffer(j) ==
  /\ worker[j] = "locking"
  /\ IF snifferLock = NoTool THEN Works(j, "launching") /\ snifferLock' = j
     ELSE Works(j, "raised") /\ UNCHANGED snifferLock
  /\ UNCHANGED <<state, program, stopper>>

LaunchTool(j) ==
  /\ worker[j] = "launching"
  /\ Works(j, "launched") /\ program' = [program EXCEPT ![j] = "alive"]
  /\ UNCHANGED <<state, snifferLock, stopper>>

LaunchFails(j) ==
  /\ worker[j] = "launching" /\ Works(j, "raised")
  /\ snifferLock' = IF snifferLock = j THEN NoTool ELSE snifferLock
  /\ UNCHANGED <<state, program, stopper>>

KnowsPid(j) ==
  /\ worker[j] = "launched"
  /\ state' = [state EXCEPT ![j].pid = TRUE] /\ Works(j, "waiting")
  /\ UNCHANGED <<program, snifferLock, stopper>>

\* The program ended while it was waited for; its code tells what of.
WaitReturns(j) ==
  /\ worker[j] = "waiting" /\ program[j] \in Ended
  /\ Works(j, IF program[j] = "ok" THEN "done" ELSE IF state[j].stop THEN "stopped" ELSE "failed")
  /\ UNCHANGED <<state, program, snifferLock, stopper>>

\* Fault: the program is told to terminate and not waited for.
TimeIsUpUnwaited(j) ==
  /\ worker[j] = "waiting" /\ program[j] \in {"alive", "signalled"}
  /\ program' = [program EXCEPT ![j] = "signalled"] /\ Works(j, "done")
  /\ UNCHANGED <<state, snifferLock, stopper>>

\* The time of the job is up: terminate, wait, kill.
TimeIsUp(j) ==
  /\ worker[j] = "waiting" /\ program[j] \in {"alive", "signalled"}
  /\ program' = [program EXCEPT ![j] = "killed"]
  /\ \E end \in {"done"} \cup {x \in {"timeout"} : j \in Grinds} : Works(j, end)
  /\ UNCHANGED <<state, snifferLock, stopper>>

\* A capture gives its lock back before its end can be seen.
Unlocks(j) ==
  /\ worker[j] \in {"done", "stopped", "failed"} /\ snifferLock = j
  /\ snifferLock' = NoTool
  /\ UNCHANGED <<worker, state, program, stopper>>

ToolEnds(j) ==
  /\ \/ worker[j] \in {"done", "stopped", "failed", "timeout"} /\ snifferLock # j
     \/ worker[j] = "raised"
  /\ state' = [state EXCEPT ![j].status = IF worker[j] = "raised" THEN "failed" ELSE worker[j]]
  /\ Works(j, "over")
  /\ UNCHANGED <<program, snifferLock, stopper>>

-----------------------------------------------------------------------------
(* Stopping a job.                                                         *)

\* A job whose program has no pid yet is left alone, running as it is.
StopAsks(c, j) ==
  /\ stopper[c].at = "idle" /\ state[j].status # "none"
  /\ stopper' = [stopper EXCEPT ![c] =
       [at |-> IF state[j].status = "running" /\ state[j].pid THEN "flagging" ELSE "not stopped",
        job |-> j]]
  /\ UNCHANGED <<worker, state, program, snifferLock>>

StopFlags(c) ==
  /\ stopper[c].at = "flagging"
  /\ state' = [state EXCEPT ![stopper[c].job].stop = TRUE]
  /\ stopper' = [stopper EXCEPT ![c].at = "flagged"]
  /\ UNCHANGED <<worker, program, snifferLock>>

StopSignals(c) ==
  /\ stopper[c].at = "flagged"
  /\ program' = [program EXCEPT ![stopper[c].job] = IF @ = "alive" THEN "signalled" ELSE @]
  /\ stopper' = [stopper EXCEPT ![c].at = "stopped"]
  /\ UNCHANGED <<worker, state, snifferLock>>

-----------------------------------------------------------------------------
(* The program.                                                            *)

ProgramEnds(j) ==
  /\ program[j] = "alive"
  /\ \E end \in {"ok", "fault"} : program' = [program EXCEPT ![j] = end]
  /\ UNCHANGED <<worker, state, snifferLock, stopper>>

\* It ends by the signal, or cleans up and exits with 0.
ProgramObeys(j) ==
  /\ program[j] = "signalled"
  /\ \E end \in {"ok", "killed"} : program' = [program EXCEPT ![j] = end]
  /\ UNCHANGED <<worker, state, snifferLock, stopper>>

-----------------------------------------------------------------------------
ToolStep(j) ==
  \/ Lists(j) \/ LocksSniffer(j) \/ LaunchTool(j) \/ LaunchFails(j) \/ KnowsPid(j)
  \/ WaitReturns(j) \/ Unlocks(j) \/ ToolEnds(j) \/ ProgramObeys(j)

StopStep(c) == StopFlags(c) \/ StopSignals(c)

ToolsNext ==
  \/ \E j \in Tools : ToolStarts(j) \/ ToolStep(j) \/ TimeIsUp(j) \/ ProgramEnds(j)
  \/ \E c \in Stoppers : StopStep(c) \/ \E j \in Tools : StopAsks(c, j)

\* Every job has ended or was refused, and so have the stops.
ToolsOver ==
  /\ \A j \in Tools : worker[j] \in {"refused", "over"}
  /\ \A c \in Stoppers : stopper[c].at \in {"stopped", "not stopped"}

ToolsSpec == ToolsInit /\ [][ToolsNext]_toolVars

-----------------------------------------------------------------------------
(* Properties.                                                             *)

ToolsTypeOK ==
  /\ worker \in [Tools -> {"idle", "refused", "begun", "locking", "launching", "launched",
                           "waiting", "done", "stopped", "failed", "timeout", "raised", "over"}]
  /\ state \in [Tools -> [port : BOOLEAN, pid : BOOLEAN, stop : BOOLEAN,
        status : {"none", "running", "done", "stopped", "failed", "timeout"}]]
  /\ program \in [Tools -> {"none", "alive", "signalled"} \cup Ended]
  /\ snifferLock \in Captures \cup {NoTool}
  /\ \A c \in Stoppers :
       /\ stopper[c].at \in {"idle", "flagging", "flagged", "stopped", "not stopped"}
       /\ stopper[c].job \in Tools \cup {NoTool}

\* Two captures never read one sniffer, although both starts may have returned
\* "running" (ble_sniffer.py:723-731, 749-757).
OneSnifferOwner ==
  Cardinality({j \in Captures : program[j] \in {"alive", "signalled"}}) <= 1

\* A job that is seen to have ended has left nothing behind: no program and no
\* lock, which would refuse every later capture.
EndedLeavesNothing ==
  \A j \in Tools : state[j].status \notin {"none", "running"} =>
    program[j] \notin {"alive", "signalled"} /\ snifferLock # j

\* A program that stop() killed is not reported as a fault of the program: the
\* flag is up before the signal (ble_sniffer.py:769-772, 849-853).
StopIsNotFault ==
  \A j \in Tools : state[j].status = "failed" => program[j] # "killed"

\* A stop that answers that it stopped a job has reached its program, also one without
\* a time limit (ble_sniffer.py:849-860).
StopsAreHeeded ==
  \A c \in Stoppers : stopper[c].at = "stopped" =>
    \E j \in Tools : stopper[c].job = j /\ program[j] # "alive"

\* A capture or grind runs alone, and is what its status says when it is over.
ToolsInv ==
  ToolsTypeOK /\ OneSnifferOwner /\ EndedLeavesNothing /\ StopIsNotFault /\ StopsAreHeeded

=============================================================================
