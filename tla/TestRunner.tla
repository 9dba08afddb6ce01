----------------------------- MODULE TestRunner -----------------------------
(***************************************************************************)
(* One pytest suite at a time, and the report it leaves                    *)
(* (web/services/test_runner.py).                                          *)
(*                                                                         *)
(* start() checks the run flag, makes the run row, raises the flag, frees  *)
(* the ports and hands over to the _drive task.  _drive spawns pytest,     *)
(* follows its report file with a tail task and clears the flag in a       *)
(* finally.  stop() terminates pytest; reset() kills it, cancels _drive    *)
(* and clears the flag itself.  A step is what the event loop runs between *)
(* two awaits; pytest is another process and writes when it likes.         *)
(*                                                                         *)
(* A run is one invocation of start().  Its report file is counted in half *)
(* lines: an odd count is a line pytest has not finished writing.          *)
(***************************************************************************)
EXTENDS Naturals, Sequences, Functions

CONSTANTS
  SuiteRuns,   \* invocations of start(); each is used once (bounds the model)
  NoRun,
  MaxEntries   \* entries pytest writes to a report (bounds the model)

ASSUME NoRunAssumption == NoRun \notin SuiteRuns
ASSUME EntriesAssumption == MaxEntries \in Nat

VARIABLES
  flag,        \* _state["running"]
  proc,        \* _state["proc"]: the run whose pytest stop() and reset() reach
  task,        \* self._task: the run whose _drive was created last
  runAt,       \* where start() and then _drive of a run are
  cancelled,   \* runs whose _drive has a cancellation to be delivered
  pytest,      \* the pytest process of each run
  written,     \* half lines in the report of each run
  done,        \* report_done of each run
  tail,        \* the tail task of each run
  saved,       \* the entries of each run recorded in the database, in order
  skipped      \* history: entries of each run that broke their own handling

suiteVars == <<flag, proc, task, runAt, cancelled, pytest, written, done, tail, saved, skipped>>

PC == {"idle", "checked", "suspending", "spawning", "driving", "draining",
       "finishing", "restoring", "done"}

\* at: where the task is; final: its snapshot of report_done; pos: complete
\* lines consumed; todo: lines of the last chunk not handled yet.
NoTail == [at |-> "off", final |-> FALSE, pos |-> 0, todo |-> 0]

SuiteInit ==
  /\ flag = FALSE /\ proc = NoRun /\ task = NoRun
  /\ runAt = [r \in SuiteRuns |-> "idle"]
  /\ cancelled = {}
  /\ pytest = [r \in SuiteRuns |-> "none"]
  /\ written = [r \in SuiteRuns |-> 0]
  /\ done = [r \in SuiteRuns |-> FALSE]
  /\ tail = [r \in SuiteRuns |-> NoTail]
  /\ saved = [r \in SuiteRuns |-> <<>>]
  /\ skipped = [r \in SuiteRuns |-> {}]

RunGoes(r, l) == runAt' = [runAt EXCEPT ![r] = l]

pytestVars == <<pytest, written>>
tailVars == <<done, tail, saved, skipped>>

-----------------------------------------------------------------------------
(* start()                                                                 *)

StartChecks(r) ==
  /\ runAt[r] = "idle"
  /\ ~flag
  /\ RunGoes(r, "checked")
  /\ UNCHANGED <<flag, proc, task, cancelled, pytestVars, tailVars>>

\* The fleet has been read and the run row made: the flag goes up.
StartCommits(r) ==
  /\ runAt[r] = "checked"
  /\ flag' = TRUE
  /\ RunGoes(r, "suspending")
  /\ UNCHANGED <<proc, task, cancelled, pytestVars, tailVars>>

\* suspend_all() returned, failed or timed out: pytest is launched anyway.
StartLaunches(r) ==
  /\ runAt[r] = "suspending"
  /\ task' = r
  /\ RunGoes(r, "spawning")
  /\ UNCHANGED <<flag, proc, cancelled, pytestVars, tailVars>>

-----------------------------------------------------------------------------
(* _drive                                                                  *)

\* The synchronous part of the finally, up to finish_run.
Finally(r) ==
  /\ flag' = FALSE
  /\ proc' = NoRun
  /\ RunGoes(r, "finishing")

DriveSpawns(r) ==
  /\ runAt[r] = "spawning" /\ r \notin cancelled
  /\ proc' = r
  /\ pytest' = [pytest EXCEPT ![r] = "alive"]
  /\ tail' = [tail EXCEPT ![r].at = "poll"]
  /\ RunGoes(r, "driving")
  /\ UNCHANGED <<flag, task, cancelled, written, done, saved, skipped>>

\* No pytest, a spawn that timed out, or a setup that raised.
SpawnFails(r) ==
  /\ runAt[r] = "spawning" /\ r \notin cancelled
  /\ Finally(r)
  /\ UNCHANGED <<task, cancelled, pytestVars, tailVars>>

\* Both pipes are closed and the process is reaped: the report is complete.
DriveSeesExit(r) ==
  /\ runAt[r] = "driving" /\ r \notin cancelled
  /\ pytest[r] = "exited"
  /\ done' = [done EXCEPT ![r] = TRUE]
  /\ RunGoes(r, "draining")
  /\ UNCHANGED <<flag, proc, task, cancelled, pytestVars, tail, saved, skipped>>

\* A pump raises, at a line beyond the buffer or a hub that fails: the finally comes
\* while pytest, its tail and its watchdog go on.
PumpFails(r) ==
  /\ runAt[r] = "driving" /\ r \notin cancelled
  /\ Finally(r)
  /\ UNCHANGED <<task, cancelled, pytestVars, tailVars>>

DriveEnds(r) ==
  /\ runAt[r] = "draining" /\ r \notin cancelled
  /\ tail[r].at = "returned"
  /\ Finally(r)
  /\ UNCHANGED <<task, cancelled, pytestVars, tailVars>>

\* The tail did not drain in time and is cancelled by the wait, or it died before.
DrainTimesOut(r) ==
  /\ runAt[r] = "draining" /\ r \notin cancelled
  /\ tail[r].at # "returned"
  /\ tail' = [tail EXCEPT ![r].at = "cancelled"]
  /\ Finally(r)
  /\ UNCHANGED <<task, cancelled, pytestVars, done, saved, skipped>>

\* A cancellation is delivered where the task waits.  In the drain it takes the
\* tail along; while pytest runs it does not, and nobody ends the tail.
DriveCancelled(r) ==
  /\ r \in cancelled
  /\ cancelled' = cancelled \ {r}
  /\ UNCHANGED <<task, pytestVars, done, saved, skipped>>
  /\ \/ /\ runAt[r] \in {"spawning", "driving", "draining"}
        /\ Finally(r)
        /\ tail' = [tail EXCEPT ![r].at = IF runAt[r] = "draining" THEN "cancelled" ELSE @]
     \/ /\ runAt[r] \in {"finishing", "restoring"}
        /\ RunGoes(r, "done")
        /\ UNCHANGED <<flag, proc, tail>>

\* finish_run, then resume_all and the unlink of the report.
FinallyGoesOn(r) ==
  /\ r \notin cancelled
  /\ \/ runAt[r] = "finishing" /\ RunGoes(r, "restoring")
     \/ runAt[r] = "restoring" /\ RunGoes(r, "done")
  /\ UNCHANGED <<flag, proc, task, cancelled, pytestVars, tailVars>>

-----------------------------------------------------------------------------
(* The pytest process, its watchdog, and the two ways to end it.           *)

PytestWrites(r) ==
  /\ pytest[r] = "alive"
  /\ written[r] < 2 * MaxEntries
  /\ written' = [written EXCEPT ![r] = @ + 1]
  /\ UNCHANGED <<flag, proc, task, runAt, cancelled, pytest, tailVars>>

PytestExits(r) ==
  /\ pytest[r] = "alive"
  /\ pytest' = [pytest EXCEPT ![r] = "exited"]
  /\ UNCHANGED <<flag, proc, task, runAt, cancelled, written, tailVars>>

\* A launch that wrote no report until the deadline is terminated, also when
\* _drive has gone.
WatchdogFires(r) ==
  /\ written[r] = 0
  /\ PytestExits(r)

Stop ==
  /\ proc # NoRun
  /\ PytestExits(proc)

Reset ==
  /\ flag' = FALSE
  /\ proc' = NoRun
  /\ pytest' = [r \in SuiteRuns |-> IF r = proc /\ pytest[r] = "alive" THEN "exited" ELSE pytest[r]]
  /\ cancelled' = cancelled \cup {r \in SuiteRuns : r = task /\ runAt[r] # "done"}
  /\ UNCHANGED <<task, runAt, written, tailVars>>

-----------------------------------------------------------------------------
(* _tail_report                                                            *)

\* Snapshot report_done, then read the complete lines beyond pos.  At the end
\* of _drive the report may be unlinked.  A read of it that raises ends
\* the task.
TailReads(r) ==
  /\ tail[r].at = "poll"
  /\ \/ \E complete \in {written[r] \div 2} \cup {n \in {tail[r].pos} : runAt[r] = "done"} :
          tail' = [tail EXCEPT ![r] = [at |-> "handle", final |-> done[r],
                     pos |-> complete, todo |-> complete - @.pos]]
     \/ written[r] > 0 /\ tail' = [tail EXCEPT ![r].at = "cancelled"]
  /\ UNCHANGED <<flag, proc, task, runAt, cancelled, pytestVars, done, saved, skipped>>

\* The line of the chunk in hand that comes next.
Entry(r) == tail[r].pos - tail[r].todo + 1

\* _handle_entry awaits the database: anything may happen between two entries.  A
\* line that is no JSON, or whose handling or write raises, is skipped.
TailHandles(r) ==
  /\ tail[r].at = "handle" /\ tail[r].todo > 0
  /\ tail' = [tail EXCEPT ![r].todo = @ - 1]
  /\ \/ saved' = [saved EXCEPT ![r] = Append(@, Entry(r))] /\ UNCHANGED skipped
     \/ skipped' = [skipped EXCEPT ![r] = @ \cup {Entry(r)}] /\ UNCHANGED saved
  /\ UNCHANGED <<flag, proc, task, runAt, cancelled, pytestVars, done>>

\* Fault: report_done is asked again after the chunk was handled.
TailLoopsUnsnapped(r) ==
  /\ tail[r].at = "handle" /\ tail[r].todo = 0
  /\ tail' = [tail EXCEPT ![r].at = IF done[r] THEN "returned" ELSE "poll"]
  /\ UNCHANGED <<flag, proc, task, runAt, cancelled, pytestVars, done, saved, skipped>>

TailLoops(r) ==
  /\ tail[r].at = "handle" /\ tail[r].todo = 0
  /\ tail' = [tail EXCEPT ![r].at = IF tail[r].final THEN "returned" ELSE "poll"]
  /\ UNCHANGED <<flag, proc, task, runAt, cancelled, pytestVars, done, saved, skipped>>

-----------------------------------------------------------------------------
StartStep(r) == StartCommits(r) \/ StartLaunches(r)

DriveStep(r) ==
  \/ DriveSpawns(r) \/ SpawnFails(r) \/ DriveSeesExit(r) \/ PumpFails(r)
  \/ DriveEnds(r) \/ DrainTimesOut(r) \/ DriveCancelled(r) \/ FinallyGoesOn(r)

TailStep(r) == TailReads(r) \/ TailHandles(r) \/ TailLoops(r)

SuiteNext ==
  \/ \E r \in SuiteRuns : StartChecks(r) \/ StartStep(r) \/ DriveStep(r) \/ TailStep(r)
  \/ \E r \in SuiteRuns : PytestWrites(r) \/ PytestExits(r) \/ WatchdogFires(r)
  \/ Stop
  \/ Reset

SuiteSpec == SuiteInit /\ [][SuiteNext]_suiteVars

(***************************************************************************)
(* Coroutines that can run do.  A silent launch meets its watchdog; that a *)
(* pytest which has begun to report exits is an assumption about the suite *)
(* (every test in it has a timeout).  Nobody has to call stop() or reset().*)
(***************************************************************************)
SuiteFairness ==
  \A r \in SuiteRuns :
    /\ WF_suiteVars(StartStep(r) \/ DriveStep(r))
    /\ WF_suiteVars(TailStep(r))
    /\ WF_suiteVars(PytestExits(r))

SuiteFairSpec == SuiteSpec /\ SuiteFairness

-----------------------------------------------------------------------------
(* Properties.                                                             *)

SuiteTypeOK ==
  /\ flag \in BOOLEAN
  /\ proc \in SuiteRuns \cup {NoRun} /\ task \in SuiteRuns \cup {NoRun}
  /\ runAt \in [SuiteRuns -> PC]
  /\ cancelled \subseteq SuiteRuns
  /\ pytest \in [SuiteRuns -> {"none", "alive", "exited"}]
  /\ written \in [SuiteRuns -> 0 .. 2 * MaxEntries]
  /\ done \in [SuiteRuns -> BOOLEAN]
  /\ tail \in [SuiteRuns -> [at : {"off", "poll", "handle", "returned", "cancelled"},
                        final : BOOLEAN, pos : 0 .. MaxEntries, todo : 0 .. MaxEntries]]
  /\ saved \in [SuiteRuns -> Seq(1 .. MaxEntries)]
  /\ skipped \in [SuiteRuns -> SUBSET (1 .. MaxEntries)]

\* Entries are recorded in the order pytest wrote them and none twice, although a
\* poll may read half a line, and of those consumed only one that broke its own
\* handling is missing: a bad entry takes no other with it
\* (test_runner.py:499-503, 511-517).
SavedInOrder ==
  \A r \in SuiteRuns :
    /\ \A i, j \in DOMAIN saved[r] : i < j => saved[r][i] < saved[r][j]
    /\ Range(saved[r]) \cup skipped[r] = 1 .. tail[r].pos - tail[r].todo

\* A tail that returned has recorded or skipped every complete line of the report,
\* also those written while it was busy with earlier ones: the snapshot before the
\* read misses nothing (test_runner.py:492-494).
DrainMissesNothing ==
  \A r \in SuiteRuns : tail[r].at = "returned" =>
    Range(saved[r]) \cup skipped[r] = 1 .. written[r] \div 2

\* The flag is up only while some run is still going to take it down, whatever
\* overlapping starts, failed launches, failing pumps and resets there were
\* (test_runner.py:324-327).
FlagHasOwner ==
  flag => \E r \in SuiteRuns : runAt[r] \in {"suspending", "spawning", "driving", "draining"}

\* What a run leaves of itself: its entries but for those that cannot be handled,
\* in order, and no raised flag.
SuiteInv == SuiteTypeOK /\ SavedInOrder /\ DrainMissesNothing /\ FlagHasOwner

\* A single harness runs one suite at a time (test_runner.py:97).
OneSuiteAtATime ==
  \A r, s \in SuiteRuns : pytest[r] = "alive" /\ pytest[s] = "alive" => r = s

=============================================================================
