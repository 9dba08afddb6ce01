------------------------------- MODULE PioJobs -------------------------------
(***************************************************************************)
(* Builds and flashes that run in the background (jobs.py, build_start and *)
(* flash_start of flash.py), the userPrefs.jsonc they override for their   *)
(* duration (userprefs.py), and the build tree of the firmware checkout,   *)
(* which a build of the web application uses as well.                      *)
(*                                                                         *)
(* A job is a daemon thread; pio reads the preferences when it compiles.   *)
(* Nothing excludes two jobs from each other, so the window of one on the  *)
(* file may lie within or across that of another: the properties say what  *)
(* holds where that did not happen, and what holds anyway.                 *)
(***************************************************************************)
EXTENDS Naturals

CONSTANTS
  NoJob,
  JobIds,      \* jobs of the MCP server and builds of the web application
  MaxEdits,    \* calls of userprefs_set
  MaxJobDeaths \* deaths of the MCP server

ASSUME PioJobsAssumption ==
  MaxEdits \in Nat /\ MaxJobDeaths \in Nat /\ NoJob \notin JobIds

VARIABLES
  prefs,       \* the file: its own settings by their version, and the jobs
               \* whose overrides it carries
  tree,        \* the overrides the build tree was last compiled with
  kind,        \* "build", "flash" or "web"
  overrides,   \* whether a job has overrides
  at,          \* where a job's thread is
  original,    \* the content a job will write back, while it will
  status,      \* state["status"]
  portLock,    \* the lock of the port the flashes use
  edit,        \* the call of userprefs_set, and the file it has read
  edits,       \* settings that were set
  saw,         \* the overrides in the firmware a job made
  mixed,       \* a job wrote the file in the window of another, or an edit did,
               \* or the server died in one
  disturbed,   \* jobs in whose compilation another job had a hand
  unlogged,    \* jobs whose log could not be written
  jobDeaths

jobVars == <<prefs, tree, kind, overrides, at, original, status, portLock, edit,
             edits, saw, mixed, disturbed, unlogged, jobDeaths>>

Plain == [version |-> 0, over |-> {}]

JobsInit ==
  /\ prefs = Plain /\ tree = {}
  /\ kind = [j \in JobIds |-> "none"]
  /\ overrides = [j \in JobIds |-> FALSE]
  /\ at = [j \in JobIds |-> "idle"]
  /\ original = [j \in JobIds |-> Plain]
  /\ status = [j \in JobIds |-> "none"]
  /\ portLock = NoJob
  /\ edit = [at |-> "idle", file |-> Plain] /\ edits = 0
  /\ saw = [j \in JobIds |-> {}]
  /\ mixed = FALSE /\ disturbed = {} /\ unlogged = {} /\ jobDeaths = 0

JobGoes(j, step) == at' = [at EXCEPT ![j] = step]

\* A job has read the file and has yet to write it back.
InWindow(j) == overrides[j] /\ at[j] \in {"write", "compile", "restore", "restoreRaised"}

\* The file carries, or is about to lose, a job's overrides.
Overridden(j) == overrides[j] /\ at[j] \in {"compile", "restore", "restoreRaised"}

Elsewhere(j) == \E k \in JobIds \ {j} : InWindow(k)

-----------------------------------------------------------------------------
(* build_start, flash_start and jobs.start.                                *)

files == <<prefs, tree, original, edit, edits, saw>>
judgements == <<mixed, disturbed, unlogged, jobDeaths>>

Begins(j, k, step) ==
  /\ kind' = [kind EXCEPT ![j] = k]
  /\ JobGoes(j, step)
  /\ UNCHANGED <<files, judgements>>

BuildStart(j) ==
  /\ at[j] = "idle"
  /\ \E o \in BOOLEAN : overrides' = [overrides EXCEPT ![j] = o]
  /\ status' = [status EXCEPT ![j] = "running"]
  /\ Begins(j, "build", "begin")
  /\ UNCHANGED portLock

\* default_build_fn runs pio without overrides, and copies what it made.
WebBuild(j) ==
  /\ at[j] = "idle"
  /\ Begins(j, "web", "begin")
  /\ UNCHANGED <<overrides, status, portLock>>

\* The port is taken before there is a job.
FlashStart(j) ==
  /\ at[j] = "idle" /\ portLock = NoJob
  /\ portLock' = j
  /\ \E o \in BOOLEAN : overrides' = [overrides EXCEPT ![j] = o]
  /\ Begins(j, "flash", "start")
  /\ UNCHANGED status

FlashStarted(j) ==
  /\ at[j] = "start"
  /\ status' = [status EXCEPT ![j] = "running"]
  /\ JobGoes(j, "begin")
  /\ UNCHANGED <<files, judgements, kind, overrides, portLock>>

\* The directory of its log cannot be made.
FlashNotStarted(j) ==
  /\ at[j] = "start"
  /\ portLock' = NoJob
  /\ JobGoes(j, "gone")
  /\ UNCHANGED <<files, judgements, kind, overrides, status>>

-----------------------------------------------------------------------------
(* The worker: temporary_overrides around pio.                             *)

Unworked == <<kind, overrides, status, portLock, edit, edits, unlogged, jobDeaths>>

\* Without overrides the file is left alone.
PrefsRead(j) ==
  /\ at[j] = "begin"
  /\ original' = IF overrides[j] THEN [original EXCEPT ![j] = prefs] ELSE original
  /\ JobGoes(j, IF overrides[j] THEN "write" ELSE "compile")
  /\ UNCHANGED <<Unworked, prefs, tree, saw, mixed, disturbed>>

\* The file is missing, or a key is not one of the firmware's.
PrefsRefused(j) ==
  /\ at[j] \in {"begin", "write"} /\ overrides[j]
  /\ JobGoes(j, "raised")
  /\ UNCHANGED <<Unworked, files, mixed, disturbed>>

\* What was read is merged with the overrides.
PrefsWritten(j) ==
  /\ at[j] = "write"
  /\ prefs' = [original[j] EXCEPT !.over = @ \cup {j}]
  /\ mixed' = (mixed \/ Elsewhere(j) \/ edit.at = "write")
  /\ JobGoes(j, "compile")
  /\ UNCHANGED <<Unworked, tree, original, saw, disturbed>>

\* pio compiles with the preferences it finds, into the tree of the checkout.
PioRuns(j) ==
  /\ at[j] = "compile"
  /\ tree' = prefs.over
  /\ saw' = [saw EXCEPT ![j] = prefs.over]
  /\ JobGoes(j, IF overrides[j] THEN "restore" ELSE IF kind[j] = "web" THEN "copy" ELSE "after")
  /\ disturbed' = disturbed \cup (IF \E k \in JobIds \ {j} : Overridden(k) THEN {j} ELSE {})
                            \cup {k \in JobIds : at[k] = "copy"}
  /\ UNCHANGED <<Unworked, prefs, original, mixed>>

\* Fault: only a pio that returned has the file restored.
PioTimesOutUnrestored(j) ==
  /\ at[j] = "compile"
  /\ JobGoes(j, "raised")
  /\ UNCHANGED <<Unworked, files, mixed, disturbed>>

\* pio does not return in time, or cannot be run.
PioTimesOut(j) ==
  /\ at[j] = "compile"
  /\ JobGoes(j, IF overrides[j] THEN "restoreRaised" ELSE "raised")
  /\ UNCHANGED <<Unworked, files, mixed, disturbed>>

PrefsRestored(j) ==
  /\ at[j] \in {"restore", "restoreRaised"}
  /\ prefs' = original[j]
  /\ original' = [original EXCEPT ![j] = Plain]
  /\ mixed' = (mixed \/ Elsewhere(j) \/ edit.at = "write")
  /\ JobGoes(j, IF at[j] = "restore" THEN "after" ELSE "raised")
  /\ UNCHANGED <<Unworked, tree, saw, disturbed>>

WebCopies(j) ==
  /\ at[j] = "copy"
  /\ saw' = [saw EXCEPT ![j] = tree]
  /\ JobGoes(j, "gone")
  /\ UNCHANGED <<Unworked, prefs, tree, original, edit, edits, mixed, disturbed>>

-----------------------------------------------------------------------------
(* The end of a job.                                                       *)

Ending == <<files, judgements, kind, overrides>>

\* Fault: only a flash whose pio returned gives the port back.
FlashReleasesAtEnd(j) ==
  /\ at[j] \in {"after", "raised"}
  /\ portLock' = IF kind[j] = "flash" /\ at[j] = "after" THEN NoJob ELSE portLock
  /\ JobGoes(j, IF kind[j] = "web" THEN "gone" ELSE IF at[j] = "after" THEN "log" ELSE "handler")
  /\ UNCHANGED <<Ending, status>>

\* A flash gives the port back however its pio ended.
PioLeft(j) ==
  /\ at[j] \in {"after", "raised"}
  /\ portLock' = IF kind[j] = "flash" THEN NoJob ELSE portLock
  /\ JobGoes(j, IF kind[j] = "web" THEN "gone" ELSE IF at[j] = "after" THEN "log" ELSE "handler")
  /\ UNCHANGED <<Ending, status>>

Settles(j) ==
  /\ \E s \in (IF at[j] = "log" THEN {"done", "failed"} ELSE {"failed"}) :
       status' = [status EXCEPT ![j] = s]
  /\ JobGoes(j, "gone")

\* The worker writes its log and then its status; jobs.start does the same for
\* a worker that raised.
JobSettles(j) ==
  /\ at[j] \in {"log", "handler"}
  /\ Settles(j)
  /\ UNCHANGED <<Ending, portLock>>

LogFails(j) ==
  /\ at[j] = "log"
  /\ JobGoes(j, "handler")
  /\ UNCHANGED <<Ending, status, portLock>>

\* The handler writes the log before the status: where it cannot, the thread
\* ends, and the job is running for ever.
HandlerFails(j) ==
  /\ at[j] = "handler"
  /\ JobGoes(j, "gone")
  /\ unlogged' = unlogged \cup {j}
  /\ UNCHANGED <<files, mixed, disturbed, jobDeaths, kind, overrides, status, portLock>>

-----------------------------------------------------------------------------
(* userprefs_set, and the death of the server.                             *)

jobsIdle == <<tree, kind, overrides, at, original, status, portLock, saw, disturbed,
              unlogged, jobDeaths>>

EditReads ==
  /\ edit.at = "idle" /\ edits < MaxEdits
  /\ edit' = [at |-> "write", file |-> prefs]
  /\ mixed' = (mixed \/ \E j \in JobIds : InWindow(j))
  /\ UNCHANGED <<jobsIdle, prefs, edits>>

EditWrites ==
  /\ edit.at = "write"
  /\ prefs' = [edit.file EXCEPT !.version = @ + 1]
  /\ edits' = edits + 1
  /\ edit' = [at |-> "idle", file |-> Plain]
  /\ mixed' = (mixed \/ \E j \in JobIds : InWindow(j))
  /\ UNCHANGED jobsIdle

\* The jobs die with the server, those of the web application do not.
ServerDies ==
  /\ jobDeaths < MaxJobDeaths
  /\ jobDeaths' = jobDeaths + 1
  /\ at' = [j \in JobIds |-> IF kind[j] \in {"build", "flash"} THEN "gone" ELSE at[j]]
  /\ status' = [j \in JobIds |-> "none"]
  /\ portLock' = NoJob
  /\ edit' = [at |-> "idle", file |-> Plain]
  /\ original' = [j \in JobIds |-> Plain]
  /\ mixed' = (mixed \/ \E j \in JobIds : Overridden(j))
  /\ UNCHANGED <<prefs, tree, kind, overrides, edits, saw, disturbed, unlogged>>

-----------------------------------------------------------------------------
JobNext(j) ==
  \/ FlashStarted(j) \/ PrefsRead(j) \/ PrefsRefused(j) \/ PrefsWritten(j)
  \/ PioRuns(j) \/ PioTimesOut(j) \/ PrefsRestored(j) \/ WebCopies(j)
  \/ PioLeft(j) \/ JobSettles(j) \/ LogFails(j) \/ HandlerFails(j)

JobsNext ==
  \/ \E j \in JobIds :
       \/ BuildStart(j) \/ WebBuild(j) \/ FlashStart(j) \/ FlashNotStarted(j)
       \/ JobNext(j)
  \/ EditReads \/ EditWrites \/ ServerDies

JobsOver == \A j \in JobIds : at[j] = "gone"

JobsSpec == JobsInit /\ [][JobsNext]_jobVars

\* A thread that was started runs on.
JobsFairness == \A j \in JobIds : WF_jobVars(JobNext(j) \/ FlashNotStarted(j))

-----------------------------------------------------------------------------
(* Properties.                                                             *)

JobsTypeOK ==
  LET File == [version : 0..MaxEdits, over : SUBSET JobIds]
  IN  /\ prefs \in File /\ tree \subseteq JobIds
      /\ kind \in [JobIds -> {"none", "build", "flash", "web"}]
      /\ overrides \in [JobIds -> BOOLEAN]
      /\ at \in [JobIds -> {"idle", "start", "begin", "write", "compile", "restore",
                            "restoreRaised", "copy", "after", "raised", "log",
                            "handler", "gone"}]
      /\ original \in [JobIds -> File]
      /\ status \in [JobIds -> {"none", "running", "done", "failed"}]
      /\ portLock \in JobIds \cup {NoJob}
      /\ edit \in [at : {"idle", "write"}, file : File] /\ edits \in 0..MaxEdits
      /\ saw \in [JobIds -> SUBSET JobIds]
      /\ mixed \in BOOLEAN /\ disturbed \subseteq JobIds /\ unlogged \subseteq JobIds
      /\ jobDeaths \in 0..MaxJobDeaths

\* Where no window was disturbed, the file is what it was when no job runs, and
\* it carries a job's overrides exactly from its write to its restoration,
\* whether pio returned, raised or timed out (userprefs.py:488-494).
PrefsRestoredAlways ==
  ~mixed => /\ prefs.over = {j \in JobIds : Overridden(j)}
            /\ prefs.version = edits

\* A firmware carries its own overrides and nobody else's, and an image that the
\* web application caches carries none, though jobs failed or timed out before.
OwnOverrides ==
  ~mixed => \A j \in JobIds \ disturbed :
              at[j] \in {"restore", "copy", "after", "log"} \/ (kind[j] = "web" /\ at[j] = "gone")
                => saw[j] = IF overrides[j] THEN {j} ELSE {}

\* The port is held by a flash from before its job exists until its pio is over.
PortHeldByFlash ==
  \A j \in JobIds :
    portLock = j <=> kind[j] = "flash" /\ at[j] \notin {"idle", "log", "handler", "gone"}

\* No job disturbs the preferences, the port or the firmware of another.
JobsInv == JobsTypeOK /\ PrefsRestoredAlways /\ OwnOverrides /\ PortHeldByFlash

=============================================================================
