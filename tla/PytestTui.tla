-------------------------------- MODULE PytestTui --------------------------------
(***************************************************************************)
(* The terminal runner of the test suite (cli/test_tui.py): pytest writes  *)
(* its report log, a thread tails the file and posts each event, a second  *)
(* one waits for pytest, a third one polls the devices, and the UI thread  *)
(* handles the messages in the order of their posting, re-runs a focused   *)
(* test, and is asked to quit, which a fourth thread escalates.            *)
(*                                                                         *)
(* Each spawn of pytest has a report log of its own: the path is unlinked  *)
(* before the re-run.  Left out: the output panes, the other tails, the    *)
(* layout, and the history record of a finished run.                       *)
(***************************************************************************)
EXTENDS Integers, Sequences, FiniteSets, Functions

CONSTANTS
  NoTest,
  Tests,        \* nodeids of one tier, in the order pytest runs them
  SetupOutcomes, CallOutcomes,   \* the outcomes of a setup and of a call that occur
  MaxRuns,      \* spawns of pytest
  MaxFlakes,    \* re-runs by pytest-rerunfailures
  MaxQueue      \* messages the UI is behind the tail

ASSUME TuiAssumption ==
  /\ Tests \in Seq(Range(Tests)) /\ NoTest \notin Range(Tests)
  /\ MaxRuns \in Nat \ {0} /\ MaxFlakes \in Nat
  /\ MaxQueue \in Nat \ {0}
  /\ SetupOutcomes \cup CallOutcomes \subseteq {"passed", "failed", "skipped"}

Outcomes == {"passed", "failed", "skipped"}
Nodeids == Range(Tests)
Runs == 1..MaxRuns

VARIABLES
  run,          \* the number of the last spawn
  child,        \* pytest: "runs" or "exited"
  signal,       \* sent to its process group: "none", "int", "term", "kill"
  todo,         \* tests it still has to run
  now,          \* the test whose body it runs
  collected, flakes,
  file,         \* per run, the events of its report log
  path,         \* the run whose report log is at the path, or 0
  fd,           \* the run whose report log the tail has open, 0, or -1: gave up
  pos,          \* events it has read
  torn,         \* tests an event of which the tail read in pieces
  mailbox,      \* messages posted to the app
  ui,           \* "idle", "finishing" (in on_run_finished), "exited", "crashed"
  leaves,       \* leaves: test -> outcome, or "absent"
  counters,     \* the counters of the tier
  running,      \* running_nodeid
  runActive, exitCode,   \* run_active; exit_code is not None
  poll,         \* the device poller: "polls", "waits", "decided"
  trigger,
  stale,        \* no poll has begun since the last run ended
  sigints,      \* _sigint_count
  escalator,    \* "none", "grace", "term", "calls" (call_from_thread)
  respawned     \* a re-run was begun after a quit

tuiVars == <<run, child, signal, todo, now, collected, flakes, file, path, fd, pos, torn, mailbox,
             ui, leaves, counters, running, runActive, exitCode, poll, trigger, stale, sigints,
             escalator, respawned>>

pytestVars == <<todo, now, collected, flakes>>
tailVars == <<fd, pos, torn>>
shownVars == <<leaves, counters, running>>
pollVars == <<poll, trigger, stale>>
quitVars == <<sigints, escalator, respawned>>

NoCounts == [passed |-> 0, failed |-> 0, skipped |-> 0, pending |-> 0]

\* The app is mounted: the threads are started and pytest is spawned.
TuiFresh ==
  /\ run = 1 /\ signal = "none"
  /\ todo = Tests /\ now = NoTest /\ collected = FALSE /\ flakes = 0
  /\ file = [r \in Runs |-> <<>>] /\ path = 0
  /\ fd = 0 /\ pos = 0 /\ torn = {}
  /\ mailbox = <<>>
  /\ leaves = [t \in Nodeids |-> "absent"] /\ counters = NoCounts /\ running = NoTest
  /\ runActive = TRUE /\ exitCode = FALSE
  /\ poll = "polls" /\ trigger = FALSE /\ stale = TRUE
  /\ sigints = 0 /\ escalator = "none" /\ respawned = FALSE

TuiInit == TuiFresh /\ ui = "idle" /\ child = "runs"

Up == ui \in {"idle", "finishing"}

-----------------------------------------------------------------------------
(* pytest and its report log; what it does after the app is of no interest. *)

Writes(when, t, outcome) ==
  file' = [file EXCEPT ![run] = Append(@, [when |-> when, test |-> t, outcome |-> outcome])]

procVars == <<run, child, signal>>
appVars == <<mailbox, ui, shownVars, runActive, exitCode, pollVars, quitVars>>

PytestOpensLog ==
  /\ child = "runs" /\ Up /\ path # run
  /\ path' = run
  /\ UNCHANGED <<procVars, pytestVars, file, tailVars, appVars>>

PytestCollects ==
  /\ child = "runs" /\ Up /\ path = run /\ ~collected
  /\ collected' = TRUE
  /\ file' = [file EXCEPT ![run] = @ \o [i \in DOMAIN todo |->
                [when |-> "collect", test |-> todo[i], outcome |-> "passed"]]]
  /\ UNCHANGED <<procVars, todo, now, flakes, path, tailVars, appVars>>

\* A fixture lets the body begin, fails, or skips the test.
PytestSetsUp ==
  /\ child = "runs" /\ Up /\ collected /\ now = NoTest /\ todo # <<>>
  /\ \E outcome \in SetupOutcomes :
       /\ Writes("setup", Head(todo), outcome)
       /\ IF outcome = "passed" THEN now' = Head(todo) /\ UNCHANGED todo
          ELSE todo' = Tail(todo) /\ UNCHANGED now
  /\ UNCHANGED <<procVars, collected, flakes, path, tailVars, appVars>>

PytestCalls ==
  /\ child = "runs" /\ Up /\ now # NoTest
  /\ \/ /\ \E outcome \in CallOutcomes : Writes("call", now, outcome)
        /\ todo' = Tail(todo) /\ UNCHANGED flakes
     \/ /\ flakes < MaxFlakes
        /\ Writes("call", now, "rerun")
        /\ flakes' = flakes + 1 /\ UNCHANGED todo
  /\ now' = NoTest
  /\ UNCHANGED <<procVars, collected, path, tailVars, appVars>>

\* When it is done or has been signalled, whatever it was doing.  The thread that
\* waits for it posts its exit.
PytestExits ==
  /\ child = "runs" /\ (signal # "none" \/ (collected /\ todo = <<>>))
  /\ child' = "exited"
  /\ mailbox' = Append(mailbox, [when |-> "exit", test |-> NoTest, outcome |-> "passed"])
  /\ UNCHANGED <<run, signal, pytestVars, file, path, tailVars, ui, shownVars, runActive,
                 exitCode, pollVars, quitVars>>

-----------------------------------------------------------------------------
(* ReportlogWorker.                                                        *)

TailOpens ==
  /\ Up /\ fd = 0 /\ path # 0
  /\ fd' = path /\ pos' = 0
  /\ UNCHANGED <<procVars, pytestVars, file, path, torn, appVars>>

\* No file in thirty seconds.
TailGivesUp ==
  /\ Up /\ fd = 0 /\ path = 0
  /\ fd' = -1
  /\ UNCHANGED <<procVars, pytestVars, file, path, pos, torn, appVars>>

TailReads ==
  /\ Up /\ fd > 0 /\ pos < Len(file[fd]) /\ Len(mailbox) < MaxQueue
  /\ pos' = pos + 1
  /\ mailbox' = Append(mailbox, file[fd][pos + 1])
  /\ UNCHANGED <<procVars, pytestVars, file, path, fd, torn, ui, shownVars, runActive, exitCode,
                 pollVars, quitVars>>

\* A long line, the report of a failure, is read while it is being written: neither
\* part parses, and the event is lost.
TailReadsTorn ==
  /\ Up /\ fd > 0 /\ pos < Len(file[fd]) /\ file[fd][pos + 1].outcome = "failed"
  /\ pos' = pos + 1
  /\ torn' = torn \cup {file[fd][pos + 1].test}
  /\ UNCHANGED <<procVars, pytestVars, file, path, fd, appVars>>

-----------------------------------------------------------------------------
(* The UI thread: messages.                                                *)

Takes == ui = "idle" /\ mailbox # <<>> /\ mailbox' = Tail(mailbox)

\* The bucket of an outcome in the counters.
Added(c, outcome, by) ==
  IF outcome \in DOMAIN c THEN [c EXCEPT ![outcome] = IF @ + by < 0 THEN 0 ELSE @ + by] ELSE c

\* _register_leaf.
HandleCollect ==
  /\ Takes /\ Head(mailbox).when = "collect"
  /\ LET t == Head(mailbox).test
     IN  IF leaves[t] = "absent"
         THEN /\ leaves' = [leaves EXCEPT ![t] = "pending"]
              /\ counters' = Added(counters, "pending", 1)
         ELSE UNCHANGED <<leaves, counters>>
  /\ UNCHANGED <<procVars, pytestVars, file, path, tailVars, ui, running, runActive, exitCode,
                 pollVars, quitVars>>

\* Phase 1: the test whose body is running.
Marks(e) ==
  running' = IF e.when = "setup" /\ e.outcome = "passed" THEN e.test
             ELSE IF running = e.test THEN NoTest ELSE running

\* _apply_outcome: out of the bucket of the previous outcome, into that of the new one.
Shows(t, outcome) ==
  /\ leaves' = [leaves EXCEPT ![t] = outcome]
  /\ counters' = Added(Added(counters, leaves[t], -1), outcome, 1)

\* Fault: a setup that fails or skips is no outcome.
TerminalOnlyCall(e) == e.when = "call" /\ e.outcome \in Outcomes

Terminal(e) ==
  \/ e.when = "call" /\ e.outcome \in Outcomes
  \/ e.when = "setup" /\ e.outcome \in {"failed", "skipped"}

HandleReport ==
  /\ Takes /\ Head(mailbox).when \in {"setup", "call"}
  /\ LET e == Head(mailbox)
     IN  /\ Marks(e)
         /\ IF Terminal(e) THEN Shows(e.test, e.outcome)
            ELSE IF e.outcome = "rerun" THEN Shows(e.test, "pending")
            ELSE UNCHANGED <<leaves, counters>>
  /\ UNCHANGED <<procVars, pytestVars, file, path, tailVars, ui, runActive, exitCode, pollVars,
                 quitVars>>

\* on_run_finished, between whose two writes the poller may run.
Finish(first) ==
  IF first THEN runActive' = FALSE /\ exitCode' = TRUE /\ UNCHANGED trigger
  ELSE trigger' = TRUE /\ UNCHANGED <<runActive, exitCode>>

HandleExit ==
  /\ Takes /\ Head(mailbox).when = "exit"
  /\ ui' = "finishing" /\ Finish(TRUE)
  /\ UNCHANGED <<procVars, pytestVars, file, path, tailVars, shownVars, poll, stale, quitVars>>

ExitHandled ==
  /\ ui = "finishing"
  /\ ui' = "idle" /\ Finish(FALSE)
  /\ UNCHANGED <<procVars, pytestVars, file, path, tailVars, mailbox, shownVars, poll, stale,
                 quitVars>>

-----------------------------------------------------------------------------
(* The device poller.                                                      *)

PollEnds ==
  /\ Up /\ poll = "polls"
  /\ poll' = "waits"
  /\ UNCHANGED <<procVars, pytestVars, file, path, tailVars, mailbox, ui, shownVars, runActive,
                 exitCode, trigger, stale, quitVars>>

PollWakes ==
  /\ Up /\ poll = "waits" /\ trigger
  /\ trigger' = FALSE
  /\ poll' = IF runActive THEN "waits" ELSE "decided"
  /\ UNCHANGED <<procVars, pytestVars, file, path, tailVars, mailbox, ui, shownVars, runActive,
                 exitCode, stale, quitVars>>

\* The run that may have begun since the look at run_active is not seen.
PollBegins ==
  /\ Up /\ poll = "decided"
  /\ poll' = "polls" /\ stale' = FALSE
  /\ UNCHANGED <<procVars, pytestVars, file, path, tailVars, mailbox, ui, shownVars, runActive,
                 exitCode, trigger, quitVars>>

-----------------------------------------------------------------------------
(* Keys.                                                                   *)

Resets ==
  /\ leaves' = [t \in Nodeids |-> "absent"] /\ running' = NoTest
  /\ counters' = NoCounts

Spawned == runActive' = TRUE /\ exitCode' = FALSE

\* r on a leaf: _reset_for_rerun unlinks the report log, _spawn_pytest follows.
RerunFocused(t) ==
  /\ ui = "idle" /\ ~runActive /\ run < MaxRuns /\ leaves[t] # "absent"
  /\ Resets
  /\ path' = 0
  /\ run' = run + 1 /\ child' = "runs" /\ signal' = "none"
  /\ todo' = <<t>> /\ now' = NoTest /\ collected' = FALSE /\ UNCHANGED flakes
  /\ Spawned /\ stale' = TRUE
  /\ respawned' = (respawned \/ sigints > 0)
  /\ UNCHANGED <<file, tailVars, mailbox, ui, poll, trigger, sigints, escalator>>

\* q.  The second one kills the group and asks for the clean-up from the UI's own
\* thread, which call_from_thread refuses.
Quit ==
  /\ ui = "idle"
  /\ \/ /\ child = "exited"
        /\ ui' = "exited"
        /\ UNCHANGED <<signal, sigints, escalator>>
     \/ /\ child = "runs" /\ sigints = 0
        /\ sigints' = 1 /\ signal' = "int" /\ escalator' = "grace"
        /\ UNCHANGED ui
     \/ /\ child = "runs" /\ sigints > 0
        /\ sigints' = 2 /\ signal' = "kill" /\ ui' = "crashed"
        /\ UNCHANGED escalator
  /\ UNCHANGED <<run, child, pytestVars, file, path, tailVars, mailbox, shownVars, runActive,
                 exitCode, pollVars, respawned>>

escalates == <<run, child, pytestVars, file, path, tailVars, mailbox, shownVars, runActive, exitCode,
               pollVars, sigints, respawned>>

EscalatorSees ==
  /\ Up /\ escalator \in {"grace", "term"} /\ child = "exited"
  /\ escalator' = "calls"
  /\ UNCHANGED <<signal, ui, escalates>>

EscalatorTerms ==
  /\ Up /\ escalator = "grace" /\ child = "runs"
  /\ escalator' = "term" /\ signal' = "term"
  /\ UNCHANGED <<ui, escalates>>

EscalatorKills ==
  /\ Up /\ escalator = "term" /\ child = "runs"
  /\ escalator' = "calls" /\ signal' = "kill"
  /\ UNCHANGED <<ui, escalates>>

\* _cleanup_and_exit, called on the UI thread.
CleansUp ==
  /\ ui = "idle" /\ escalator = "calls"
  /\ ui' = "exited"
  /\ UNCHANGED <<signal, escalator, escalates>>

-----------------------------------------------------------------------------
UiHandles == HandleCollect \/ HandleReport \/ HandleExit \/ ExitHandled
TailRuns == TailOpens \/ TailReads
PollRuns == PollEnds \/ PollWakes \/ PollBegins
EscalatorRuns == EscalatorSees \/ EscalatorTerms \/ EscalatorKills \/ CleansUp
PytestRuns == PytestOpensLog \/ PytestCollects \/ PytestSetsUp \/ PytestCalls

TuiNext ==
  \/ PytestRuns \/ PytestExits \/ TailRuns \/ TailGivesUp \/ TailReadsTorn
  \/ UiHandles \/ PollRuns \/ EscalatorRuns \/ Quit
  \/ \E t \in Nodeids : RerunFocused(t)

\* Every thread of the app goes on; pytest may hang, unless it was killed.
TuiFairness ==
  /\ WF_tuiVars(TailRuns) /\ WF_tuiVars(UiHandles) /\ WF_tuiVars(PollRuns)
  /\ WF_tuiVars(EscalatorSees \/ EscalatorTerms \/ EscalatorKills) /\ WF_tuiVars(CleansUp)

TuiSpec == TuiInit /\ [][TuiNext]_tuiVars /\ TuiFairness

-----------------------------------------------------------------------------
(* Properties.                                                             *)

Message == [when : {"collect", "setup", "call", "exit"}, test : Nodeids \cup {NoTest},
            outcome : Outcomes \cup {"rerun"}]

TuiTypeOK ==
  /\ run \in Runs /\ child \in {"runs", "exited"} /\ signal \in {"none", "int", "term", "kill"}
  /\ todo \in Seq(Nodeids) /\ now \in Nodeids \cup {NoTest}
  /\ collected \in BOOLEAN /\ flakes \in 0..MaxFlakes
  /\ \A r \in Runs : file[r] \in Seq(Message)
  /\ path \in 0..run /\ fd \in -1..run /\ pos \in Nat /\ torn \subseteq Nodeids
  /\ mailbox \in Seq(Message)
  /\ ui \in {"idle", "finishing", "exited", "crashed"}
  /\ leaves \in [Nodeids -> Outcomes \cup {"absent", "pending"}]
  /\ counters \in [DOMAIN NoCounts -> Nat]
  /\ running \in Nodeids \cup {NoTest}
  /\ runActive \in BOOLEAN /\ exitCode \in BOOLEAN /\ ~(runActive /\ exitCode)
  /\ poll \in {"polls", "waits", "decided"} /\ trigger \in BOOLEAN /\ stale \in BOOLEAN
  /\ sigints \in 0..2 /\ escalator \in {"none", "grace", "term", "calls"}
  /\ respawned \in BOOLEAN

\* The counters of the tier are those of its leaves, through fixtures that fail,
\* tests that are run again, a reset, and events that arrive after it.
CountersMatchLeaves ==
  \A o \in DOMAIN NoCounts : counters[o] = Cardinality({t \in Nodeids : leaves[t] = o})

\* What pytest last reported of a test in the log the tail reads, but for a setup
\* that let the body begin.
Reported(t) ==
  LET says == {i \in DOMAIN file[fd] :
                 /\ file[fd][i].test = t
                 /\ file[fd][i].when = "call" \/ file[fd][i].outcome # "passed"}
      last == CHOOSE i \in says : \A j \in says : j <= i
  IN  IF says = {} THEN "none"
      ELSE IF file[fd][last].outcome = "rerun" THEN "pending" ELSE file[fd][last].outcome

\* When the first run's log has been read and its events are handled, a test shows
\* what pytest reported of it, unless that report was torn.
ShownAsReported ==
  run = 1 /\ fd = 1 /\ pos = Len(file[1]) /\ mailbox = <<>> =>
    \A t \in Nodeids \ torn : Reported(t) = "none" \/ leaves[t] = Reported(t)

\* A run leaves the app's devices stale; when it is over they are polled again.
DevicesRefreshed == (exitCode /\ stale) ~> (~stale \/ runActive \/ ~Up)

\* pytest runs in a session of its own: it does not outlive the app, but for the
\* one that was spawned while a quit was under way.
NoOrphan == ~Up /\ child = "runs" => signal = "kill" \/ respawned

\* What the app shows is what pytest reports, and it leaves no pytest behind.
TuiInv == TuiTypeOK /\ CountersMatchLeaves /\ ShownAsReported /\ NoOrphan

\* A quit ends the app, also when pytest ignores every signal but SIGKILL.
QuitEnds == sigints > 0 ~> ~Up

\* The tail of a re-run sees its report log from the first byte
\* (test_tui.py:1842-1844): what it reports is shown in the end.
TailSeesNewFile ==
  \A r \in Runs \ {1} :
    (run = r /\ file[r] # <<>>) ~> (fd \in {r, -1} \/ ~Up)

=============================================================================
