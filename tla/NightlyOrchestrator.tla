------------------------- MODULE NightlyOrchestrator -------------------------
(***************************************************************************)
(* The nightly pipeline across process deaths (web/services/nightly.py     *)
(* with web/db/repo_nightly.py).                                           *)
(*                                                                         *)
(* A night is a row of nightly_runs.  The scheduler's tick or run_now      *)
(* creates the row and launches the pipeline, which records each step in   *)
(* the row, runs the suite, and finishes with a status and a report.  The  *)
(* process may die between any two database writes: what is in memory is   *)
(* lost, the rows stay, and the first tick after the next boot resumes the *)
(* newest unfinished night.                                                *)
(*                                                                         *)
(* One step is one database write, or a decision between two awaits.       *)
(* The git, build, recovery and soak work of a step changes none of the    *)
(* state here and is the time the pipeline spends at "work".               *)
(***************************************************************************)
EXTENDS Naturals, Sequences, FiniteSets, SequencesExt

CONSTANTS
  MaxNights,   \* rows that are created (bounds the model)
  MaxSlots,    \* scheduled slots that come round (bounds the model)
  MaxDeaths,   \* deaths of the process (bounds the model)
  Manual       \* is run_now called?

ASSUME BoundsAssumption == MaxNights \in Nat /\ MaxSlots \in Nat /\ MaxDeaths \in Nat
ASSUME ManualAssumption == Manual \in BOOLEAN

VARIABLES
  \* in the database
  nights,      \* nightly_runs, by id
  \* in memory
  up,          \* the server is running
  resumed,     \* _resume_checked
  tick,        \* where the scheduler coroutine is
  runNow,      \* where a run_now() call is
  lock,        \* who is inside _launch_lock
  pipe,        \* the pipeline task
  cancel,      \* the _cancel event
  bench,       \* whose test run has the run flag up
  pending,     \* a tests_start call that asked before the pipeline began
  suite,       \* the pipeline's last suite: its run row, and the night linked to it
  \* outside
  slot,        \* scheduled slots that have come round
  deaths

memory == <<up, resumed, tick, runNow, lock, pipe, cancel, bench, pending, suite>>
nightVars == <<nights, memory, slot, deaths>>

Steps == <<"self_update", "firmware_update", "prebuild", "bench_check", "suite", "soak">>
MainSteps == Range(Steps)
Index(step) == CHOOSE i \in DOMAIN Steps : Steps[i] = step
\* Fault: a night that waits for its restart is not looked for.
UnfinishedRunning == {"running"}
Unfinished == {"running", "awaiting_restart"}
Finished == {"passed", "failed", "error", "canceled"}

\* run: the suite run the row links to; launches is history, the times the
\* suite of this night was started.
NewNight(s) ==
  [slot |-> s, status |-> "running", step |-> "none", run |-> "none",
   attempts |-> 0, report |-> FALSE, launches |-> 0]

Idle == [at |-> "idle", night |-> 0, resume |-> "none"]
NoPipe == [at |-> "none", night |-> 0, step |-> "none", ran |-> FALSE, ok |-> TRUE,
           outcome |-> "error"]

NoSuite == [run |-> "none", night |-> 0]

Active == pipe.at # "none"

Fresh ==
  /\ nights = <<>>
  /\ up = TRUE
  /\ runNow = Idle /\ lock = "free"
  /\ pipe = NoPipe /\ cancel = FALSE
  /\ bench = "free" /\ pending = FALSE /\ suite = NoSuite
  /\ slot = 0 /\ deaths = 0

NightInit == Fresh /\ resumed = FALSE /\ tick = Idle

\* What no coroutine of the orchestrator changes on its own.
World == <<bench, pending, suite, slot, deaths>>

Write(n, row) == nights' = [nights EXCEPT ![n] = row]

-----------------------------------------------------------------------------
(* _launch                                                                 *)

\* The verdict of a night whose suite was not run by this process.
PersistedOk(n) == nights[n].run \in {"none", "ok"}

Begin(n, resume) ==
  /\ cancel' = FALSE
  /\ pipe' = IF resume = "finalize"
             THEN [NoPipe EXCEPT !.at = "recover", !.night = n,
                     !.outcome = IF PersistedOk(n) THEN "passed" ELSE "failed"]
             ELSE [NoPipe EXCEPT !.at = "gate", !.night = n, !.step = resume]

\* A second launch raises in its caller and changes nothing.
Launch(n, resume) ==
  IF Active THEN UNCHANGED <<pipe, cancel>> ELSE Begin(n, resume)

-----------------------------------------------------------------------------
(* _tick: resume once per boot, then the schedule.                         *)

UnfinishedNights == {n \in DOMAIN nights : nights[n].status \in Unfinished}
LatestUnfinished(n) == n \in UnfinishedNights /\ \A m \in UnfinishedNights : m <= n

\* Fault: a step after the suite is not a token the resume knows.
ResumeAtUnknown(step) == IF step \in MainSteps THEN step ELSE "self_update"

ResumeAt(step) == IF step \in {"bench_recover", "handoff", "done"} THEN "finalize"
                  ELSE IF step \in MainSteps THEN step ELSE "self_update"

\* _resume_checked is set and the newest unfinished row read.
TickReadsUnfinished ==
  /\ up /\ ~resumed /\ tick.at = "idle"
  /\ resumed' = TRUE
  /\ \/ UnfinishedNights = {} /\ UNCHANGED tick
     \/ \E n \in UnfinishedNights :
          /\ LatestUnfinished(n)
          /\ tick' = IF nights[n].status = "awaiting_restart"
                     THEN [at |-> "reviving", night |-> n, resume |-> "firmware_update"]
                     ELSE IF nights[n].step = "suite"
                     THEN [at |-> "closing", night |-> n, resume |-> "suite"]
                     ELSE [at |-> "launching", night |-> n, resume |-> ResumeAt(nights[n].step)]
  /\ UNCHANGED <<nights, up, runNow, lock, pipe, cancel, World>>

TickRevives ==
  /\ up /\ tick.at = "reviving"
  /\ Write(tick.night, [nights[tick.night] EXCEPT !.status = "running"])
  /\ tick' = [tick EXCEPT !.at = "launching"]
  /\ UNCHANGED <<up, resumed, runNow, lock, pipe, cancel, World>>

\* The linked run has nobody left to finish it: closed without an exit code.
TickClosesRun ==
  /\ up /\ tick.at = "closing"
  /\ Write(tick.night, [nights[tick.night] EXCEPT !.run = IF @ = "open" THEN "bad" ELSE @])
  /\ tick' = [tick EXCEPT !.at = "bumping"]
  /\ UNCHANGED <<up, resumed, runNow, lock, pipe, cancel, World>>

\* Fault: one crash too many before the suite is given up.
TickBumpsLate ==
  /\ up /\ tick.at = "bumping"
  /\ Write(tick.night, [nights[tick.night] EXCEPT !.attempts = @ + 1])
  /\ tick' = [tick EXCEPT !.at = "launching",
                !.resume = IF nights'[tick.night].attempts > 2 THEN "finalize" ELSE "suite"]
  /\ UNCHANGED <<up, resumed, runNow, lock, pipe, cancel, World>>

TickBumps ==
  /\ up /\ tick.at = "bumping"
  /\ Write(tick.night, [nights[tick.night] EXCEPT !.attempts = @ + 1])
  /\ tick' = [tick EXCEPT !.at = "launching",
                !.resume = IF nights'[tick.night].attempts >= 2 THEN "finalize" ELSE "suite"]
  /\ UNCHANGED <<up, resumed, runNow, lock, pipe, cancel, World>>

TickLaunches ==
  /\ up /\ tick.at = "launching"
  /\ Launch(tick.night, tick.resume)
  /\ tick' = Idle
  /\ lock' = IF lock = "tick" THEN "free" ELSE lock
  /\ UNCHANGED <<nights, up, resumed, runNow, World>>

TickLocks ==
  /\ up /\ resumed /\ tick.at = "idle"
  /\ ~Active /\ lock = "free"
  /\ lock' = "tick"
  /\ tick' = [Idle EXCEPT !.at = "deciding"]
  /\ UNCHANGED <<nights, up, resumed, runNow, pipe, cancel, World>>

\* last_scheduled_for: a manual night has slot 0 and does not count.
LastScheduledBefore(s) == \A n \in DOMAIN nights : nights[n].slot < s

\* Fault: the slot last attempted is due again.
DueAgain == slot > 0 /\ LastScheduledBefore(slot + 1)

\* due_slot within the catch-up window; a slot missed altogether is one that the
\* next overtakes.
Due == slot > 0 /\ LastScheduledBefore(slot)

\* The row of a night that is due.
TickCreates ==
  /\ up /\ tick.at = "deciding"
  /\ \/ /\ Due
        /\ Len(nights) < MaxNights
        /\ nights' = Append(nights, NewNight(slot))
        /\ tick' = [at |-> "launching", night |-> Len(nights) + 1, resume |-> "none"]
        /\ UNCHANGED lock
     \/ /\ ~Due \/ Len(nights) = MaxNights
        /\ tick' = Idle /\ lock' = "free"
        /\ UNCHANGED nights
  /\ UNCHANGED <<up, resumed, runNow, pipe, cancel, World>>

-----------------------------------------------------------------------------
(* run_now                                                                 *)

RunNowCreates ==
  /\ up /\ Manual /\ runNow.at = "idle"
  /\ lock = "free" /\ ~Active
  /\ Len(nights) < MaxNights
  /\ lock' = "runNow"
  /\ nights' = Append(nights, NewNight(0))
  /\ runNow' = [at |-> "launching", night |-> Len(nights) + 1, resume |-> "none"]
  /\ UNCHANGED <<up, resumed, tick, pipe, cancel, World>>

RunNowLaunches ==
  /\ up /\ runNow.at = "launching"
  /\ Launch(runNow.night, runNow.resume)
  /\ runNow' = Idle /\ lock' = "free"
  /\ UNCHANGED <<nights, up, resumed, tick, World>>

-----------------------------------------------------------------------------
(* _main_steps                                                             *)

Night == nights[pipe.night]
WriteNight(row) == Write(pipe.night, row)
\* What no step of the pipeline changes.
Own == <<up, resumed, tick, runNow, lock, cancel>>

\* A test run ends: the flag drops and the run row gets its exit code.
EndRun(code) ==
  /\ bench' = "free"
  /\ IF bench = "nightly"
     THEN /\ suite' = [suite EXCEPT !.run = code]
          /\ nights' = [n \in DOMAIN nights |->
               IF n = suite.night THEN [nights[n] EXCEPT !.run = code] ELSE nights[n]]
     ELSE UNCHANGED <<suite, nights>>

EndSteps(p, o) == pipe' = [p EXCEPT !.at = "recover", !.outcome = o]

Advance(p) == pipe' = [p EXCEPT !.at = "enter", !.step = Steps[Index(p.step) + 1]]

\* The gate waits for a test run to end; one that fell silent it resets.
GatePasses ==
  /\ pipe.at = "gate"
  /\ EndRun("bad")
  /\ pipe' = [pipe EXCEPT !.at = "enter", !.step = IF @ = "none" THEN Steps[1] ELSE @]
  /\ UNCHANGED <<pending, slot, deaths, Own>>

GateRefuses ==
  /\ pipe.at = "gate" /\ bench # "free"
  /\ EndSteps(pipe, "error")
  /\ UNCHANGED <<nights, World, Own>>

\* The flag is tested between the steps, those a resume skips included; between
\* the suite and the soak it is not.
CancelSeen ==
  /\ cancel /\ pipe.at = "enter"
  /\ \/ Index(pipe.step) \in 2 .. Index("suite")
     \/ pipe.step = "soak" /\ ~pipe.ran

Canceled ==
  /\ CancelSeen
  /\ EndSteps(pipe, "canceled")
  /\ UNCHANGED <<nights, World, Own>>

EnterStep ==
  /\ pipe.at = "enter" /\ ~CancelSeen
  /\ WriteNight([Night EXCEPT !.step = pipe.step])
  /\ pipe' = [pipe EXCEPT !.at = "work"]
  /\ UNCHANGED <<World, Own>>

WorkDone ==
  /\ pipe.at = "work" /\ pipe.step \notin {"suite", "soak"}
  /\ Advance(pipe)
  /\ UNCHANGED <<nights, World, Own>>

\* New code was pulled: the night waits for the restart it asks for.
SelfUpdated ==
  /\ pipe.at = "work" /\ pipe.step = "self_update"
  /\ WriteNight([Night EXCEPT !.status = "awaiting_restart"])
  /\ pipe' = [pipe EXCEPT !.at = "restarting"]
  /\ UNCHANGED <<World, Own>>

RestartSurvived ==
  /\ pipe.at = "restarting"
  /\ WriteNight([Night EXCEPT !.status = "running"])
  /\ Advance(pipe)
  /\ UNCHANGED <<World, Own>>

CloneFailed ==
  /\ pipe.at = "work" /\ pipe.step = "firmware_update"
  /\ EndSteps(pipe, "error")
  /\ UNCHANGED <<nights, World, Own>>

\* runner.start: twice refused, or a flag and a run row of its own.
SuiteStarts ==
  /\ pipe.at = "work" /\ pipe.step = "suite"
  /\ \/ cancel /\ EndSteps(pipe, "canceled") /\ UNCHANGED <<nights, bench, suite>>
     \/ /\ ~cancel /\ bench # "free"
        /\ Advance([pipe EXCEPT !.ran = TRUE, !.ok = FALSE])
        /\ UNCHANGED <<nights, bench, suite>>
     \/ /\ ~cancel /\ bench = "free"
        /\ bench' = "nightly" /\ suite' = [run |-> "open", night |-> 0]
        /\ pipe' = [pipe EXCEPT !.at = "linking", !.ran = TRUE]
        /\ WriteNight([Night EXCEPT !.launches = @ + 1])
  /\ UNCHANGED <<pending, slot, deaths, Own>>

SuiteLinks ==
  /\ pipe.at = "linking"
  /\ WriteNight([Night EXCEPT !.run = suite.run])
  /\ suite' = [suite EXCEPT !.night = pipe.night]
  /\ pipe' = [pipe EXCEPT !.at = "waiting"]
  /\ UNCHANGED <<bench, pending, slot, deaths, Own>>

\* The flag is down; the run row was finished before it can be read here.
SuiteOver ==
  /\ pipe.at = "waiting" /\ bench = "free"
  /\ Advance([pipe EXCEPT !.ok = (suite.run = "ok")])
  /\ UNCHANGED <<nights, World, Own>>

\* Canceled, or stopped after its timeout; pytest may take a while to go.
SuiteAbandoned ==
  /\ pipe.at = "waiting" /\ bench # "free"
  /\ Advance([pipe EXCEPT !.ok = FALSE])
  /\ UNCHANGED <<nights, World, Own>>

\* Fault: the verdict of a suite that was not run here is taken for granted.
SoakDoneUnpersisted ==
  /\ pipe.at = "work" /\ pipe.step = "soak"
  /\ EndSteps(pipe, IF cancel THEN "canceled" ELSE IF pipe.ok THEN "passed" ELSE "failed")
  /\ UNCHANGED <<nights, World, Own>>

SoakDone ==
  /\ pipe.at = "work" /\ pipe.step = "soak"
  /\ LET ok == IF pipe.ran THEN pipe.ok ELSE PersistedOk(pipe.night)
     IN  EndSteps(pipe, IF cancel THEN "canceled" ELSE IF ok THEN "passed" ELSE "failed")
  /\ UNCHANGED <<nights, World, Own>>

\* The pipeline's timeout or an exception, anywhere but in the minute in which
\* a restart is waited for.
StepsAbort ==
  /\ pipe.at \in {"gate", "enter", "work", "linking", "waiting"}
  /\ EndSteps(pipe, "error")
  /\ UNCHANGED <<nights, World, Own>>

-----------------------------------------------------------------------------
(* _finalize                                                               *)

\* A resume or a run_now is a few database writes away from its launch: it is
\* not overtaken by a pipeline that is launched meanwhile and already at its end.
Launching == tick.at \in {"reviving", "closing", "bumping", "launching"} \/ runNow.at # "idle"

Recovers ==
  /\ pipe.at = "recover" /\ ~Launching
  /\ WriteNight([Night EXCEPT !.step = "bench_recover"])
  /\ pipe' = [pipe EXCEPT !.at = "handoff"]
  /\ UNCHANGED <<World, Own>>

HandsOff ==
  /\ pipe.at = "handoff"
  /\ WriteNight([Night EXCEPT !.step = "handoff"])
  /\ pipe' = [pipe EXCEPT !.at = "finish", !.outcome = IF cancel THEN "canceled" ELSE @]
  /\ UNCHANGED <<World, Own>>

Finishes ==
  /\ pipe.at = "finish"
  /\ WriteNight([Night EXCEPT !.status = pipe.outcome])
  /\ pipe' = [pipe EXCEPT !.at = "report"]
  /\ UNCHANGED <<World, Own>>

Reports ==
  /\ pipe.at = "report"
  /\ WriteNight([Night EXCEPT !.report = TRUE])
  /\ pipe' = [pipe EXCEPT !.at = "done"]
  /\ UNCHANGED <<World, Own>>

PipelineEnds ==
  /\ pipe.at = "done"
  /\ WriteNight([Night EXCEPT !.step = "done"])
  /\ pipe' = NoPipe
  /\ UNCHANGED <<World, Own>>

-----------------------------------------------------------------------------
(* The world: operators, pytest, the clock, the supervisor.                *)

CancelNight ==
  /\ Active
  /\ cancel' = TRUE
  /\ UNCHANGED <<nights, up, resumed, tick, runNow, lock, pipe, World>>

Orchestrator == <<up, resumed, tick, runNow, lock, pipe, cancel>>

\* tests_start is refused while a pipeline is active; the flag is raised some
\* awaits after it asked.
ManualRunAsks ==
  /\ up /\ ~Active /\ bench = "free"
  /\ pending' = TRUE
  /\ UNCHANGED <<nights, Orchestrator, bench, suite, slot, deaths>>

ManualRunStarts ==
  /\ pending
  /\ pending' = FALSE
  /\ bench' = IF bench = "free" THEN "manual" ELSE bench
  /\ UNCHANGED <<nights, Orchestrator, suite, slot, deaths>>

RunEnds ==
  /\ bench # "free"
  /\ \E code \in {"ok", "bad"} : EndRun(code)
  /\ UNCHANGED <<Orchestrator, pending, slot, deaths>>

SlotComes ==
  /\ slot < MaxSlots
  /\ slot' = slot + 1
  /\ UNCHANGED <<nights, memory, deaths>>

\* A crash, a SIGTERM, a power cut: everything in memory is gone.
Dies ==
  /\ up /\ deaths < MaxDeaths
  /\ deaths' = deaths + 1
  /\ up' = FALSE /\ resumed' = FALSE
  /\ tick' = Idle /\ runNow' = Idle /\ lock' = "free"
  /\ pipe' = NoPipe /\ cancel' = FALSE
  /\ bench' = "free" /\ pending' = FALSE /\ suite' = NoSuite
  /\ UNCHANGED <<nights, slot>>

Boots ==
  /\ ~up
  /\ up' = TRUE
  /\ UNCHANGED <<nights, resumed, tick, runNow, lock, pipe, cancel, World>>

-----------------------------------------------------------------------------
Tick ==
  \/ TickReadsUnfinished \/ TickRevives \/ TickClosesRun \/ TickBumps
  \/ TickLaunches \/ TickLocks \/ TickCreates

MainStep ==
  \/ GatePasses \/ GateRefuses \/ Canceled \/ EnterStep \/ WorkDone
  \/ SelfUpdated \/ RestartSurvived \/ CloneFailed
  \/ SuiteStarts \/ SuiteLinks \/ SuiteOver \/ SuiteAbandoned \/ SoakDone

Finalize == Recovers \/ HandsOff \/ Finishes \/ Reports \/ PipelineEnds

NightNext ==
  \/ Tick \/ RunNowCreates \/ RunNowLaunches
  \/ MainStep \/ StepsAbort \/ Finalize
  \/ CancelNight \/ ManualRunAsks \/ ManualRunStarts \/ RunEnds
  \/ SlotComes \/ Dies \/ Boots

NightSpec == NightInit /\ [][NightNext]_nightVars

(***************************************************************************)
(* The scheduler loop and the pipeline go on while the process lives, and  *)
(* launchd restarts a dead process.  No fairness for what the world may or *)
(* may not do: cancel, start a run, die, abort, let a slot come round.     *)
(***************************************************************************)
NightFairness ==
  /\ WF_nightVars(Tick) /\ WF_nightVars(RunNowLaunches)
  /\ WF_nightVars(MainStep) /\ WF_nightVars(Finalize) /\ WF_nightVars(Boots)

NightFairSpec == NightSpec /\ NightFairness

-----------------------------------------------------------------------------
(* Properties.                                                             *)

NightType ==
  [slot : 0 .. MaxSlots, status : Unfinished \cup Finished,
   step : MainSteps \cup {"none", "bench_recover", "handoff", "done"},
   run : {"none", "open", "ok", "bad"}, attempts : 0 .. MaxDeaths + 1,
   report : BOOLEAN, launches : Nat]

NightTypeOK ==
  /\ nights \in Seq(NightType) /\ Len(nights) <= MaxNights
  /\ up \in BOOLEAN /\ resumed \in BOOLEAN /\ cancel \in BOOLEAN /\ pending \in BOOLEAN
  /\ tick.at \in {"idle", "reviving", "closing", "bumping", "launching", "deciding", "off"}
  /\ runNow.at \in {"idle", "launching"}
  /\ tick.night \in 0 .. Len(nights) /\ runNow.night \in 0 .. Len(nights)
  /\ lock \in {"free", "tick", "runNow"}
  /\ pipe.night \in 0 .. Len(nights)
  /\ bench \in {"free", "manual", "nightly"}
  /\ suite.night \in 0 .. Len(nights)
  /\ slot \in 0 .. MaxSlots /\ deaths \in 0 .. MaxDeaths

\* No scheduled slot is run twice, whatever died, failed or was started by hand
\* in between: a failed night is not retried until the next slot
\* (nightly.py:203-214, repo_nightly.py:67-75).
SlotOnce ==
  \A m, n \in DOMAIN nights : nights[m].slot = nights[n].slot /\ nights[m].slot > 0 => m = n

\* The suite, which flashes the whole bench, is started at most twice a night
\* however often the process dies under it (nightly.py:740-756).
SuiteCap == \A n \in DOMAIN nights : nights[n].launches <= 2

\* A night whose linked suite did not exit 0 is never reported green, also when
\* the process that saw the suite fail is not the one that finishes the night
\* (nightly.py:900-908).
FailedSuiteNeverGreen ==
  \A n \in DOMAIN nights : nights[n].status = "passed" => nights[n].run \in {"none", "ok"}

\* A running pipeline is never replaced by another: a resume and a run_now that
\* both saw no pipeline do not both launch (nightly.py:776-783).
NightNotReplaced == [][pipe.night # 0 => pipe'.night \in {0, pipe.night}]_nightVars

\* A death after the suite does not run the night again: once the bench is being
\* recovered, the night only moves on to its report (nightly.py:759-763).
Epilogue == {"bench_recover", "handoff", "done"}
NoRerunAfterSuite ==
  [][\A n \in DOMAIN nights : nights[n].step \in Epilogue => nights'[n].step \in Epilogue]_nightVars

\* No step undoes what was begun or done.
NothingUndone == NightNotReplaced /\ NoRerunAfterSuite

\* A night is green only if its suite ran and passed (nightly_report.py:121-122).
GreenMeansSuitePassed ==
  \A n \in DOMAIN nights : nights[n].status = "passed" => nights[n].run = "ok"

=============================================================================
