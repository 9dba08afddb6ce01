------------------------------- MODULE MCBuilds -------------------------------
(***************************************************************************)
(* What the server builds and runs on its host, in one instance for TLC: a *)
(* behaviour is one of the build orchestrator, of the background           *)
(* PlatformIO jobs, or of the captures and grinds.  The others have not    *)
(* begun, and nothing of them is under fairness.  A grind shares nothing   *)
(* with a capture but the stops: two captures, or one and a grind, are     *)
(* there.                                                                  *)
(***************************************************************************)
EXTENDS BuildOrchestrator, PioJobs, ToolJobs

CONSTANTS s1, s2, g, e1, a, b

\* Two commits of one environment.
TwoCommits == {<<e1, a>>, <<e1, b>>}

VARIABLE which

vars == <<which, orchVars, jobVars, toolVars>>

Init ==
  /\ which \in {"orchestrator", "jobs", "tools"}
  /\ OrchInit /\ JobsInit /\ ToolsFresh
  /\ \E absent \in IF which = "tools" THEN {s2, g} ELSE {g} :
       worker = [j \in Tools |-> IF j = absent THEN "refused" ELSE "idle"]

Over ==
  \/ which = "orchestrator" /\ Quiet
  \/ which = "jobs" /\ JobsOver
  \/ which = "tools" /\ ToolsOver

Next ==
  \/ which = "orchestrator" /\ OrchNext /\ UNCHANGED <<which, jobVars, toolVars>>
  \/ which = "jobs" /\ JobsNext /\ UNCHANGED <<which, orchVars, toolVars>>
  \/ which = "tools" /\ ToolsNext /\ UNCHANGED <<which, orchVars, jobVars>>
  \/ Over /\ UNCHANGED vars

Spec == Init /\ [][Next]_vars

FairSpec == Spec /\ OrchFairness /\ JobsFairness

\* A row is not settled, a call of enqueue() is under way, a job runs, or a flash has
\* its port: unless a death or the ledger took the row's task, or the job's log failed.
Pending ==
  \/ \E r \in Builds : Unsettled(r) /\ r \notin orphans
  \/ \E c \in Callers : call[c].at # "idle"
  \/ \E j \in JobIds : status[j] = "running" /\ j \notin unlogged
  \/ portLock # NoJob

\* Whatever is started on the host is settled in the end, and gives its port back:
\* what wait() and the poll of a job wait for comes (builder.py:292-300), though
\* compilers, copies, calls that hold the lock, and logs fail.
BuildsSettle == Pending ~> ~Pending

=============================================================================
