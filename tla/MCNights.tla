------------------------------- MODULE MCNights -------------------------------
(***************************************************************************)
(* The test runner, the nights that go on over deaths of the process, the  *)
(* soak that ends them and the report that comes of them.  A behaviour is  *)
(* one of a single component; in it the others rest: the scheduler is off, *)
(* the soak over, the calls of the reporter dead.                          *)
(***************************************************************************)
EXTENDS TestRunner, NightlyOrchestrator, NightlySoak, NightlyReports

CONSTANTS b1, b2, b3

VARIABLE which

\* Invocations of start() are alike, and so are reposts.
Symmetry == Permutations(SuiteRuns) \cup Permutations(Reposts)

TwoBoards == <<b1, b3>>
ThreeBoards == <<b1, b3, b2>>

nightsVars == <<which, suiteVars, nightVars, soakVars, reportVars>>

NightsInit ==
  /\ which \in {"suite", "night", "soak", "report"}
  /\ SuiteInit /\ Fresh /\ SoakFresh /\ ReportsFresh
  /\ resumed = (which # "night")
  /\ tick = IF which = "night" THEN Idle ELSE [Idle EXCEPT !.at = "off"]
  /\ soak = IF which = "soak" THEN NoSoak ELSE [NoSoak EXCEPT !.at = "over"]
  /\ call = [c \in Calls |->
       IF which = "report" THEN Uncalled ELSE [Uncalled EXCEPT !.at = "dead"]]

NightsNext ==
  \/ which = "suite" /\ SuiteNext /\ UNCHANGED <<which, nightVars, soakVars, reportVars>>
  \/ which = "night" /\ NightNext /\ UNCHANGED <<which, suiteVars, soakVars, reportVars>>
  \/ which = "soak" /\ SoakNext /\ UNCHANGED <<which, suiteVars, nightVars, reportVars>>
  \/ which = "report" /\ ReportsNext /\ UNCHANGED <<which, suiteVars, nightVars, soakVars>>
  \/ which = "report" /\ ReportsOver /\ UNCHANGED nightsVars

NightsSpec == NightsInit /\ [][NightsNext]_nightsVars

NightsFairSpec == NightsSpec /\ SuiteFairness /\ NightFairness /\ SoakFairness

Unsettled ==
  \/ flag
  \/ soak.at \notin {"off", "over"}
  \/ \E n \in DOMAIN nights : nights[n].status \notin Finished

\* Whichever component the behaviour is of: no launch, however it fails, leaves the
\* server at running:true for ever (test_runner.py:324-327); every night that was
\* created comes to an end, over deaths of the process too (nightly.py:716-717);
\* every soak that began is over in the end, over restarts and boards that never
\* come free (nightly_soak.py:367-384).
NightsSettle == Unsettled ~> ~Unsettled /\ soak.at = "over"

=============================================================================
