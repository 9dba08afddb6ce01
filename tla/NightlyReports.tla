---------------------------- MODULE NightlyReports ----------------------------
(***************************************************************************)
(* The report of one night: NightlyReporter (web/services/nightly_report.py)*)
(* publishes it once, an operator posts it again, and post_issue           *)
(* (web/services/github_issues.py) hands it to the gh command, which may   *)
(* time out after GitHub has made the issue, over failing writes and a     *)
(* death of the server.  Analysis and rendering are data.                  *)
(***************************************************************************)
EXTENDS Naturals

CONSTANTS
  Publish,      \* the call of publish()
  Reposts,      \* calls of repost()
  NoCall,
  WriteFails,   \* the steps at which the database or the analysis raises:
                \* "analysis", "store", "reread", "error", "delivery"
  Lossy,        \* may gh fail otherwise than by a timeout after the issue is made?
  MaxReportDeaths

Calls == Reposts \cup {Publish}

ASSUME ReportsAssumption ==
  /\ Publish \notin Reposts /\ NoCall \notin Calls
  /\ Lossy \in BOOLEAN /\ MaxReportDeaths \in Nat

VARIABLES
  report,       \* the row of nightly_reports
  call,         \* what each call is at: its step, attempt, labels and result
  made,         \* history: the issues each call made at GitHub
  reportDeaths

reportVars == <<report, call, made, reportDeaths>>

NoReport == [status |-> "none", url |-> NoCall, body |-> FALSE]

Uncalled == [at |-> "idle", try |-> 1, labels |-> FALSE, result |-> "none"]

ReportsFresh ==
  /\ report = NoReport /\ made = [c \in Calls |-> 0] /\ reportDeaths = 0

ReportsInit == call = [c \in Calls |-> Uncalled] /\ ReportsFresh

CallGoes(c, at) == call' = [call EXCEPT ![c].at = at]

\* The end of a delivery: the URL is known only if gh printed it.
Delivered(c, result) == call' = [call EXCEPT ![c].at = "delivered", ![c].result = result]

Url(c) == IF call[c].result = "posted" THEN c ELSE NoCall

-----------------------------------------------------------------------------
(* The delivery.                                                           *)

PublishBegins ==
  /\ call[Publish].at = "idle" /\ CallGoes(Publish, "analysis")
  /\ UNCHANGED <<report, made, reportDeaths>>

Analyzes ==
  /\ call[Publish].at = "analysis" /\ CallGoes(Publish, "probing")
  /\ UNCHANGED <<report, made, reportDeaths>>

\* Without a stored body there is nothing to post again.
RepostBegins(c) ==
  /\ call[c].at = "idle"
  /\ CallGoes(c, IF report.body THEN "probing" ELSE "over")
  /\ UNCHANGED <<report, made, reportDeaths>>

\* Posting is disabled, or gh, the login, the repository or the access is missing.
ProbeFails(c) ==
  /\ call[c].at = "probing" /\ \E s \in {"disabled", "denied"} : Delivered(c, s)
  /\ UNCHANGED <<report, made, reportDeaths>>

\* A label that cannot be made sends the issue without any.
ProbePasses(c) ==
  /\ call[c].at = "probing"
  /\ \E ok \in BOOLEAN : call' = [call EXCEPT ![c].at = "posting", ![c].labels = ok]
  /\ UNCHANGED <<report, made, reportDeaths>>

Classify(answer) ==
  CASE answer = "url" -> "posted"
    [] answer \in {"timeout", "offline"} -> "network_error"
    [] answer \in {"refused", "broken"} -> "post_failed"
    [] OTHER -> "denied"

\* Fault: whatever looks like the network is tried again.
RetrySafeAlways(answer) == answer \in {"offline", "timeout"}

\* The answers that prove the request never reached GitHub.
RetrySafe(answer) == answer = "offline"

\* An attempt is repeated once where that is safe, and a failure that may be the
\* labels' is followed by an attempt without them.
Answered(c, answer) ==
  LET again == call[c].try = 1 /\ RetrySafe(answer)
      bare == Classify(answer) = "post_failed" /\ call[c].labels
  IN call' = [call EXCEPT ![c] =
       IF again THEN [call[c] EXCEPT !.at = "sleeping"]
       ELSE IF bare THEN [call[c] EXCEPT !.try = 1, !.labels = FALSE]
       ELSE [call[c] EXCEPT !.at = "delivered", !.result = Classify(answer)]]

\* GitHub makes the issue, and gh may not learn of it.
IssueMade(c) ==
  /\ call[c].at = "posting"
  /\ made' = [made EXCEPT ![c] = @ + 1]
  /\ \E answer \in {"url", "timeout"} \cup {x \in {"broken"} : Lossy} : Answered(c, answer)
  /\ UNCHANGED <<report, reportDeaths>>

IssueNotMade(c) ==
  /\ call[c].at = "posting"
  /\ \E answer \in {"timeout", "offline", "refused", "forbidden"} : Answered(c, answer)
  /\ UNCHANGED <<report, made, reportDeaths>>

SleepEnds(c) ==
  /\ call[c].at = "sleeping"
  /\ call' = [call EXCEPT ![c].at = "posting", ![c].try = @ + 1]
  /\ UNCHANGED <<report, made, reportDeaths>>

-----------------------------------------------------------------------------
(* The row.                                                                *)

Stores ==
  /\ call[Publish].at = "delivered"
  /\ report' = [status |-> call[Publish].result, url |-> Url(Publish), body |-> TRUE]
  /\ CallGoes(Publish, "reread")
  /\ UNCHANGED <<made, reportDeaths>>

Rereads ==
  /\ call[Publish].at = "reread" /\ CallGoes(Publish, "over")
  /\ UNCHANGED <<report, made, reportDeaths>>

\* Whatever raises in publish() is caught, and becomes the report.
PublishRaises ==
  /\ \/ call[Publish].at \in {"analysis", "reread"} \cap WriteFails
     \/ call[Publish].at = "delivered" /\ "store" \in WriteFails
  /\ CallGoes(Publish, "erring")
  /\ UNCHANGED <<report, made, reportDeaths>>

ErrorStored ==
  /\ call[Publish].at = "erring"
  /\ \/ report' = [NoReport EXCEPT !.status = "reporter_error"]
     \/ "error" \in WriteFails /\ UNCHANGED report
  /\ CallGoes(Publish, "over")
  /\ UNCHANGED <<made, reportDeaths>>

\* A repost updates only what its delivery came to.
Delivery(c) == [report EXCEPT !.status = call[c].result, !.url = Url(c)]

RepostRecorded(c) ==
  /\ call[c].at = "delivered"
  /\ \/ report' = Delivery(c)
     \/ "delivery" \in WriteFails /\ UNCHANGED report
  /\ CallGoes(c, "over")
  /\ UNCHANGED <<made, reportDeaths>>

\* The row stays; a gh under way may still make the issue.
ReportDeath ==
  /\ reportDeaths < MaxReportDeaths /\ reportDeaths' = reportDeaths + 1
  /\ call' = [c \in Calls |->
       IF call[c].at \in {"idle", "over"} THEN call[c] ELSE [call[c] EXCEPT !.at = "dead"]]
  /\ \E lost \in SUBSET {c \in Calls : call[c].at = "posting"} :
       made' = [c \in Calls |-> made[c] + (IF c \in lost THEN 1 ELSE 0)]
  /\ UNCHANGED report

-----------------------------------------------------------------------------
PublishStep == Analyzes \/ Stores \/ Rereads \/ PublishRaises \/ ErrorStored

CallStep(c) ==
  ProbeFails(c) \/ ProbePasses(c) \/ IssueMade(c) \/ IssueNotMade(c) \/ SleepEnds(c)

ReportsNext ==
  \/ PublishBegins \/ PublishStep \/ ReportDeath
  \/ \E c \in Calls : CallStep(c)
  \/ \E c \in Reposts : RepostBegins(c) \/ RepostRecorded(c)

\* A report is published once, and posted again as often as asked.
ReportsOver == \A c \in Calls : call[c].at \in {"over", "dead"}

ReportsSpec == ReportsInit /\ [][ReportsNext]_reportVars

-----------------------------------------------------------------------------
(* Properties.                                                             *)

Statuses == {"posted", "disabled", "denied", "network_error", "post_failed"}

ReportTypeOK ==
  /\ report.status \in Statuses \cup {"none", "reporter_error"}
  /\ report.url \in Calls \cup {NoCall} /\ report.body \in BOOLEAN
  /\ \A c \in Calls :
       /\ call[c].at \in {"idle", "analysis", "probing", "posting", "sleeping", "delivered",
                          "reread", "erring", "over", "dead"}
       /\ call[c].try \in {1, 2} /\ call[c].labels \in BOOLEAN
       /\ call[c].result \in Statuses \cup {"none"}
  /\ made \in [Calls -> Nat]

\* Retries do not duplicate a report: one delivery makes one issue at most, with
\* timeouts and rejected labels, too (github_issues.py:207-211).
OneIssueEach == \A c \in Calls : made[c] <= 1

\* A report shown as posted has the address of an issue that exists, whichever
\* of publish and the reposts wrote the row last (nightly_report.py:392-437).
PostedIsThere == report.status = "posted" => report.url \in Calls /\ made[report.url] > 0

\* A publish() that ends leaves a report, whatever raised in it: only a death costs it
\* (nightly_report.py:330-356).
ReportComesOut == call[Publish].at = "over" => report # NoReport

\* What a delivery leaves behind, on the row and on GitHub.
ReportInv == ReportTypeOK /\ OneIssueEach /\ PostedIsThere /\ ReportComesOut

=============================================================================
