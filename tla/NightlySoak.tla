------------------------------ MODULE NightlySoak ------------------------------
(***************************************************************************)
(* The soak of a night over the whole bench (web/services/nightly_soak.py):*)
(* it takes the boards one by one, sends numbered messages from those that *)
(* are on the private channel, and gives everything back, over boards that *)
(* are busy or do not open, an abort of its task and deaths of the server. *)
(* What one board goes through is PortArbiter's and SoakObserver's matter. *)
(***************************************************************************)
EXTENDS Naturals, Sequences, FiniteSets, SequencesExt

CONSTANTS
  Fleet,       \* the boards online with an env, in the order of the registry
  Baked,       \* those that sit on the private channel with a region
  NoBoard,
  Aborts,      \* the waits at which the pipeline's timeout may cancel the task
  MaxSends,    \* rows of the sends file (bounds the model)
  MaxRestarts  \* deaths of the server (bounds the model)

Boards == Range(Fleet)

\* A device is one row of the registry.  A cancelled opening, whose thread goes
\* on, is SoakObserver's matter.
ASSUME FleetAssumption ==
  /\ Fleet \in Seq(Boards) /\ IsInjective(Fleet)
  /\ NoBoard \notin Boards /\ Baked \subseteq Boards
ASSUME SoakAssumption ==
  /\ Aborts \subseteq {"clearing", "suspending", "joining", "resuming", "preflight",
                       "window", "sending"}
  /\ MaxSends \in Nat /\ MaxRestarts \in Nat

VARIABLES
  soak,        \* run(): where it is, and its locals
  claims,      \* boards claimed in PortLocks
  paused,      \* boards whose monitor is suspended
  held,        \* boards the observer has an interface to
  relay,       \* keepalive.relay is the observer
  verified,    \* _verified
  busy,        \* boards with a guarded operation under way
  file,        \* soak-sends.jsonl
  wire,        \* history: the messages that were transmitted
  restarts

soakVars == <<soak, claims, paused, held, relay, verified, busy, file, wire, restarts>>

record == <<file, wire>>
outside == <<busy, restarts>>

NoSoak == [at |-> "off", todo |-> <<>>, board |-> NoBoard, claimed |-> {}, suspended |-> {},
           seq |-> 0]

SoakFresh ==
  /\ claims = {} /\ paused = {} /\ held = {} /\ relay = FALSE /\ verified = {}
  /\ busy = {} /\ file = <<>> /\ wire = <<>> /\ restarts = 0

SoakInit == soak = NoSoak /\ SoakFresh

Goes(at) == soak' = [soak EXCEPT !.at = at]

-----------------------------------------------------------------------------
(* Taking the boards.                                                      *)

SoakStarts ==
  /\ soak.at = "off"
  /\ soak' = [NoSoak EXCEPT !.at = "sweep", !.todo = Fleet]
  /\ UNCHANGED <<claims, paused, held, relay, verified, record, outside>>

ClaimsNext ==
  /\ soak.at = "sweep" /\ soak.todo # <<>>
  /\ LET b == Head(soak.todo) IN
     /\ claims' = claims \cup {b}
     /\ soak' = [soak EXCEPT !.at = "clearing", !.board = b, !.todo = Tail(@),
                             !.claimed = @ \cup {b}]
  /\ UNCHANGED <<paused, held, relay, verified, record, outside>>

Clears ==
  /\ soak.at = "clearing" /\ soak.board \notin busy
  /\ Goes("suspending")
  /\ UNCHANGED <<claims, paused, held, relay, verified, record, outside>>

\* A board that will not be had is given back at once.
Skipped(at) ==
  /\ claims' = claims \ {soak.board}
  /\ soak' = [soak EXCEPT !.at = at, !.claimed = @ \ {soak.board},
                          !.suspended = @ \ {soak.board}]

ClearTimesOut ==
  /\ soak.at = "clearing" /\ soak.board \in busy
  /\ Skipped("sweep")
  /\ UNCHANGED <<paused, held, relay, verified, record, outside>>

\* suspend() raises the flag of the monitor and then waits for its reader.
SuspendSets ==
  /\ soak.at = "suspending"
  /\ paused' = paused \cup {soak.board} /\ Goes("joining")
  /\ UNCHANGED <<claims, held, relay, verified, record, outside>>

SuspendReturns ==
  /\ soak.at = "joining"
  /\ soak' = [soak EXCEPT !.at = "opening", !.suspended = @ \cup {soak.board}]
  /\ UNCHANGED <<claims, paused, held, relay, verified, record, outside>>

Opens ==
  /\ soak.at = "opening"
  /\ held' = held \cup {soak.board} /\ Goes("sweep")
  /\ UNCHANGED <<claims, paused, relay, verified, record, outside>>

\* Fault: a board that does not open stays claimed.
OpenFailsClaimed ==
  /\ soak.at = "opening" /\ Goes("sweep")
  /\ UNCHANGED <<claims, paused, held, relay, verified, record, outside>>

OpenFails ==
  /\ soak.at = "opening" /\ Skipped("resuming")
  /\ UNCHANGED <<paused, held, relay, verified, record, outside>>

Resumes ==
  /\ soak.at = "resuming"
  /\ paused' = paused \ {soak.board} /\ Goes("sweep")
  /\ UNCHANGED <<claims, held, relay, verified, record, outside>>

-----------------------------------------------------------------------------
(* Preflight and the window.                                               *)

BoardsTaken ==
  /\ soak.at = "sweep" /\ soak.todo = <<>> /\ Goes("preflight")
  /\ UNCHANGED <<claims, paused, held, relay, verified, record, outside>>

\* Fit to transmit is a held board whose live channel and region were read.
Confirmed == held \cap Baked

\* The numbers go on where the sends file ends.
FirstSeq == Len(file)

WindowOpens ==
  /\ soak.at = "preflight"
  /\ verified' = Confirmed /\ relay' = TRUE
  /\ soak' = [soak EXCEPT !.at = "window", !.board = NoBoard, !.seq = FirstSeq]
  /\ UNCHANGED <<claims, paused, held, record, outside>>

\* The verified boards take turns, in the order of the fleet.
TurnOf(i) ==
  /\ Fleet[i] \in verified
  /\ Cardinality({k \in 1 .. i - 1 : Fleet[k] \in verified}) = soak.seq % Cardinality(verified)

SendBegins ==
  /\ soak.at = "window" /\ Len(file) < MaxSends
  /\ \E i \in DOMAIN Fleet :
       TurnOf(i) /\ soak' = [soak EXCEPT !.at = "sending", !.board = Fleet[i]]
  /\ UNCHANGED <<claims, paused, held, relay, verified, record, outside>>

Transmits ==
  /\ soak.at = "sending"
  /\ wire' = Append(wire, [id |-> soak.seq, board |-> soak.board])
  /\ Goes("sent")
  /\ UNCHANGED <<claims, paused, held, relay, verified, file, outside>>

SendFails ==
  /\ soak.at = "sending" /\ Goes("failed")
  /\ UNCHANGED <<claims, paused, held, relay, verified, record, outside>>

\* The row is written whatever became of the message, and uses up its number.
SendRecorded ==
  /\ soak.at \in {"sent", "failed"}
  /\ file' = Append(file, [id |-> soak.seq, ok |-> soak.at = "sent"])
  /\ soak' = [soak EXCEPT !.at = "window", !.board = NoBoard, !.seq = @ + 1]
  /\ UNCHANGED <<claims, paused, held, relay, verified, wire, outside>>

\* The window is over, or the night is cancelled.
WindowEnds ==
  /\ soak.at = "window" /\ Goes("closing") /\ relay' = FALSE
  /\ UNCHANGED <<claims, paused, held, verified, record, outside>>

-----------------------------------------------------------------------------
(* The finally.                                                            *)

\* A cancellation arrives at a wait: what was going on is left where it is, but
\* a send is in the hands of a thread and may still go out.
Aborted ==
  /\ soak.at \in Aborts /\ Goes("closing") /\ relay' = FALSE
  /\ \/ UNCHANGED wire
     \/ /\ soak.at = "sending"
        /\ wire' = Append(wire, [id |-> soak.seq, board |-> soak.board])
  /\ UNCHANGED <<claims, paused, held, verified, file, outside>>

Closes ==
  /\ soak.at = "closing"
  /\ held' = {} /\ claims' = claims \ soak.claimed
  /\ soak' = [soak EXCEPT !.at = "handing back", !.claimed = {}]
  /\ UNCHANGED <<paused, relay, verified, record, outside>>

HandsBack ==
  /\ soak.at = "handing back"
  /\ \E b \in soak.suspended :
       paused' = paused \ {b} /\ soak' = [soak EXCEPT !.suspended = @ \ {b}]
  /\ UNCHANGED <<claims, held, relay, verified, record, outside>>

SoakOver ==
  /\ soak.at = "handing back" /\ soak.suspended = {} /\ Goes("over")
  /\ UNCHANGED <<claims, paused, held, relay, verified, record, outside>>

-----------------------------------------------------------------------------
(* The rest of the server.                                                 *)

\* A claimed board refuses new operations; one that is under way goes on.
OperationBegins(b) ==
  /\ b \notin claims /\ b \notin busy
  /\ busy' = busy \cup {b}
  /\ UNCHANGED <<soak, claims, paused, held, relay, verified, record, restarts>>

OperationEnds(b) ==
  /\ b \in busy /\ busy' = busy \ {b}
  /\ UNCHANGED <<soak, claims, paused, held, relay, verified, record, restarts>>

\* The night is resumed at its soak after the restart; only the file remains.
ServerDies ==
  /\ soak.at \notin {"off", "over"} /\ restarts < MaxRestarts
  /\ restarts' = restarts + 1
  /\ soak' = NoSoak /\ claims' = {} /\ paused' = {} /\ held' = {} /\ relay' = FALSE
  /\ verified' = {} /\ busy' = {}
  /\ UNCHANGED record

-----------------------------------------------------------------------------
SoakStep ==
  \/ SoakStarts \/ ClaimsNext \/ Clears \/ ClearTimesOut \/ SuspendSets \/ SuspendReturns
  \/ Opens \/ OpenFails \/ Resumes \/ BoardsTaken \/ WindowOpens \/ Transmits \/ SendFails
  \/ SendRecorded \/ WindowEnds \/ Closes \/ HandsBack \/ SoakOver

SoakNext ==
  \/ SoakStep \/ SendBegins \/ Aborted \/ ServerDies
  \/ \E b \in Boards : OperationBegins(b) \/ OperationEnds(b)

SoakSpec == SoakInit /\ [][SoakNext]_soakVars

\* The coroutine goes on and the window is bounded: nothing else is assumed.
SoakFairness == WF_soakVars(SoakStep)

SoakFairSpec == SoakSpec /\ SoakFairness

-----------------------------------------------------------------------------
(* Properties.                                                             *)

SoakPlaces ==
  {"off", "sweep", "clearing", "suspending", "joining", "opening", "resuming", "preflight",
   "window", "sending", "sent", "failed", "closing", "handing back", "over"}

SoakRecord ==
  [at : SoakPlaces, todo : Seq(Boards), board : Boards \cup {NoBoard},
   claimed : SUBSET Boards, suspended : SUBSET Boards, seq : 0 .. MaxSends]
SendRow == [id : 0 .. MaxSends, ok : BOOLEAN]
WireRow == [id : 0 .. MaxSends, board : Boards]

SoakTypeOK ==
  /\ soak \in SoakRecord
  /\ claims \cup paused \cup held \cup verified \cup busy \subseteq Boards
  /\ relay \in BOOLEAN
  /\ file \in Seq(SendRow) /\ wire \in Seq(WireRow)

\* While messages are sent, exactly the boards that opened are claimed and
\* suspended: one that was busy or did not open was given back, and is not
\* refused to the others by a ghost claim (nightly_soak.py:349-378).
TakenAreHeld ==
  soak.at \in {"preflight", "window", "sending", "sent", "failed"} =>
    claims = held /\ paused = held

\* Whatever failed or was aborted on the way, nothing outlives the soak: no
\* claim, which would refuse the board until the server restarts, no suspended
\* monitor, no interface, no relay (nightly_soak.py:415-435).
NothingOutlivesSoak ==
  soak.at = "over" => claims = {} /\ paused = {} /\ held = {} /\ ~relay

\* No message leaves from a board that is not on the private channel
\* (nightly_soak.py:163-165).
PrivateOnly == \A i \in DOMAIN wire : wire[i].board \in Baked

\* The rows of the sends file are numbered without a gap or a repetition over
\* restarts in the middle of a send, too (nightly_soak.py:394-410).
NumberedInOrder == \A i \in DOMAIN file : file[i].id = i - 1

\* What the soak holds and sends, while it lasts and when it is over.
SoakInv ==
  SoakTypeOK /\ TakenAreHeld /\ NothingOutlivesSoak /\ PrivateOnly /\ NumberedInOrder

\* A resumed night never reuses an id already on the wire (nightly_soak.py:394-396).
IdsNotReused == \A i, k \in DOMAIN wire : wire[i].id = wire[k].id => i = k

=============================================================================
