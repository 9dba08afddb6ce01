---------------------------- MODULE FleetDiscovery ----------------------------
(***************************************************************************)
(* The registry of the devices on the bench: the discovery loop with its   *)
(* enrichment and its self-healing (web/services/discovery.py), the rows   *)
(* it keeps (web/db/repo_devices.py), a recovery asked for by the operator *)
(* (web/services/recovery.py) and what the operator does to a row.  A step *)
(* is what the event loop runs between two awaits; each statement of the   *)
(* database is a step of its own, and the bench changes between any two.   *)
(***************************************************************************)
EXTENDS Naturals, FiniteSets

CONSTANTS
  Boards,      \* boards with a USB serial number, which is the key of their row
  Ports,       \* tty paths
  Slots,       \* hub slots
  Recoveries,  \* calls of recover()
  Nowhere,     \* no path, no slot, no board
  Wired,       \* where the boards may sit when the service starts
  Stored,      \* the rows it finds in its database
  Budgets      \* how often the bench changes or somebody intervenes, rows are forgotten,
               \* envs set, reads come back without the firmware version, ports refused

\* What the table keeps of a board.
DeviceRows == [known : BOOLEAN, online : BOOLEAN, port : Ports \cup {Nowhere}, slot : Slots \cup {Nowhere},
               read : BOOLEAN, env : {"none", "auto", "pinned"}, locked : BOOLEAN]

\* A board that is plugged in sits at a path of its own; what is stored is a row.
ASSUME DiscoveryAssumption ==
  /\ Nowhere \notin Boards \cup Ports \cup Slots
  /\ \A w \in Wired : \A b \in Boards \cap DOMAIN w :
       /\ w[b] \in [port : Ports, slot : Slots \cup {Nowhere}, wedged : BOOLEAN]
       /\ \A a \in Boards \cap DOMAIN w : a # b => w[a].port # w[b].port
  /\ \A b \in Boards \cap DOMAIN Stored : Stored[b] \in DeviceRows /\ Stored[b].known

VARIABLES
  bus,         \* per board: path and slot it is enumerated at, is it wedged
  rows,        \* the table `devices`
  scan,        \* where scan_once is
  enrich,      \* per board: where its _enrich is
  enriching, enriched, backoff, cooldown,   \* _enriching, _enriched, _failed, _unwedge_at
  guardOf,     \* who holds the port guard of a board
  recovery,    \* per call of recover(): where it is
  active,      \* _active
  testing,     \* test_runner.is_running()
  forgetting,  \* the board whose row is being forgotten
  left         \* what is left of the budget

discVars == <<bus, rows, scan, enrich, enriching, enriched, backoff, cooldown,
              guardOf, recovery, active, testing, forgetting, left>>

bench == <<bus, testing, left>>
registry == <<rows, forgetting>>
enrichVars == <<enrich, enriching, enriched, backoff, cooldown>>
recoveryVars == <<recovery, active>>

NoRow == [known |-> FALSE, online |-> FALSE, port |-> Nowhere, slot |-> Nowhere,
          read |-> FALSE, env |-> "none", locked |-> FALSE]

Unplugged == [port |-> Nowhere, slot |-> Nowhere, wedged |-> FALSE]

Resting == [at |-> "idle", found |-> [b \in {} |-> Nowhere], todo |-> {}, board |-> Nowhere,
            row |-> NoRow, changed |-> FALSE]

AtRest == [at |-> "idle", port |-> Nowhere, slot |-> Nowhere, locked |-> FALSE, full |-> FALSE]

NoRecovery == [at |-> "idle", board |-> Nowhere, port |-> Nowhere, slot |-> Nowhere,
               recovered |-> FALSE, answered |-> FALSE]

\* Two boards never share a path or a slot.
Apart(f) == \A a, b \in Boards : a # b /\ f[a] = f[b] => f[a] = Nowhere

DiscFresh ==
  /\ enrich = [b \in Boards |-> AtRest]
  /\ enriching = {} /\ backoff = {} /\ cooldown = {}
  /\ enriched = [b \in Boards |-> Nowhere]
  /\ guardOf = [b \in Boards |-> "free"]
  /\ recovery = [r \in Recoveries |-> NoRecovery] /\ active = {}
  /\ testing = FALSE /\ forgetting = Nowhere

DiscInit ==
  /\ \E w \in Wired : bus = [b \in Boards |-> IF b \in DOMAIN w THEN w[b] ELSE Unplugged]
  /\ rows = [b \in Boards |-> IF b \in DOMAIN Stored THEN Stored[b] ELSE NoRow]
  /\ scan = Resting /\ left \in Budgets /\ DiscFresh

-----------------------------------------------------------------------------
(* The bench.                                                              *)

At(port) == {b \in Boards : bus[b].port = port /\ port # Nowhere}
In(slot) == {b \in Boards : bus[b].slot = slot /\ slot # Nowhere}
FreePorts == {p \in Ports : At(p) = {}}

\* A node answers on a path when one sits there that is not wedged.
Answers(port) == \E b \in At(port) : ~bus[b].wedged

Spend(what) == left[what] > 0 /\ left' = [left EXCEPT ![what] = @ - 1]

\* A board on a hub has a slot, one that is plugged in directly has none.
Plug(b) ==
  /\ bus[b].port = Nowhere
  /\ \E p \in FreePorts, s \in {s \in Slots : In(s) = {}} \cup {Nowhere} :
       bus' = [bus EXCEPT ![b] = [port |-> p, slot |-> s, wedged |-> FALSE]]

Unplug(b) == bus[b].port # Nowhere /\ bus' = [bus EXCEPT ![b] = Unplugged]

Wedges(b) == bus[b].port # Nowhere /\ ~bus[b].wedged /\ bus' = [bus EXCEPT ![b].wedged = TRUE]

BenchChanges ==
  /\ Spend("changes")
  /\ \/ (\E b \in Boards : Plug(b) \/ Unplug(b) \/ Wedges(b)) /\ UNCHANGED testing
     \/ ~testing /\ testing' = TRUE /\ UNCHANGED bus
  /\ UNCHANGED <<registry, scan, enrichVars, guardOf, recoveryVars>>

TestRunEnds ==
  /\ testing /\ testing' = FALSE
  /\ UNCHANGED <<bus, left, registry, scan, enrichVars, guardOf, recoveryVars>>

\* VBUS of a slot off and on: whatever board sits there enumerates again, its
\* firmware started afresh, on its old path or on another; or the hub does not obey.
PowerCycle(slot) ==
  \/ UNCHANGED bus
  \/ \E b \in In(slot) : \E p \in FreePorts \cup {bus[b].port} :
       bus' = [bus EXCEPT ![b].port = p, ![b].wedged = FALSE]

-----------------------------------------------------------------------------
(* scan_once.                                                              *)

\* The ports first, where each of them sits in a second call.
ScanLists ==
  /\ scan.at = "idle"
  /\ LET there == {b \in Boards : bus[b].port # Nowhere} IN
     scan' = [Resting EXCEPT !.at = "listed",
                !.found = [b \in there |-> [port |-> bus[b].port, slot |-> Nowhere]]]
  /\ UNCHANGED <<bench, registry, enrichVars, guardOf, recoveryVars>>

SlotAt(port) == IF At(port) = {} THEN Nowhere ELSE bus[CHOOSE b \in At(port) : TRUE].slot

ScanLocates ==
  /\ scan.at = "listed"
  /\ scan' = [scan EXCEPT !.at = "next", !.todo = DOMAIN scan.found,
                !.found = [b \in DOMAIN scan.found |->
                            [scan.found[b] EXCEPT !.slot = SlotAt(scan.found[b].port)]]]
  /\ UNCHANGED <<bench, registry, enrichVars, guardOf, recoveryVars>>

\* upsert_from_discovery: what is known, the write, what it wrote.
UpsertReads ==
  /\ scan.at = "next"
  /\ \E b \in scan.todo :
       scan' = [scan EXCEPT !.at = "write", !.board = b, !.row = rows[b]]
  /\ UNCHANGED <<bench, registry, enrichVars, guardOf, recoveryVars>>

\* Fault: the path is written when the board comes online only.
UpsertedOnce(b) ==
  IF ~scan.row.known
  THEN [NoRow EXCEPT !.known = TRUE, !.online = TRUE, !.port = scan.found[b].port]
  ELSE IF ~rows[b].known THEN rows[b]
  ELSE [rows[b] EXCEPT !.online = TRUE,
                       !.port = IF scan.row.online THEN @ ELSE scan.found[b].port]

\* A row that is new is inserted; a known one is updated where it still is.
Upserted(b) ==
  IF ~scan.row.known
  THEN [NoRow EXCEPT !.known = TRUE, !.online = TRUE, !.port = scan.found[b].port]
  ELSE IF ~rows[b].known THEN rows[b]
  ELSE [rows[b] EXCEPT !.online = TRUE, !.port = scan.found[b].port]

UpsertWrites ==
  /\ scan.at = "write"
  /\ LET b == scan.board IN
     /\ rows' = [rows EXCEPT ![b] = Upserted(b)]
     /\ scan' = [scan EXCEPT !.at = "written",
                   !.changed = ~scan.row.known \/ ~scan.row.online
                               \/ scan.row.port # scan.found[b].port]
  /\ UNCHANGED <<bench, forgetting, enrichVars, guardOf, recoveryVars>>

\* _maybe_enrich, for the row that was just written.
Needs(b, changed) ==
  /\ ~testing /\ b \notin enriching /\ b \notin backoff
  /\ changed \/ enriched[b] # rows[b].port

\* The row must be there; if it was forgotten meanwhile the scan breaks off.
UpsertReturns ==
  /\ scan.at \in {"written", "slotted"} /\ rows[scan.board].known
  /\ LET b == scan.board slot == scan.found[b].slot IN
     IF scan.at = "written" /\ slot \notin {Nowhere, rows[b].slot}
     THEN scan' = [scan EXCEPT !.at = "slot", !.changed = TRUE] /\ UNCHANGED enrichVars
     ELSE /\ scan' = [scan EXCEPT !.at = "next", !.board = Nowhere, !.row = NoRow,
                        !.changed = FALSE, !.todo = @ \ {b}]
          /\ IF Needs(b, scan.changed)
             THEN enrich' = [enrich EXCEPT ![b].at = "begun"] /\ enriching' = enriching \cup {b}
             ELSE UNCHANGED <<enrich, enriching>>
          /\ UNCHANGED <<enriched, backoff, cooldown>>
  /\ UNCHANGED <<bench, registry, guardOf, recoveryVars>>

ScanBreaks ==
  /\ scan.at \in {"written", "slotted"} /\ ~rows[scan.board].known
  /\ scan' = Resting
  /\ UNCHANGED <<bench, registry, enrichVars, guardOf, recoveryVars>>

SlotWrites ==
  /\ scan.at = "slot"
  /\ LET b == scan.board IN
     rows' = IF rows[b].known THEN [rows EXCEPT ![b].slot = scan.found[b].slot] ELSE rows
  /\ scan' = [scan EXCEPT !.at = "slotted"]
  /\ UNCHANGED <<bench, forgetting, enrichVars, guardOf, recoveryVars>>

\* mark_offline_except; the boards that went offline are read again when they return.
MarkOffline ==
  /\ scan.at = "next" /\ scan.todo = {}
  /\ LET newly == {b \in Boards : rows[b].online /\ b \notin DOMAIN scan.found} IN
     /\ rows' = [b \in Boards |-> IF b \in newly THEN [rows[b] EXCEPT !.online = FALSE]
                                  ELSE rows[b]]
     /\ scan' = [Resting EXCEPT !.at = "offline", !.todo = newly]
  /\ UNCHANGED <<bench, forgetting, enrichVars, guardOf, recoveryVars>>

ScanEnds ==
  /\ scan.at = "offline" /\ scan' = Resting
  /\ enriched' = [b \in Boards |-> IF b \in scan.todo THEN Nowhere ELSE enriched[b]]
  /\ UNCHANGED <<bench, registry, enrich, enriching, backoff, cooldown, guardOf, recoveryVars>>

Scan ==
  \/ ScanLists \/ ScanLocates \/ UpsertReads \/ UpsertWrites \/ UpsertReturns
  \/ ScanBreaks \/ SlotWrites \/ MarkOffline \/ ScanEnds

-----------------------------------------------------------------------------
(* _enrich and _maybe_unwedge.                                             *)

EnrichGoes(b, at) == enrich' = [enrich EXCEPT ![b].at = at]

EnrichOver(b) ==
  /\ enrich' = [enrich EXCEPT ![b] = AtRest]
  /\ enriching' = enriching \ {b}

EnrichReadsRow(b) ==
  /\ enrich[b].at = "begun"
  /\ IF testing \/ ~rows[b].online THEN EnrichOver(b)
     ELSE /\ enrich' = [enrich EXCEPT ![b].at = "waiting", ![b].port = rows[b].port]
          /\ UNCHANGED enriching
  /\ UNCHANGED <<bench, registry, scan, enriched, backoff, cooldown, guardOf, recoveryVars>>

EnrichEnters(b) ==
  /\ enrich[b].at = "waiting" /\ guardOf[b] = "free"
  /\ IF testing THEN EnrichOver(b) /\ UNCHANGED guardOf
     ELSE /\ EnrichGoes(b, "connecting") /\ guardOf' = [guardOf EXCEPT ![b] = "enrich"]
          /\ UNCHANGED enriching
  /\ UNCHANGED <<bench, registry, scan, enriched, backoff, cooldown, recoveryVars>>

\* device_info on the path the row named before the guard was entered.
EnrichConnects(b) ==
  /\ enrich[b].at = "connecting" /\ Answers(enrich[b].port)
  /\ \/ enrich' = [enrich EXCEPT ![b].at = "read", ![b].full = TRUE] /\ UNCHANGED left
     \/ Spend("partials") /\ EnrichGoes(b, "read")
  /\ UNCHANGED <<bus, testing, registry, scan, enriching, enriched, backoff, cooldown,
                 guardOf, recoveryVars>>

\* update_enrichment: whether the env is pinned is asked first, in a step of its own.
EnrichLooks(b) ==
  /\ enrich[b].at = "read"
  /\ enrich' = [enrich EXCEPT ![b].at = IF rows[b].known THEN "write" ELSE "gone",
                              ![b].locked = rows[b].locked]
  /\ UNCHANGED <<bench, registry, scan, enriching, enriched, backoff, cooldown,
                 guardOf, recoveryVars>>

Enriched(b) ==
  IF ~rows[b].known THEN rows[b]
  ELSE [rows[b] EXCEPT !.read = @ \/ enrich[b].full,
                       !.env = IF enrich[b].locked THEN @ ELSE "auto"]

EnrichWrites(b) ==
  /\ enrich[b].at \in {"write", "gone"}
  /\ rows' = IF enrich[b].at = "write" THEN [rows EXCEPT ![b] = Enriched(b)] ELSE rows
  /\ IF enrich[b].full
     THEN /\ enriched' = [enriched EXCEPT ![b] = enrich[b].port]
          /\ backoff' = backoff \ {b}
     ELSE backoff' = backoff \cup {b} /\ UNCHANGED enriched
  /\ guardOf' = [guardOf EXCEPT ![b] = "free"]
  /\ EnrichOver(b)
  /\ UNCHANGED <<bench, forgetting, scan, cooldown, recoveryVars>>

\* Nobody answers: back off, outside the guard, and see whether the port is wedged.
EnrichFails(b) ==
  /\ enrich[b].at = "connecting" /\ ~Answers(enrich[b].port)
  /\ backoff' = backoff \cup {b}
  /\ guardOf' = [guardOf EXCEPT ![b] = "free"]
  /\ EnrichGoes(b, "failed")
  /\ UNCHANGED <<bench, registry, scan, enriching, enriched, cooldown, recoveryVars>>

\* The guard refuses a claimed port before it is waited for, a wedged one when it
\* was granted; and a node that would answer may still not be reached.
EnrichRefused(b) ==
  /\ Spend("refusals")
  /\ \/ enrich[b].at = "begun" /\ ~testing /\ rows[b].online /\ UNCHANGED guardOf
     \/ enrich[b].at = "waiting" /\ guardOf[b] = "free" /\ UNCHANGED guardOf
     \/ enrich[b].at = "connecting" /\ guardOf' = [guardOf EXCEPT ![b] = "free"]
  /\ backoff' = backoff \cup {b}
  /\ EnrichGoes(b, "failed")
  /\ UNCHANGED <<bus, testing, registry, scan, enriching, enriched, cooldown, recoveryVars>>

\* Not more than once in five minutes for the same row: cooldown is what is left of them.
MayUnwedge(b) ==
  /\ ~testing /\ b \notin cooldown
  /\ rows[b].known /\ rows[b].slot # Nowhere /\ rows[b].port # Nowhere

UnwedgeAsks(b) ==
  /\ enrich[b].at = "failed"
  /\ IF MayUnwedge(b)
     THEN /\ enrich' = [enrich EXCEPT ![b].at = "probing", ![b].port = rows[b].port,
                                      ![b].slot = rows[b].slot]
          /\ UNCHANGED enriching
     ELSE EnrichOver(b)
  /\ UNCHANGED <<bench, registry, scan, enriched, backoff, cooldown, guardOf, recoveryVars>>

\* An open that fails with EINVAL is a wedge; a path that is gone is not.
UnwedgeProbes(b) ==
  /\ enrich[b].at = "probing"
  /\ IF \E x \in At(enrich[b].port) : bus[x].wedged
     THEN cooldown' = cooldown \cup {b} /\ EnrichGoes(b, "cycling") /\ UNCHANGED enriching
     ELSE EnrichOver(b) /\ UNCHANGED cooldown
  /\ UNCHANGED <<bench, registry, scan, enriched, backoff, guardOf, recoveryVars>>

UnwedgeCycles(b) ==
  /\ enrich[b].at = "cycling"
  /\ PowerCycle(enrich[b].slot) /\ EnrichOver(b)
  /\ UNCHANGED <<testing, left, registry, scan, enriched, backoff, cooldown, guardOf, recoveryVars>>

BackoffEnds(b) ==
  /\ b \in backoff /\ backoff' = backoff \ {b}
  /\ UNCHANGED <<bench, registry, scan, enrich, enriching, enriched, cooldown, guardOf, recoveryVars>>

CooldownEnds(b) ==
  /\ b \in cooldown /\ cooldown' = cooldown \ {b}
  /\ UNCHANGED <<bench, registry, scan, enrich, enriching, enriched, backoff, guardOf, recoveryVars>>

Enrich(b) ==
  \/ EnrichReadsRow(b) \/ EnrichEnters(b) \/ EnrichConnects(b) \/ EnrichLooks(b)
  \/ EnrichWrites(b) \/ EnrichFails(b) \/ EnrichRefused(b)
  \/ UnwedgeAsks(b) \/ UnwedgeProbes(b) \/ UnwedgeCycles(b)

-----------------------------------------------------------------------------
(* RecoveryService.recover.                                                *)

RecoveryGoes(r, at) == recovery' = [recovery EXCEPT ![r].at = at]

\* The gate and the row; the path and the slot are those of this moment.  The
\* calls are interchangeable.
RecoveryAsks(r) ==
  /\ ~testing /\ \E q \in Recoveries : recovery[q].at = "idle"
  /\ r = CHOOSE q \in Recoveries : recovery[q].at = "idle"
  /\ Spend("changes")
  /\ \E b \in Boards :
       /\ rows[b].known
       /\ recovery' = [recovery EXCEPT ![r] =
            [NoRecovery EXCEPT !.at = "asked", !.board = b, !.port = rows[b].port,
                               !.slot = rows[b].slot]]
  /\ UNCHANGED <<bus, testing, registry, scan, enrichVars, guardOf, active>>

RecoveryBegins(r) ==
  /\ recovery[r].at = "asked"
  /\ IF recovery[r].board \in active
     THEN recovery' = [recovery EXCEPT ![r] = NoRecovery] /\ UNCHANGED active
     ELSE RecoveryGoes(r, "waiting") /\ active' = active \cup {recovery[r].board}
  /\ UNCHANGED <<bench, registry, scan, enrichVars, guardOf>>

RecoveryEnters(r) ==
  /\ recovery[r].at \in {"waiting", "requeued"}
  /\ guardOf[recovery[r].board] = "free"
  /\ guardOf' = [guardOf EXCEPT ![recovery[r].board] = "recover"]
  /\ RecoveryGoes(r, IF recovery[r].at = "waiting" THEN "ladder" ELSE "probing")
  /\ UNCHANGED <<bench, registry, scan, enrichVars, active>>

RecoveryLeaves(r, at, answer) ==
  /\ guardOf' = [guardOf EXCEPT ![recovery[r].board] = "free"]
  /\ recovery' = [recovery EXCEPT ![r].at = at, ![r].recovered = answer, ![r].answered = answer]

\* The safe ladder: a node that answers needs nothing; a soft reset does not
\* help where nobody answers; the slot's power is the last rung.
Ladder(r) ==
  /\ recovery[r].at = "ladder"
  /\ IF Answers(recovery[r].port) \/ recovery[r].slot = Nowhere
     THEN RecoveryLeaves(r, "rereading", Answers(recovery[r].port)) /\ UNCHANGED bus
     ELSE RecoveryGoes(r, "checking") /\ PowerCycle(recovery[r].slot) /\ UNCHANGED guardOf
  /\ UNCHANGED <<testing, left, registry, scan, enrichVars, active>>

\* is_healthy on the path it was given, once in the ladder and once after it.
RecoveryProbes(r) ==
  /\ recovery[r].at \in {"checking", "probing"}
  /\ RecoveryLeaves(r, IF recovery[r].at = "checking" THEN "rereading" ELSE "done",
                    Answers(recovery[r].port))
  /\ UNCHANGED <<bench, registry, scan, enrichVars, active>>

\* Fault: a row that is online again is taken for a recovery.
ReappearedIsEnough(r) ==
  [recovery[r] EXCEPT !.at = "done", !.recovered = @ \/ rows[recovery[r].board].online]

\* Being enumerated again is not being recovered: the node must answer.
Reappeared(r) ==
  LET row == rows[recovery[r].board] IN
  IF ~recovery[r].recovered /\ row.online
  THEN [recovery[r] EXCEPT !.at = "requeued", !.port = row.port]
  ELSE [recovery[r] EXCEPT !.at = "done"]

RecoveryRereads(r) ==
  /\ recovery[r].at = "rereading"
  /\ recovery' = [recovery EXCEPT ![r] = Reappeared(r)]
  /\ UNCHANGED <<bench, registry, scan, enrichVars, guardOf, active>>

RecoveryOver(r) ==
  /\ recovery' = [recovery EXCEPT ![r] = NoRecovery]
  /\ active' = active \ {recovery[r].board}
  /\ UNCHANGED <<bench, registry, scan, enrichVars, guardOf>>

RecoveryEnds(r) == recovery[r].at = "done" /\ RecoveryOver(r)

\* The guard refuses a port that is claimed or wedged, and the call raises.
RecoveryRefused(r) == recovery[r].at \in {"waiting", "requeued"} /\ RecoveryOver(r)

Recover(r) ==
  \/ RecoveryBegins(r) \/ RecoveryEnters(r) \/ Ladder(r) \/ RecoveryProbes(r)
  \/ RecoveryRereads(r) \/ RecoveryEnds(r)

-----------------------------------------------------------------------------
(* What the operator does to a row.                                        *)

\* Only a device that is offline may be forgotten; that is asked first.
ForgetAsks ==
  /\ forgetting = Nowhere /\ Spend("forgets")
  /\ \E b \in Boards : rows[b].known /\ ~rows[b].online /\ forgetting' = b
  /\ UNCHANGED <<bus, testing, rows, scan, enrichVars, guardOf, recoveryVars>>

Forgets ==
  /\ forgetting # Nowhere
  /\ rows' = [rows EXCEPT ![forgetting] = NoRow] /\ forgetting' = Nowhere
  /\ UNCHANGED <<bench, scan, enrichVars, guardOf, recoveryVars>>

\* An env that is given pins it; none releases the pin.
SetEnv ==
  /\ Spend("pins")
  /\ \E b \in Boards, pin \in BOOLEAN :
       /\ rows[b].known
       /\ rows' = [rows EXCEPT ![b].env = IF pin THEN "pinned" ELSE "none", ![b].locked = pin]
  /\ UNCHANGED <<bus, testing, forgetting, scan, enrichVars, guardOf, recoveryVars>>

-----------------------------------------------------------------------------

DiscNext ==
  \/ BenchChanges \/ TestRunEnds \/ Scan
  \/ \E b \in Boards : Enrich(b) \/ BackoffEnds(b) \/ CooldownEnds(b)
  \/ \E r \in Recoveries : RecoveryAsks(r) \/ Recover(r) \/ RecoveryRefused(r)
  \/ ForgetAsks \/ Forgets \/ SetEnv

DiscSpec == DiscInit /\ [][DiscNext]_discVars

(***************************************************************************)
(* The loop scans, tasks go on, the guard is FIFO, a backoff is 60 s, a    *)
(* test run ends.  Nothing is assumed of the bench, of the operator, or of *)
(* what becomes of a cooldown.                                             *)
(***************************************************************************)
DiscFairness ==
  /\ WF_discVars(Scan) /\ WF_discVars(TestRunEnds \/ Forgets)
  /\ \A b \in Boards :
       WF_discVars(Enrich(b)) /\ WF_discVars(BackoffEnds(b))
  /\ \A r \in Recoveries : WF_discVars(Recover(r))

DiscFair == DiscSpec /\ DiscFairness

-----------------------------------------------------------------------------
(* Properties.                                                             *)

DiscTypeOK ==
  /\ \A b \in Boards :
       /\ bus[b].port \in Ports \cup {Nowhere} /\ bus[b].slot \in Slots \cup {Nowhere}
       /\ rows[b].port \in Ports \cup {Nowhere} /\ rows[b].slot \in Slots \cup {Nowhere}
       /\ rows[b].env \in {"none", "auto", "pinned"}
       /\ ~rows[b].known => rows[b] = NoRow
       /\ enriched[b] \in Ports \cup {Nowhere}
       /\ guardOf[b] \in {"free", "enrich", "recover"}
       /\ enrich[b].at \in {"idle", "begun", "waiting", "connecting", "read",
                            "write", "gone", "failed", "probing", "cycling"}
       /\ b \in enriching <=> enrich[b].at # "idle"
  /\ Apart([b \in Boards |-> bus[b].port])
  /\ \A r \in Recoveries :
       recovery[r].at \in {"idle", "asked", "waiting", "ladder", "checking", "rereading",
                           "requeued", "probing", "done"}
  /\ scan.at \in {"idle", "listed", "next", "write", "written", "slot", "slotted", "offline", "off"}
  /\ backoff \cup cooldown \cup active \subseteq Boards

\* One recovery at a time for a device, and a mark in _active exactly while it
\* lasts: a mark left behind refuses every later recovery (recovery.py:57-85,
\* 138-140).
RecoveryIsOne ==
  \A b \in Boards :
    Cardinality({r \in Recoveries : recovery[r].board = b /\ recovery[r].at # "asked"})
      = (IF b \in active THEN 1 ELSE 0)

\* A recovery reported as successful had an answer from a node after it began;
\* a board that merely enumerates again does not count (recovery.py:103-109).
RecoveredAnswered == \A r \in Recoveries : recovery[r].recovered => recovery[r].answered

\* The port guard of a board is held by the enrichment or the recovery that is
\* inside it, and given back over every failure (portlock.py, discovery.py:196).
GuardIsHeld ==
  \A b \in Boards :
    /\ guardOf[b] = "enrich" <=> enrich[b].at \in {"connecting", "read", "write", "gone"}
    /\ guardOf[b] = "recover" <=>
         \E r \in Recoveries : recovery[r].board = b
           /\ recovery[r].at \in {"ladder", "checking", "probing"}

\* Enrichment and recovery keep to their guard, and say of a board what is true.
DiscInv == DiscTypeOK /\ RecoveryIsOne /\ RecoveredAnswered /\ GuardIsHeld

\* A wedged board whose row names a slot it does not sit in has the board that
\* does sit there power-cycled, and again after every cooldown: "cooldown-limited so
\* it can't loop" (discovery.py:250) keeps these apart and does not end them.
WedgedSlotsTrue ==
  \A b \in Boards : bus[b].wedged => rows[b].slot \in {Nowhere, bus[b].slot}

MatchesBench(b) ==
  IF bus[b].port = Nowhere THEN ~rows[b].online
  ELSE rows[b].online /\ rows[b].port = bus[b].port /\ bus[b].slot \in {rows[b].slot, Nowhere}

StaysHealthy(b) == bus[b].port # Nowhere /\ ~bus[b].wedged

\* When the bench comes to rest the registry says what is plugged in where,
\* though scans overlap replugs, are torn between their two enumerations, and
\* break off over a row that was forgotten (discovery.py:79-140).  And a board
\* that stays where it is and answers is read in the end: a gate, a claim, a
\* backoff or a run in progress only puts the enrichment off (discovery.py:154-177).
\* Power cycles go on for ever over a wedged board with a stale slot alone.
DiscoverySettles ==
  <>[]WedgedSlotsTrue =>
    /\ <>[](\A b \in Boards : MatchesBench(b))
    /\ \A b \in Boards :
         <>[]StaysHealthy(b) => <>[](StaysHealthy(b) => enriched[b] = bus[b].port)

\* A pinned env is not touched by what is read off the device (discovery.py:16,
\* repo_devices.py:150-151).
PinnedEnvKept ==
  [][\A b \in Boards : rows[b].locked /\ rows'[b].locked => rows'[b].env = rows[b].env]_discVars

=============================================================================
