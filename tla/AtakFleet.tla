------------------------------ MODULE AtakFleet ------------------------------
(***************************************************************************)
(* The fleet of ATAK emulators: the tools atak_fleet_up and                *)
(* atak_fleet_down of server.py, whose bring-up runs in a thread, the      *)
(* cloning, booting and provisioning of emulator/atak.py, and the command  *)
(* "fleet down" of atak_cli.py, a process of its own.  Emulators and their *)
(* disks outlive the server; what it knows of them does not.               *)
(***************************************************************************)
EXTENDS Naturals, Sequences, Functions

CONSTANTS
  Count,          \* nodes of a fleet
  Consoles,       \* console ports 1 .. Consoles
  Relays,         \* relay ports a caller may ask for
  NoRelay,
  MaxUps, MaxClis, MaxAtakDeaths

Nodes == 0 .. Count - 1
Serials == 1 .. Consoles

ASSUME AtakAssumption ==
  /\ Count \in Nat \ {0} /\ Consoles \in Nat \ {0} /\ NoRelay \notin Relays
  /\ MaxUps \in Nat /\ MaxClis \in Nat /\ MaxAtakDeaths \in Nat

VARIABLES
  upPhase,       \* _ATAK_UP["phase"]
  fleet,       \* _ATAK_FLEET: node and serial of each, in order
  up,          \* fleet_up: its position, node, port, and the nodes recorded
  kills,       \* fleet_down: who runs it, the nodes left, the clones to delete
  cli,         \* the command line's fleet down: the serials and the clones left
  clones,      \* the AVD of each node: none, dir, raw, whole
  snaps,       \* the relay a provisioned snapshot of each node points at
  emus,        \* the emulator at each console port
  abandoned,   \* history: serials a teardown that raised did not come to
  ups, clis, atakDeaths

memory == <<upPhase, fleet, up, kills>>
disk == <<clones, snaps>>
counts == <<ups, clis, atakDeaths>>
atakVars == <<memory, cli, disk, emus, abandoned, counts>>

NoEmu == [state |-> "none", node |-> 0, relay |-> NoRelay]

NotUp == [at |-> "off", node |-> 0, serial |-> 1, snap |-> FALSE, relay |-> NoRelay,
          nodes |-> <<>>]

NoKills == [by |-> "nobody", left |-> <<>>, delete |-> <<>>]

NoCli == [by |-> "nobody", left |-> {}, delete |-> {}]

AtakFresh ==
  /\ upPhase = "idle" /\ fleet = <<>> /\ kills = NoKills
  /\ clones = [n \in Nodes |-> "none"] /\ snaps = [n \in Nodes |-> NoRelay]
  /\ emus = [s \in Serials |-> NoEmu] /\ abandoned = {}
  /\ ups = 0 /\ clis = 0 /\ atakDeaths = 0

AtakInit == up = NotUp /\ cli = NoCli /\ AtakFresh

UpGoes(at) == up' = [up EXCEPT !.at = at]

Up(at) == up.at = at /\ UNCHANGED <<upPhase, fleet, kills, cli, abandoned, counts>>

Running(s) == emus[s].state \in {"booting", "up"}

-----------------------------------------------------------------------------
(* Bringing up, node by node.                                              *)

UpAsked(relay) ==
  /\ fleet = <<>> /\ upPhase \notin {"bringing_up", "tearing_down"} /\ ups < MaxUps
  /\ ups' = ups + 1 /\ upPhase' = "bringing_up"
  /\ up' = [NotUp EXCEPT !.at = "cloning", !.relay = relay]
  /\ UNCHANGED <<fleet, kills, cli, disk, emus, abandoned, clis, atakDeaths>>

\* A clone that has both its directory and its ini is used as it is.
Reuses ==
  /\ Up("cloning") /\ clones[up.node] \in {"raw", "whole"} /\ UpGoes("allocating")
  /\ UNCHANGED <<disk, emus>>

\* copytree refuses a directory that is there, and may run out of space.
Copies ==
  /\ Up("cloning") /\ clones[up.node] = "none"
  /\ clones' = [clones EXCEPT ![up.node] = "dir"]
  /\ (UpGoes("copied") \/ UpGoes("failed"))
  /\ UNCHANGED <<snaps, emus>>

CopyRefused ==
  /\ Up("cloning") /\ clones[up.node] = "dir" /\ UpGoes("failed")
  /\ UNCHANGED <<disk, emus>>

\* The ini makes it an AVD; the locks of the base are still in it.
WritesIni ==
  /\ Up("copied") /\ clones' = [clones EXCEPT ![up.node] = "raw"] /\ UpGoes("stripping")
  /\ UNCHANGED <<snaps, emus>>

\* What was deleted meanwhile stays so.
Strips ==
  /\ Up("stripping") /\ UpGoes("allocating")
  /\ clones' = [clones EXCEPT ![up.node] = IF @ = "raw" THEN "whole" ELSE @]
  /\ snaps' = [snaps EXCEPT ![up.node] = NoRelay]
  /\ UNCHANGED emus

\* The first free port from the one of the node upwards.
Allocates ==
  /\ Up("allocating")
  /\ LET free == {s \in Serials : s > up.node /\ emus[s].state = "none"} IN
     IF free = {} THEN UpGoes("failed")
     ELSE \E s \in free :
            /\ \A t \in free : s <= t
            /\ up' = [up EXCEPT !.at = "launching", !.serial = s,
                                !.snap = snaps[up.node] # NoRelay]
  /\ UNCHANGED <<disk, emus>>

\* An AVD that runs already, or whose locks are there, does not start: then the
\* wait for its boot is in vain.
Launches ==
  /\ Up("launching") /\ UpGoes("booting")
  /\ emus' = IF clones[up.node] = "whole"
                /\ \A s \in Serials : emus[s].state # "none" => emus[s].node # up.node
             THEN [emus EXCEPT ![up.serial] =
                    [state |-> "booting", node |-> up.node,
                     relay |-> IF up.snap THEN snaps[up.node] ELSE NoRelay]]
             ELSE emus
  /\ UNCHANGED disk

\* Fault: a node is in the fleet only when it is provisioned.
BootsUnrecorded ==
  /\ Up("booting") /\ emus[up.serial].state = "booting"
  /\ emus' = [emus EXCEPT ![up.serial].state = "up"]
  /\ up' = [up EXCEPT !.at = IF up.snap THEN "next" ELSE "provisioning"]
  /\ UNCHANGED disk

Boots ==
  /\ Up("booting") /\ emus[up.serial].state = "booting"
  /\ emus' = [emus EXCEPT ![up.serial].state = "up"]
  /\ up' = [up EXCEPT !.at = IF up.snap THEN "next" ELSE "provisioning",
                      !.nodes = Append(@, [node |-> up.node, serial |-> up.serial])]
  /\ UNCHANGED disk

\* The process is terminated where "emu kill" does not reach it.
BootFails ==
  /\ Up("booting") /\ UpGoes("failed")
  /\ emus' = [emus EXCEPT ![up.serial] = NoEmu]
  /\ UNCHANGED disk

ProvisionFails == Up("provisioning") /\ UpGoes("failed") /\ UNCHANGED <<disk, emus>>

Provisions ==
  /\ Up("provisioning") /\ emus[up.serial].state = "up" /\ UpGoes("saving")
  /\ emus' = [emus EXCEPT ![up.serial].relay = up.relay]
  /\ UNCHANGED disk

\* A snapshot that could not be saved is not noticed.
SavesSnapshot ==
  /\ Up("saving") /\ UpGoes("next")
  /\ \/ /\ emus[up.serial].state = "up" /\ clones[up.node] = "whole"
        /\ snaps' = [snaps EXCEPT ![up.node] = up.relay]
     \/ UNCHANGED snaps
  /\ UNCHANGED <<clones, emus>>

NextNode ==
  /\ Up("next") /\ up.node + 1 < Count
  /\ up' = [up EXCEPT !.at = "cloning", !.node = @ + 1]
  /\ UNCHANGED <<disk, emus>>

UpReady ==
  /\ up.at = "next" /\ up.node + 1 = Count
  /\ fleet' = up.nodes /\ upPhase' = "ready" /\ up' = NotUp
  /\ UNCHANGED <<kills, cli, disk, emus, abandoned, counts>>

\* Whatever came up is taken down again.
UpFails ==
  /\ up.at = "failed" /\ kills.by = "nobody"
  /\ kills' = [by |-> "up", left |-> up.nodes, delete |-> <<>>] /\ UpGoes("undoing")
  /\ UNCHANGED <<upPhase, fleet, cli, disk, emus, abandoned, counts>>

-----------------------------------------------------------------------------
(* Taking down.                                                            *)

DownAsked(delete) ==
  /\ upPhase \notin {"bringing_up", "tearing_down"} /\ fleet # <<>>
  /\ kills' = [by |-> "down", left |-> fleet, delete |-> IF delete THEN fleet ELSE <<>>]
  /\ fleet' = <<>> /\ upPhase' = "tearing_down"
  /\ UNCHANGED <<up, cli, disk, emus, abandoned, counts>>

\* What the console of a serial is told hits whatever runs there; the emulator
\* takes its time to exit.
Killed(s) == IF Running(s) THEN [emus EXCEPT ![s].state = "dying"] ELSE emus

KillsNext ==
  /\ kills.left # <<>>
  /\ emus' = Killed(Head(kills.left).serial)
  /\ kills' = [kills EXCEPT !.left = Tail(@)]
  /\ UNCHANGED <<upPhase, fleet, up, cli, disk, abandoned, counts>>

Deletes ==
  /\ kills.left = <<>> /\ kills.delete # <<>>
  /\ LET n == Head(kills.delete).node IN
     /\ clones' = [clones EXCEPT ![n] = "none"]
     /\ snaps' = [snaps EXCEPT ![n] = NoRelay]
  /\ kills' = [kills EXCEPT !.delete = Tail(@)]
  /\ UNCHANGED <<upPhase, fleet, up, cli, emus, abandoned, counts>>

KillsOver(raised) ==
  /\ kills.by # "nobody"
  /\ kills' = NoKills
  /\ upPhase' = IF kills.by = "up" THEN "error" ELSE "idle"
  /\ up' = IF kills.by = "up" THEN NotUp ELSE up
  /\ UNCHANGED <<fleet, cli, disk, emus, counts>>

\* A kill that exceeds adb's timeout raises, and the nodes from there on are left.
KillsRaise ==
  /\ kills.left # <<>> /\ KillsOver(TRUE)
  /\ abandoned' = abandoned \cup {m.serial : m \in Range(kills.left)}

KillsDone ==
  /\ kills.left = <<>> /\ kills.delete = <<>> /\ KillsOver(FALSE)
  /\ UNCHANGED abandoned

-----------------------------------------------------------------------------
(* The command line: it finds the emulators that are up by their names.    *)

Discovered == {s \in Serials : emus[s].state = "up"}

CliDown(delete) ==
  /\ cli.by = "nobody" /\ clis < MaxClis /\ clis' = clis + 1
  /\ cli' = [by |-> "cli", left |-> Discovered, delete |-> IF delete THEN Nodes ELSE {}]
  /\ UNCHANGED <<memory, disk, emus, abandoned, ups, atakDeaths>>

\* The serials come in the order in which adb lists them.
CliKills ==
  /\ \E s \in cli.left : emus' = Killed(s) /\ cli' = [cli EXCEPT !.left = @ \ {s}]
  /\ UNCHANGED <<memory, disk, abandoned, counts>>

\* It deletes every clone that has an ini, whoever uses it.
CliDeletes ==
  /\ cli.left = {}
  /\ \E n \in cli.delete :
       /\ clones' = [clones EXCEPT ![n] = IF @ = "dir" THEN @ ELSE "none"]
       /\ snaps' = [snaps EXCEPT ![n] = IF clones[n] = "dir" THEN @ ELSE NoRelay]
       /\ cli' = [cli EXCEPT !.delete = @ \ {n}]
  /\ UNCHANGED <<memory, emus, abandoned, counts>>

\* It ends when it is through, or by a kill that times out.
CliOver ==
  /\ cli.by = "cli" /\ (cli.left = {} => cli.delete = {}) /\ cli' = NoCli
  /\ UNCHANGED <<memory, disk, emus, abandoned, counts>>

-----------------------------------------------------------------------------
(* The emulators and the server.                                           *)

EmulatorExits(s) ==
  /\ emus[s].state = "dying" /\ emus' = [emus EXCEPT ![s] = NoEmu]
  /\ UNCHANGED <<memory, cli, disk, abandoned, counts>>

\* Emulators are started in sessions of their own.
AtakServerDies ==
  /\ atakDeaths < MaxAtakDeaths /\ upPhase # "idle" /\ atakDeaths' = atakDeaths + 1
  /\ upPhase' = "idle" /\ fleet' = <<>> /\ up' = NotUp /\ kills' = NoKills
  /\ UNCHANGED <<cli, disk, emus, abandoned, ups, clis>>

-----------------------------------------------------------------------------
UpStep ==
  \/ Reuses \/ Copies \/ CopyRefused \/ WritesIni \/ Strips \/ Allocates \/ Launches
  \/ Boots \/ BootFails \/ ProvisionFails \/ Provisions \/ SavesSnapshot \/ NextNode
  \/ UpReady \/ UpFails

KillsStep == KillsNext \/ Deletes \/ KillsRaise \/ KillsDone

AtakNext ==
  \/ \E relay \in Relays : UpAsked(relay)
  \/ \E delete \in BOOLEAN : DownAsked(delete)
  \/ \E delete \in BOOLEAN : CliDown(delete)
  \/ UpStep \/ KillsStep \/ CliKills \/ CliDeletes \/ CliOver \/ AtakServerDies
  \/ \E s \in Serials : EmulatorExits(s)

\* The calls there may be are used up, and nothing is under way.
AtakOver ==
  /\ ups = MaxUps /\ clis = MaxClis /\ fleet = <<>> /\ up.at = "off"
  /\ kills.by = "nobody" /\ cli.by = "nobody"

AtakSpec == AtakInit /\ [][AtakNext]_atakVars

-----------------------------------------------------------------------------
(* Properties.                                                             *)

Members == Seq([node : Nodes, serial : Serials])

AtakTypeOK ==
  /\ upPhase \in {"idle", "bringing_up", "ready", "error", "tearing_down"}
  /\ fleet \in Members /\ up.nodes \in Members
  /\ up.node \in Nodes /\ up.serial \in Serials /\ up.relay \in Relays \cup {NoRelay}
  /\ kills.left \in Members /\ kills.delete \in Members
  /\ cli.left \subseteq Serials /\ cli.delete \subseteq Nodes
  /\ clones \in [Nodes -> {"none", "dir", "raw", "whole"}]
  /\ snaps \in [Nodes -> Relays \cup {NoRelay}]
  /\ emus \in [Serials -> [state : {"none", "booting", "up", "dying"}, node : Nodes,
                           relay : Relays \cup {NoRelay}]]

Known(s) ==
  \/ \E m \in Range(fleet) \cup Range(up.nodes) \cup Range(kills.left) : m.serial = s
  \/ up.at = "booting" /\ up.serial = s

\* As long as the server lives, every emulator it started is in the fleet, in a
\* bring-up or in a teardown: none is orphaned by a bring-up that broke, unless a
\* teardown broke as well (atak.py:272-285, 698-708).
NothingOrphaned ==
  atakDeaths = 0 => \A s \in Serials : Running(s) => Known(s) \/ s \in abandoned

\* No bring-up meets the teardown of the fleet before it, whose clones and ports
\* it would use (server.py:3632-3636).
OneAtATime == up.at \notin {"off", "undoing"} => kills.by = "nobody"

\* The nodes of a fleet that is ready are provisioned, those restored from a
\* snapshot, too (atak.py:681-687).
ReadyIsProvisioned ==
  upPhase = "ready" => \A m \in Range(fleet) :
    emus[m.serial].state = "up" /\ emus[m.serial].node = m.node
      => emus[m.serial].relay # NoRelay

\* All nodes point at the relay that was asked for (atak.py:686-687); the request
\* is the one of the bring-up under way.
NodesPointAtRelay ==
  up.at = "next" /\ emus[up.serial].state = "up" => emus[up.serial].relay = up.relay

\* No call leaves the fleet "bringing_up" or "tearing_down" behind, not one that
\* raised either: the server would refuse every other (server.py:3549-3558, 3641-3644).
FleetHasWorker ==
  /\ upPhase = "bringing_up" => up.at # "off"
  /\ upPhase = "tearing_down" => kills.by = "down"

\* What the calls on a fleet leave behind, in whatever order they are cut short.
AtakInv ==
  AtakTypeOK /\ NothingOrphaned /\ OneAtATime /\ ReadyIsProvisioned /\ FleetHasWorker

=============================================================================
