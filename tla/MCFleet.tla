------------------------------- MODULE MCFleet -------------------------------
(***************************************************************************)
(* What must end, settle or stay exclusive on the bench: the users of one  *)
(* port, in three scenes of PortArbiter, and the registry of the devices,  *)
(* in two of FleetDiscovery.  A behaviour is one of a single scene;        *)
(* nothing of the others is due in it.                                     *)
(*                                                                         *)
(*   "port"       one soak, one subscriber, two operations, one of them    *)
(*                rechecking                                               *)
(*   "bus"        one test run, one subscriber, and one soak or one        *)
(*                identify sweep                                           *)
(*   "wedge"      the operations over a monitor that one client keeps      *)
(*                subscribed, beside another that comes and goes; no soak  *)
(*   "discovery"  the discovery loop, enrichment and recovery              *)
(*   "stale"      the same over the row of a wedged board that names the   *)
(*                slot of another one; one board is enriched at a time     *)
(***************************************************************************)
EXTENDS FleetDiscovery, PortArbiter, TLC

CONSTANTS
  b1, b2, p1, p2, p3, s1,
  stays    \* the client that stays subscribed in the second scene and is not in the first

VARIABLE scene

\* The first board sits elsewhere than its row says; the second is new.  In the
\* second wiring the first has left the hub and is wedged, and the second has its slot.
Moved == b1 :> [port |-> p1, slot |-> s1, wedged |-> FALSE]

Replaced ==
  b1 :> [port |-> p1, slot |-> Nowhere, wedged |-> TRUE]
    @@ b2 :> [port |-> p2, slot |-> s1, wedged |-> FALSE]

FleetWired == {Moved, Replaced}

FleetStored ==
  b1 :> [known |-> TRUE, online |-> TRUE, port |-> p2, slot |-> s1,
         read |-> FALSE, env |-> "none", locked |-> FALSE]

Budget(changes, forgets, pins, partials, refusals) ==
  [changes |-> changes, forgets |-> forgets, pins |-> pins, partials |-> partials,
   refusals |-> refusals]

Rest == Budget(0, 0, 0, 0, 0)

FleetBudgets ==
  {Budget(2, 1, 0, 0, 0), Budget(1, 0, 0, 0, 1), Budget(0, 0, 2, 1, 0), Rest}
PinBudgets == {Budget(0, 0, 1, 0, 0)}

fleetVars == <<scene, vars, discVars>>

FleetInit ==
  /\ scene \in {"port", "bus", "wedge", "discovery", "stale"}
  /\ Init
  /\ IF scene \in {"discovery", "stale"}
     THEN /\ DiscInit
          /\ IF scene = "stale" THEN bus[b2] # Unplugged /\ left = Rest
             ELSE bus[b2] = Unplugged
     ELSE /\ DiscFresh /\ left = Rest
          /\ bus = [b \in Boards |-> Unplugged] /\ rows = [b \in Boards |-> NoRow]
          /\ scan = [Resting EXCEPT !.at = "off"]

\* Who takes part in a scene, and when.
Idle(ps) == \A p \in ps : pc'[p] = "idle"

PortScene == Idle(Runs \cup Sweeps \cup {stays})

BusScene == Idle(Ops \cup {stays}) /\ (Idle(Owners) \/ Idle(Sweeps))

WedgeScene ==
  /\ Idle(Owners \cup Runs \cup Sweeps)
  /\ \A p \in Ops \cup (Clients \ {stays}) : pc'[p] # "idle" => pc[stays] = "subscribed"
  /\ pc[stays] = "subscribed" => pc'[stays] = "subscribed"

\* Two paths do where one board is plugged in at first.
DiscoveryScene == \A b \in Boards : bus'[b].port # p3

StaleScene == \E b \in Boards : enrich'[b].at = "idle"

FleetNext ==
  \/ scene = "port" /\ Next /\ PortScene /\ UNCHANGED <<scene, discVars>>
  \/ scene = "bus" /\ Next /\ BusScene /\ UNCHANGED <<scene, discVars>>
  \/ scene = "wedge" /\ Next /\ WedgeScene /\ UNCHANGED <<scene, discVars>>
  \/ scene = "discovery" /\ DiscNext /\ DiscoveryScene /\ UNCHANGED <<scene, vars>>
  \/ scene = "stale" /\ DiscNext /\ StaleScene /\ UNCHANGED <<scene, vars>>

FleetSpec == FleetInit /\ [][FleetNext]_fleetVars /\ Fairness /\ DiscFairness

\* The port is never double-opened where the monitor stays known.
NeverDoubleOpenedThere == scene = "wedge" => NeverDoubleOpened

=============================================================================
