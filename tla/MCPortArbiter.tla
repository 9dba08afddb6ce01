---------------------------- MODULE MCPortArbiter ----------------------------
(***************************************************************************)
(* Two things that are shared on the host, in one instance for TLC: a      *)
(* serial port, whose users are interchangeable within their kind, and the *)
(* ports and disks of the ATAK emulators.  A behaviour is one of either.   *)
(*                                                                         *)
(*   "port"  all users of the port, one test run at a time                 *)
(*   "runs"  two requests to the test runner, which overlap and reset each *)
(*           other, over an operation that does not recheck and two        *)
(*           subscribers                                                   *)
(*   "atak"  the emulators                                                 *)
(***************************************************************************)
EXTENDS PortArbiter, AtakFleet, TLC

VARIABLE scene

hostVars == <<scene, vars, atakVars>>

HostInit == scene \in {"port", "runs", "atak"} /\ Init /\ AtakInit

\* Who takes part in a scene.
PortScene == \A p, q \in Runs : pc'[p] # "idle" /\ pc'[q] # "idle" => p = q

RunsScene == \A p \in Owners \cup Sweeps \cup Rechecking : pc'[p] = "idle"

HostNext ==
  \/ scene = "port" /\ Next /\ PortScene /\ UNCHANGED <<scene, atakVars>>
  \/ scene = "runs" /\ Next /\ RunsScene /\ UNCHANGED <<scene, atakVars>>
  \/ scene = "atak" /\ AtakNext /\ UNCHANGED <<scene, vars>>
  \/ scene = "atak" /\ AtakOver /\ UNCHANGED hostVars

HostSpec == HostInit /\ [][HostNext]_hostVars

Symmetry ==
  Permutations(Ops \ Rechecking) \cup Permutations(Clients)
    \cup Permutations(Readers) \cup Permutations(Runs)

=============================================================================
