---------------------------- MODULE PortOwnership ----------------------------
(***************************************************************************)
(* What PortLocks promises for one device, whatever the mechanism: the     *)
(* port passes from nobody to one user and from that user back to nobody.  *)
(* A user never takes it over from another, and two users never share it.  *)
(***************************************************************************)
CONSTANTS Users, None

VARIABLE user

Init == user = None

Take(u) == user = None /\ user' = u
Drop(u) == user = u /\ user' = None

Next == \E u \in Users : Take(u) \/ Drop(u)

Spec == Init /\ [][Next]_user

=============================================================================
