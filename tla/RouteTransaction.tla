-------------------------- MODULE RouteTransaction --------------------------
(***************************************************************************)
(* What the route reconciler promises (headless/linuxRouteReconciler.cpp,  *)
(* its comments on atomic mutation and fail-closed recovery), without its  *)
(* commands, files and undo paths: the kernel's managed objects change     *)
(* from one promised set to another in one step, or the owner stops        *)
(* trusting itself and touches nothing until an operator has cleaned up.   *)
(***************************************************************************)
CONSTANTS Objects,      \* managed routes, table entries and rules: <<kind, what, link>>
          Links         \* VPN links

VARIABLES promised,     \* what the owner says it has installed
          inForce,      \* what the kernel holds
          trusted,      \* the owner believes what it says
          links         \* the links that exist

vars == <<promised, inForce, trusted, links>>

(* The owner starts on a clean host, or finds one it has yet to look at.   *)
Init == /\ promised = {} /\ links \in SUBSET Links
        /\ \/ trusted = TRUE /\ inForce = {}
           \/ trusted = FALSE /\ inForce \in SUBSET Objects

(* A transaction commits: the kernel holds exactly the new promise. *)
Commit == /\ trusted /\ trusted' /\ links' = links
          /\ promised' \in SUBSET Objects
          /\ inForce' = promised'

(* A transaction fails and is undone.  Objects of the promise that had     *)
(* been lost with a link may have come back.                               *)
Abort == /\ trusted /\ trusted' /\ links' = links
         /\ promised' = promised
         /\ inForce \subseteq inForce'
         /\ inForce' \subseteq inForce \cup promised

(* A transaction fails and cannot be undone, or the owner dies. *)
Distrust == /\ trusted /\ ~trusted' /\ links' = links
            /\ promised' = {} /\ inForce' \in SUBSET Objects

(* Links come and go; the objects on a link vanish with it, no others do. *)
Relink == /\ links' \in SUBSET Links
          /\ inForce' = {o \in inForce : o[3] \notin links \ links'}
          /\ promised' = promised /\ trusted' = trusted

(* A restart believes a receipt only if it accounts for the kernel. *)
Trust == /\ ~trusted /\ trusted' /\ links' = links
         /\ promised' \in SUBSET Objects
         /\ inForce' = inForce /\ inForce \subseteq promised'

(* The machine is rebooted while the owner is down. *)
Reboot == /\ ~trusted /\ ~trusted'
          /\ promised' = {} /\ inForce' = {} /\ links' = {}

(* The operator removes everything. *)
Recover == /\ trusted' /\ promised' = {} /\ inForce' = {} /\ links' = {}

Next == Commit \/ Abort \/ Distrust \/ Relink \/ Trust \/ Reboot \/ Recover

Spec == Init /\ [][Next]_vars

(* The kernel never holds an object the owner does not account for. *)
Accounted == trusted => inForce \subseteq promised
=============================================================================
