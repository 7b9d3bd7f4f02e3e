----------------------------- MODULE MCRouting -----------------------------
(* Instances of the routing controller for TLC. *)
EXTENDS RoutingController

CONSTANTS amn0, r1, r2, r3

(* A full tunnel with a server policy, DNS and an internal route; a split   *)
(* tunnel with a server policy and DNS; one with a fixed route and no DNS;  *)
(* a profile that only has DNS.                                             *)
MCProfiles ==
  {[id |-> "full", mode |-> "all-except", iface |-> amn0, forward |-> {r1}, rules |-> TRUE,
    dns |-> TRUE, critical |-> {r3}],
   [id |-> "split", mode |-> "only-forward", iface |-> amn0, forward |-> {r1}, rules |-> TRUE,
    dns |-> TRUE, critical |-> {}],
   [id |-> "plain", mode |-> "only-forward", iface |-> amn0, forward |-> {r2}, rules |-> FALSE,
    dns |-> FALSE, critical |-> {}],
   [id |-> "dns", mode |-> "only-forward", iface |-> amn0, forward |-> {}, rules |-> FALSE,
    dns |-> TRUE, critical |-> {}]}

MCPolicyRoutes == [v \in Revisions |-> IF v = 1 THEN {r2} ELSE {r3}]
=============================================================================
