--------------------------- MODULE MCClientSession ---------------------------
EXTENDS ConnectionController
CONSTANTS r1, r2, r3
MCPolicies == {[rev |-> 1, mode |-> "forward", routes |-> {}, named |-> FALSE],
               [rev |-> 2, mode |-> "except", routes |-> {r1}, named |-> FALSE],
               [rev |-> 3, mode |-> "except", routes |-> {r1}, named |-> TRUE]}
=============================================================================
