---------------------------- MODULE MCSelfHosted ----------------------------
(***************************************************************************)
(* Small instances of what the client does to a self-hosted server over    *)
(* SSH: the transport itself, the publication of routing rules and the     *)
(* administration of a container.  "part" names the one a behaviour is     *)
(* about.                                                                  *)
(***************************************************************************)
EXTENDS RulesPublication, SshClient, ServerAdmin, TLC

VARIABLE part

vars == <<pubVars, sshVars, adminVars, part>>

Init == part \in {"rules", "ssh", "admin"} /\ PubInit /\ SshInit /\ AdminInit
            /\ (part # "admin" => vpn.proto = "xray" /\ \A a \in Admins : ~book[a].has)

Next ==
    /\ UNCHANGED part
    /\ \/ part = "rules" /\ PubStep /\ UNCHANGED <<sshVars, adminVars>>
       \/ part = "ssh" /\ SshStep /\ UNCHANGED <<pubVars, adminVars>>
       \/ part = "admin" /\ AdminStep /\ UNCHANGED <<pubVars, sshVars>>

Spec == Init /\ [][Next]_vars

\* Rules a user may enter: one host, or the same host written as a prefix
\* together with a domain.
Lists == {{"host"}, {"host/32", "domain"}}

Symmetric == Permutations(Publishers)

=============================================================================
