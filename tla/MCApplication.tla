---------------------------- MODULE MCApplication ----------------------------
(***************************************************************************)
(* Small instances of the parts of the client application that share no    *)
(* state: its encrypted settings, its process and operator mode, the       *)
(* connection guardian with the route inspector, and the subscriptions of  *)
(* the gateway.  "part" names the one a behaviour is about; the operator   *)
(* mode and the guardian are split into aspects, each with the inputs it   *)
(* needs.                                                                  *)
(***************************************************************************)
EXTENDS SecureSettings, OperatorMode, Guardian, Subscriptions

VARIABLE part

vars == <<settingsVars, operatorVars, guardianVars, subscriptionVars, part>>

\* A subscription and its renewal: two purchases for one key.
RenewedKey == [t \in Purchases |-> "vpn_key"]

Init ==
    /\ part \in {"settings", "instances", "status", "commands", "routes", "health", "inspector", "subscriptions"}
    /\ SettingsInit /\ OperatorInit /\ GuardianInit /\ SubscriptionsInit
    /\ part # "settings" => disk["servers"] = Absent
    /\ part # "subscriptions" => market = "play"

-----------------------------------------------------------------------------
(* The operator mode: two launchers race for the application only in the    *)
(* aspect about instances.                                                  *)

OnePath == CHOOSE p \in Paths : TRUE
OneLauncher == CHOOSE l \in Launchers : TRUE
OneHost == CHOOSE h \in Hosts : TRUE

Alone ==
    /\ pids' <= 1
    /\ \A l \in Launchers : proc'[l].at # "off" => l = OneLauncher /\ proc'[l].path = OnePath

\* Only the answers to status and doctor depend on a snapshot's age.
AgedForStatus == view'.aged => client'.kind # "disconnect" /\ ~stopping'.on

Operates ==
    \/ part = "instances" /\ (ProcessStep \/ WatchStep)
    \/ part \in {"status", "commands", "routes"} /\ ProcessStep /\ Alone
    \/ part = "status" /\ WorkerStep
    \/ part = "routes" /\ WorkerStep /\ ~view'.aged /\ Len(inbox') <= 1
    \/ part = "commands" /\ WorkerStep /\ worker'.host \in {NoHost, OneHost} /\ worker'.receipt = NoReceipt
                          /\ Len(inbox') <= 2 /\ AgedForStatus
    \/ part = "status" /\ WatchStep
    \/ part = "commands" /\ ClientStep /\ client'.kind # "explain" /\ AgedForStatus
    \/ part = "routes" /\ RoutingStep
    \/ part = "routes" /\ ClientStep /\ client'.kind \in {"none", "explain"}

-----------------------------------------------------------------------------
(* The guardian: at most four signals wait in its queue, and a lookup has   *)
(* at most two addresses.  The inspector tells apart a tunnel that is up,   *)
(* one that is coming and one that is not, so one way down is enough there; *)
(* only a probe asks whether the application itself is routed.             *)

QueueBound == 4
AddressBound == 2

\* A state that is only announced again is heard as it was.
Moved == tunnel' # tunnel \/ signals = <<>>

Guards ==
    \/ part = "health" /\ TunnelStep /\ Moved /\ rules'.policy = 0 /\ Len(signals') <= QueueBound
    \/ part = "health" /\ GuardStep
    \/ part = "inspector" /\ signals = <<>> /\ (TunnelStep \/ InspectStep)
       /\ tunnel'.st \notin {"disconnecting", "error"} /\ tunnel'.routed
       /\ (question'.at = "asked" =>
               IF question'.cut THEN Cardinality(question'.addresses) = AddressBound
               ELSE Cardinality(question'.addresses) <= AddressBound)
    \/ part = "inspector" /\ (HearEpoch \/ HearState)

Next ==
    /\ UNCHANGED part
    /\ \/ part = "settings" /\ SettingsStep /\ UNCHANGED <<operatorVars, guardianVars, subscriptionVars>>
       \/ Operates /\ UNCHANGED <<settingsVars, guardianVars, subscriptionVars>>
       \/ Guards /\ UNCHANGED <<settingsVars, operatorVars, subscriptionVars>>
       \/ part = "subscriptions" /\ SubscriptionStep /\ UNCHANGED <<settingsVars, operatorVars, guardianVars>>

Spec == Init /\ [][Next]_vars

=============================================================================
