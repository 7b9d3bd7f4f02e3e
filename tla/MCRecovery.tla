----------------------------- MODULE MCRecovery ------------------------------
(***************************************************************************)
(* Durable state that must survive a failed change of configuration: the   *)
(* rollback of a headless installation, and the two clients of the         *)
(* migration service, each against its own server; and the tunnels of the  *)
(* headless backend, which must not outlive the session that owns them.  A *)
(* behaviour exercises the one its initial state picks.                    *)
(***************************************************************************)
EXTENDS RollbackCoordinator, HeadlessMigration, ClientMigration, VpnBackend

VARIABLE side   \* "rollback", "headless", "desktop" or "backend"

\* One profile per protocol, and two of AmneziaWG that share an interface.
BackendProtocols ==
    [w |-> "wireguard", a |-> "amneziawg", b |-> "amneziawg", o |-> "openvpn", x |-> "xray"]

recoveryVars == <<coordVars, controlVars, headlessVars, clientVars, backendVars, side>>

Init ==
    /\ CoordInit /\ ControlInit /\ HeadlessInit /\ ClientInit /\ BackendInit
    /\ side \in {"rollback", "headless", "desktop", "backend"}

RollbackSide ==
    /\ side = "rollback" /\ CoordStep
    /\ UNCHANGED <<controlVars, headlessVars, clientVars, backendVars, side>>
ServerSide ==
    /\ side \in {"headless", "desktop"} /\ ControlStep
    /\ UNCHANGED <<coordVars, headlessVars, clientVars, backendVars, side>>
HeadlessSide ==
    /\ side = "headless" /\ HeadlessStep
    /\ UNCHANGED <<coordVars, clientVars, backendVars, side>>
DesktopSide ==
    /\ side = "desktop" /\ ClientStep
    /\ UNCHANGED <<coordVars, headlessVars, backendVars, side>>
BackendSide ==
    /\ side = "backend" /\ BackendStep
    /\ UNCHANGED <<coordVars, controlVars, headlessVars, clientVars, side>>

Next == RollbackSide \/ ServerSide \/ HeadlessSide \/ DesktopSide \/ BackendSide

Spec == Init /\ [][Next]_recoveryVars

Shown(wire, receipt) == \E r \in grants : r.challenge = receipt.challenge /\ r.proved /\ r.shown = wire

\* A client gives up the configuration it came with only for a target the
\* server has answered it through: a committed headless journal and a desktop
\* profile that was swapped both hold a wire configuration some challenge of
\* theirs was answered over, whatever was lost, renewed, edited or restarted
\* in between.
SwitchIsProved ==
    /\ hj.phase = "committed" => Shown(hj.wire, hj.receipt)
    /\ prof.wire # NoWire => \E r \in grants : r.proved /\ r.shown = prof.wire

\* A generation is tried once: a second trial of it needs the proven teardown
\* of the connection that tried it before, and a headless profile never tries
\* it again.  Neither a crash nor a failed write buys another trial.
OneTrialPerGeneration ==
    \A g \in 1 .. MaxGenerations :
        hd.tries[g] <= 1 /\ link.tries[g] <= 1 + link.cleanups[g]

\* What both migration clients promise about a switch and its trials.
MigrationIsProved == SwitchIsProved /\ OneTrialPerGeneration
=============================================================================
