--------------------------- MODULE MCSystemService ---------------------------
(***************************************************************************)
(* The privileged service, one part at a time: the parts share no state,   *)
(* so a behaviour exercises the one its initial state picks.               *)
(***************************************************************************)
EXTENDS SplitTunnel, WindowsTunnel, LinuxTunnel, ProcessCapabilities, TLC

VARIABLE part   \* the part of the service this behaviour is about

serviceVars == <<splitVars, firewallVars, tunnelVars, linuxVars, processes, part>>

\* Symmetric connections of the Linux daemon.
CallerSymmetry == Permutations(Callers)

OnePeer == CHOOSE p \in Peers : TRUE
OneServer == CHOOSE s \in Servers : TRUE

\* Without excluded addresses every server; with them only one.
PlainConfigs == {c \in TunnelConfigs : c.excluded = {}}
ExcludingConfigs == {c \in TunnelConfigs : c.peer = OnePeer}
ServerConfigs == {c \in Wanted : c.excluded = IF c.server = OneServer THEN Excludable ELSE {}}

Init ==
    /\ SplitInit /\ FirewallInit /\ TunnelInit /\ LinuxInit /\ CapabilitiesInit
    /\ part \in {"split tunnel", "kill switch", "exclusions", "linux", "processes"}

SplitSide ==
    /\ part = "split tunnel" /\ SplitStep
    /\ UNCHANGED <<firewallVars, tunnelVars, linuxVars, processes, part>>

KillSwitchSide ==
    /\ part = "kill switch" /\ (WindowsHostStep \/ WindowsStep(PlainConfigs))
    /\ UNCHANGED <<splitVars, linuxVars, processes, part>>

ExclusionSide ==
    /\ part = "exclusions" /\ WindowsStep(ExcludingConfigs)
    /\ UNCHANGED <<splitVars, linuxVars, processes, part>>

LinuxSide ==
    /\ part = "linux" /\ LinuxStep(ServerConfigs)
    /\ UNCHANGED <<splitVars, firewallVars, tunnelVars, processes, part>>

ProcessSide ==
    /\ part = "processes" /\ CapabilityStep
    /\ UNCHANGED <<splitVars, firewallVars, tunnelVars, linuxVars, part>>

Next == SplitSide \/ KillSwitchSide \/ ExclusionSide \/ LinuxSide \/ ProcessSide

Spec == Init /\ [][Next]_serviceVars
=============================================================================
