------------------------------ MODULE VpnBackend ------------------------------
(***************************************************************************)
(* headless/vpnBackend.cpp and embeddedAwgBackend.cpp: the tunnels of the  *)
(* headless daemon.  WireGuard and AmneziaWG are brought up and down by a  *)
(* quick helper that ends, OpenVPN and XRay are child processes, and the   *)
(* candidate of a migration runs in an embedded amneziawg-go.  The backend *)
(* knows one session; what the kernel has is another matter.               *)
(*                                                                         *)
(* A call is a row of steps: helpers run for seconds, in nested event      *)
(* loops, while children exit and interfaces come and go.  A helper's      *)
(* failure, a step that times out and a directory that cannot be removed   *)
(* count as troubles.                                                      *)
(***************************************************************************)
EXTENDS Naturals, FiniteSets

CONSTANTS Tunnels,      \* the profiles
          NoTunnel,     \* no profile
          ProtocolOf,   \* profile -> its protocol, normalised
          Managed,      \* profiles with forward routes or server rules
          FullTunnel,   \* profiles in all-except mode
          MaxTroubles,  \* bound: failures
          MaxCalls      \* bound: calls of the daemon

Protocols == {"wireguard", "amneziawg", "openvpn", "xray"}
OneShot == {"wireguard", "amneziawg"}
isLongRunningProtocol(protocol) == protocol \in {"openvpn", "xray"}

ASSUME BackendAssumption ==
    /\ NoTunnel \notin Tunnels
    /\ ProtocolOf \in [Tunnels -> Protocols]
    /\ Managed \subseteq Tunnels /\ FullTunnel \subseteq Tunnels
    /\ MaxTroubles \in Nat /\ MaxCalls \in Nat

\* The interface a profile that names none gets; XRay is a proxy and has none.
Interfaces == {"wg0", "amn0", "tun0"}
NoInterface == "none"
InterfaceOf(p) ==
    CASE ProtocolOf[p] = "wireguard" -> "wg0"
      [] ProtocolOf[p] = "amneziawg" -> "amn0"
      [] ProtocolOf[p] = "openvpn" -> "tun0"
      [] ProtocolOf[p] = "xray" -> NoInterface

VARIABLES
    own,     \* m_session and m_embedded
    child,   \* RealCommandRunner's m_processes: profile -> its process
    core,    \* the embedded amneziawg-go runs
    links,   \* interface -> the profile it was configured from
    staged,  \* staging directories on the disk
    call,    \* the call in progress
    reported,\* the profile of the last connect that was answered with success
    running, \* the daemon runs
    count    \* bounds: troubles, calls, directories made

backendVars == <<own, child, core, links, staged, call, reported, running, count>>

NoSession == [id |-> NoTunnel, embedded |-> FALSE, dir |-> 0, seen |-> FALSE]
NoCall == [op |-> "none", at |-> "none", id |-> NoTunnel, dir |-> 0]

BackendInit ==
    /\ own = NoSession /\ call = NoCall
    /\ child = [p \in Tunnels |-> "none"] /\ core = FALSE
    /\ links = [i \in Interfaces |-> NoTunnel]
    /\ staged = {} /\ reported = NoTunnel /\ running = TRUE
    /\ count = [troubles |-> 0, calls |-> 0, dirs |-> 0]

-----------------------------------------------------------------------------
(* Steps.                                                                  *)

InStep(op, at) == running /\ call.op = op /\ call.at = at
Goes(at) == call' = [call EXCEPT !.at = at]
Returns == call' = NoCall
Fine == UNCHANGED count
Trouble == count.troubles < MaxTroubles /\ count' = [count EXCEPT !.troubles = @ + 1]

\* QDir::removeRecursively of a staging directory, when its result is ignored.
Discards(dir) == staged' \in {staged, staged \ {dir}}

LinkOf(p) == IF InterfaceOf(p) \in Interfaces THEN links[InterfaceOf(p)] ELSE NoTunnel
LinkedTo(p, by) ==
    IF InterfaceOf(p) \in Interfaces THEN [links EXCEPT ![InterfaceOf(p)] = by] ELSE links

\* What is left of the interfaces when a profile's process is gone.
Without(p) == [i \in Interfaces |-> IF links[i] = p THEN NoTunnel ELSE links[i]]

\* RealCommandRunner::stop: the process leaves the table before anybody knows
\* whether it ended, and its QProcess is deleted, which ends it.
ProcessStopped(p) == child' = [child EXCEPT ![p] = "none"] /\ links' = Without(p)

Begins(op, p) ==
    /\ running /\ call = NoCall /\ count.calls < MaxCalls
    /\ call' = [op |-> op, at |-> "checks", id |-> p, dir |-> 0]
    /\ count' = [count EXCEPT !.calls = @ + 1]
    /\ UNCHANGED <<own, child, core, links, staged, reported, running>>

Kept == UNCHANGED <<own, child, core, links, staged, running>>

-----------------------------------------------------------------------------
(* VpnBackend::connect().                                                  *)

Connect(p) == Begins("connect", p)

\* connectMigrationCandidate: the source's hash and the cache are validated
\* before connect() sees the candidate's path.
ConnectMigrationCandidate(p) == ProtocolOf[p] = "amneziawg" /\ Begins("migrate", p)

\* A session in the way, a mode the protocol cannot have, a configuration or an
\* executable that is not usable.
Refusal ==
    /\ call.op \in {"connect", "migrate"} /\ call.at = "checks" /\ running
    /\ \/ own # NoSession /\ Fine
       \/ call.id \in FullTunnel /\ ProtocolOf[call.id] = "xray" /\ Fine
       \/ Trouble
    /\ Returns /\ Kept /\ UNCHANGED reported

Admitted ==
    /\ running /\ call.op \in {"connect", "migrate"} /\ call.at = "checks"
    /\ own = NoSession
    /\ ~(call.id \in FullTunnel /\ ProtocolOf[call.id] = "xray")
    \* Without an embedded core a candidate goes the way of a profile.
    /\ \/ Goes("stage")
       \/ call.op = "migrate" /\ call' = [call EXCEPT !.op = "embed", !.at = "stage"]
    /\ reported' = NoTunnel
    /\ Kept /\ Fine

\* prepareManagedNativeConfig writes a copy with Table = off (and, for a full
\* tunnel, AllowedIPs = everything) into a fresh private directory.
Stages ==
    /\ ProtocolOf[call.id] \in OneShot
    /\ call.id \in FullTunnel \/ (call.op # "embed" /\ call.id \in Managed)

prepareManagedNativeConfig ==
    /\ running /\ call.at = "stage" /\ Stages
    /\ \/ /\ count' = [count EXCEPT !.dirs = @ + 1]
          /\ staged' = staged \cup {count.dirs + 1}
          /\ call' = [call EXCEPT !.at = "launch", !.dir = count.dirs + 1]
       \/ Trouble /\ Returns /\ UNCHANGED staged
    /\ UNCHANGED <<own, child, core, links, reported, running>>

PathAsIs ==
    /\ running /\ call.at = "stage" /\ ~Stages
    /\ Goes("launch") /\ Kept /\ Fine /\ UNCHANGED reported

Session(embedded) == [id |-> call.id, embedded |-> embedded, dir |-> call.dir, seen |-> FALSE]

\* The quick helper refuses an interface that exists.  One that is killed by
\* its deadline may leave the interface behind.
LaunchOneShot ==
    /\ running /\ call.at = "launch" /\ call.op # "embed" /\ ProtocolOf[call.id] \in OneShot
    /\ \/ /\ LinkOf(call.id) = NoTunnel
          /\ links' = LinkedTo(call.id, call.id) /\ own' = Session(FALSE)
          /\ Goes("ready") /\ Fine /\ UNCHANGED staged
       \/ /\ LinkOf(call.id) # NoTunnel
          /\ Returns /\ Discards(call.dir) /\ Fine /\ UNCHANGED <<own, links>>
       \/ /\ LinkOf(call.id) = NoTunnel /\ Trouble
          /\ links' \in {links, LinkedTo(call.id, call.id)}
          /\ Returns /\ Discards(call.dir) /\ UNCHANGED own
    /\ UNCHANGED <<child, core, reported, running>>

\* RealCommandRunner::start
LaunchLongRunning ==
    /\ running /\ call.at = "launch" /\ isLongRunningProtocol(ProtocolOf[call.id])
    /\ \/ /\ child[call.id] = "none"
          /\ child' = [child EXCEPT ![call.id] = "running"]
          /\ own' = Session(FALSE) /\ Fine
          /\ Goes(IF ProtocolOf[call.id] = "xray" THEN "grace" ELSE "ready")
       \/ child[call.id] # "none" /\ Fine /\ Returns /\ UNCHANGED <<own, child>>
       \/ Trouble /\ Returns /\ UNCHANGED <<own, child>>
    /\ UNCHANGED <<core, links, staged, reported, running>>

\* XRay gets half a second in which it must not exit.
StartupGrace ==
    /\ running /\ call.at = "grace"
    /\ \/ child[call.id] = "running" /\ reported' = call.id /\ UNCHANGED <<own, child, links>>
       \/ child[call.id] = "exited" /\ ProcessStopped(call.id) /\ own' = NoSession /\ UNCHANGED reported
    /\ Returns /\ Fine /\ UNCHANGED <<core, staged, running>>

\* interfaceHealthy before routing: link, address and configuration.
interfaceHealthy(p) == InterfaceOf(p) \in Interfaces => LinkOf(p) # NoTunnel

BecomesReady ==
    /\ running /\ call.at = "ready"
    /\ interfaceHealthy(call.id)
    /\ ProtocolOf[call.id] = "openvpn" => child[call.id] = "running"
    /\ reported' = call.id /\ Returns /\ Kept /\ Fine

\* Five seconds are over; what the helper says when it is asked to take the
\* interface down is not looked at.
NotReady ==
    /\ running /\ call.at = "ready"
    /\ \/ isLongRunningProtocol(ProtocolOf[call.id]) /\ Fine /\ ProcessStopped(call.id)
       \/ /\ ProtocolOf[call.id] \in OneShot /\ Trouble
          /\ links' \in {links, Without(call.id)} /\ UNCHANGED child
    /\ Discards(call.dir)
    /\ own' = NoSession /\ Returns
    /\ UNCHANGED <<core, reported, running>>

-----------------------------------------------------------------------------
(* The embedded core.                                                      *)

\* EmbeddedAwgBackend::stop.  It takes no interface down itself: the core's
\* goes with the core, and one that is still there afterwards is an error.
EmbeddedStops(cleaned, failed) ==
    \/ Trouble /\ failed /\ UNCHANGED <<core, links>> \* DNS not reverted, or the core would not end
    \/ /\ core' = FALSE
       /\ links' = IF core THEN Without(own.id) ELSE links
       /\ Fine
       /\ IF links'[InterfaceOf(own.id)] = NoTunnel THEN cleaned ELSE failed

EmbeddedPrepares ==
    /\ running /\ call.op = "embed" /\ call.at = "launch"
    /\ own' = Session(TRUE) /\ Goes("start") /\ Fine
    /\ UNCHANGED <<child, core, links, staged, reported, running>>

\* EmbeddedAwgBackend::start: it wants no interface of that name, starts the
\* core, configures it over its socket, then sets address, link and DNS.
EmbeddedStart ==
    /\ running /\ call.op = "embed" /\ call.at = "start"
    /\ \/ /\ LinkOf(call.id) = NoTunnel
          /\ core' = TRUE /\ links' = LinkedTo(call.id, call.id)
          /\ \/ reported' = call.id /\ Returns /\ Fine
             \/ Goes("clean") /\ Trouble /\ UNCHANGED reported
       \/ LinkOf(call.id) # NoTunnel /\ Goes("clean") /\ Fine /\ UNCHANGED <<core, links, reported>>
    /\ UNCHANGED <<own, child, staged, running>>

EmbeddedCleans ==
    /\ running /\ call.op = "embed" /\ call.at = "clean"
    /\ EmbeddedStops(own' = NoSession /\ Discards(own.dir), UNCHANGED <<own, staged>>)
    /\ Returns /\ UNCHANGED <<child, reported, running>>

-----------------------------------------------------------------------------
(* VpnBackend::disconnect().                                               *)

Disconnect == Begins("disconnect", own.id)

DisconnectNothing ==
    /\ InStep("disconnect", "checks") /\ own = NoSession
    /\ Returns /\ Kept /\ Fine /\ UNCHANGED reported

DisconnectEmbedded ==
    /\ InStep("disconnect", "checks") /\ own # NoSession /\ own.embedded
    /\ EmbeddedStops(own' = NoSession /\ Discards(own.dir), UNCHANGED <<own, staged>>)
    /\ Returns /\ UNCHANGED <<child, reported, running>>

\* A process that is not in the table any more cannot be stopped again.
DisconnectLongRunning ==
    /\ InStep("disconnect", "checks") /\ own # NoSession /\ ~own.embedded
    /\ isLongRunningProtocol(ProtocolOf[own.id])
    /\ \/ child[own.id] # "none" /\ ProcessStopped(own.id) /\ Goes("forget") /\ Fine
       \/ child[own.id] = "none" /\ Returns /\ Fine /\ UNCHANGED <<child, links>>
       \/ child[own.id] # "none" /\ ProcessStopped(own.id) /\ Returns /\ Trouble
    /\ UNCHANGED <<own, core, staged, reported, running>>

\* As below, with a failed helper taken for a success.
DisconnectOneShotUnchecked ==
    /\ InStep("disconnect", "checks") /\ own # NoSession /\ ~own.embedded
    /\ ProtocolOf[own.id] \in OneShot
    /\ \/ LinkOf(own.id) # NoTunnel /\ links' = LinkedTo(own.id, NoTunnel) /\ Goes("forget") /\ Fine
       \/ LinkOf(own.id) = NoTunnel /\ Goes("forget") /\ Fine /\ UNCHANGED links
       \/ Trouble /\ Goes("forget") /\ UNCHANGED links
    /\ UNCHANGED <<own, child, core, staged, reported, running>>

\* The helper refuses an interface that does not exist.
DisconnectOneShot ==
    /\ InStep("disconnect", "checks") /\ own # NoSession /\ ~own.embedded
    /\ ProtocolOf[own.id] \in OneShot
    /\ \/ LinkOf(own.id) # NoTunnel /\ links' = LinkedTo(own.id, NoTunnel) /\ Goes("forget") /\ Fine
       \/ LinkOf(own.id) = NoTunnel /\ Returns /\ Fine /\ UNCHANGED links
       \/ Trouble /\ Returns /\ links' \in {links, LinkedTo(own.id, NoTunnel)}
    /\ UNCHANGED <<own, child, core, staged, reported, running>>

\* The session goes before its staging directory; failing to remove that is an
\* error of a call that has done its work.
Forget ==
    /\ InStep("disconnect", "forget")
    /\ own' = NoSession
    /\ \/ staged' = staged \ {own.dir} /\ Fine
       \/ own.dir # 0 /\ staged' = staged /\ Trouble
    /\ Returns /\ UNCHANGED <<child, core, links, reported, running>>

\* sessionHealthyAfterRouting: a recent handshake of the configured peer is
\* wanted once; the staged configuration names that peer.
sessionHealthyAfterRouting ==
    /\ running /\ call = NoCall /\ own # NoSession /\ ~own.seen
    /\ interfaceHealthy(own.id)
    /\ own.embedded => core
    /\ own.dir = 0 \/ own.dir \in staged
    /\ own' = [own EXCEPT !.seen = TRUE]
    /\ UNCHANGED <<child, core, links, staged, call, reported, running, count>>

-----------------------------------------------------------------------------
(* What happens to the tunnels, and to the daemon.                         *)

OpenVpnConnects(p) ==
    /\ ProtocolOf[p] = "openvpn" /\ child[p] = "running" /\ LinkOf(p) = NoTunnel
    /\ links' = LinkedTo(p, p)
    /\ UNCHANGED <<own, child, core, staged, call, reported, running, count>>

ChildExits(p) ==
    /\ child[p] = "running" /\ Trouble
    /\ child' = [child EXCEPT ![p] = "exited"] /\ links' = Without(p)
    /\ UNCHANGED <<own, core, staged, call, reported, running>>

CoreExits ==
    /\ core /\ Trouble
    /\ core' = FALSE /\ links' = Without(own.id)
    /\ UNCHANGED <<own, child, staged, call, reported, running>>

\* Somebody deletes an interface.
LinkVanishes(i) ==
    /\ links[i] # NoTunnel /\ Trouble
    /\ links' = [links EXCEPT ![i] = NoTunnel]
    /\ UNCHANGED <<own, child, core, staged, call, reported, running>>

\* The processes of a service that ends go with it, interfaces of the kernel stay.
DaemonEnds ==
    /\ running /\ Trouble
    /\ running' = FALSE /\ own' = NoSession /\ call' = NoCall /\ reported' = NoTunnel
    /\ child' = [p \in Tunnels |-> "none"] /\ core' = FALSE
    /\ links' = [i \in Interfaces |-> IF i = "tun0" \/ (core /\ links[i] = own.id) THEN NoTunnel ELSE links[i]]
    /\ UNCHANGED staged

\* configuredInterfacePresent and configuredDnsBindingPresent: a daemon does not
\* start beside an interface that one of its profiles names.
configuredInterfacePresent(p) == InterfaceOf(p) \in Interfaces /\ LinkOf(p) # NoTunnel

DaemonStarts ==
    /\ ~running /\ \A p \in Tunnels : ~configuredInterfacePresent(p)
    /\ running' = TRUE
    /\ UNCHANGED <<own, child, core, links, staged, call, reported, count>>

\* Manual recovery.
OperatorRemoves(i) ==
    /\ ~running /\ links[i] # NoTunnel
    /\ links' = [links EXCEPT ![i] = NoTunnel]
    /\ UNCHANGED <<own, child, core, staged, call, reported, running, count>>

BackendStep ==
    \/ \E p \in Tunnels :
         Connect(p) \/ ConnectMigrationCandidate(p) \/ OpenVpnConnects(p) \/ ChildExits(p)
    \/ Refusal \/ Admitted \/ prepareManagedNativeConfig \/ PathAsIs
    \/ LaunchOneShot \/ LaunchLongRunning \/ StartupGrace \/ BecomesReady \/ NotReady
    \/ EmbeddedPrepares \/ EmbeddedStart \/ EmbeddedCleans
    \/ Disconnect \/ DisconnectNothing \/ DisconnectEmbedded \/ DisconnectLongRunning
    \/ DisconnectOneShot \/ Forget \/ sessionHealthyAfterRouting
    \/ CoreExits \/ DaemonEnds \/ DaemonStarts
    \/ \E i \in Interfaces : LinkVanishes(i) \/ OperatorRemoves(i)

BackendSpec == BackendInit /\ [][BackendStep]_backendVars

-----------------------------------------------------------------------------
(* Properties.                                                             *)

BackendTypeOK ==
    /\ own \in [id : Tunnels \cup {NoTunnel}, embedded : BOOLEAN, dir : Nat, seen : BOOLEAN]
    /\ child \in [Tunnels -> {"none", "running", "exited"}] /\ core \in BOOLEAN
    /\ links \in [Interfaces -> Tunnels \cup {NoTunnel}]
    /\ staged \in SUBSET Nat
    /\ call \in [op : {"none", "connect", "migrate", "embed", "disconnect"},
                 at : {"none", "checks", "stage", "launch", "grace", "ready", "start", "clean", "forget"},
                 id : Tunnels \cup {NoTunnel}, dir : Nat]
    /\ reported \in Tunnels \cup {NoTunnel} /\ running \in BOOLEAN
    /\ count \in [troubles : Nat, calls : Nat, dirs : Nat]

Exists(p) == LinkOf(p) = p \/ child[p] = "running"

\* A tunnel that was reported as connected is the session's as long as any of
\* it exists, through failed and repeated calls: what a failed connect leaves
\* behind was never reported, and disconnect() lets go only of what is gone.
OwnedUntilGone ==
    running /\ reported # NoTunnel /\ Exists(reported) => own.id = reported

\* No process outlives its session, and the configuration that a session was
\* started from stays readable: taking it down needs the staged copy.
NoStrayProcess ==
    /\ \A p \in Tunnels : child[p] # "none" => own.id = p /\ ~own.embedded
    /\ core => own.embedded
    /\ own.dir # 0 => own.dir \in staged

\* The session a later call acts on is the tunnel that is there: its interface
\* was configured from its own profile, whatever earlier attempts left behind.
\* (The session of an embedded start that found the name taken is the exception.)
SessionIsItsOwn ==
    own # NoSession /\ ~own.embedded => LinkOf(own.id) \in {own.id, NoTunnel}

\* The backend answers for its tunnels (connect(), disconnect()).
TunnelsAreOwned == OwnedUntilGone /\ NoStrayProcess /\ SessionIsItsOwn
=============================================================================
