---------------------------- MODULE WindowsTunnel ----------------------------
(***************************************************************************)
(* The Windows AWG tunnel: Daemon driving WireguardUtilsWindows, which     *)
(* owns the tunnel service in the SCM, the route monitor's exclusion       *)
(* routes and, through WindowsFirewall, the kill switch.  The service is   *)
(* one thread, so an operation runs to its end; its OS calls are separate  *)
(* steps because each may fail and the process may die between two of      *)
(* them.                                                                   *)
(***************************************************************************)
EXTENDS WindowsFirewall, FiniteSets

CONSTANTS
    MaxRefs,       \* bound: references the daemon counts for one excluded route
    MaxRestarts    \* bound: restarts of the service

ASSUME WindowsTunnelAssumption == MaxRefs \in Nat \ {0} /\ MaxRestarts \in Nat

VARIABLES
    wd,       \* Daemon: the operation in progress, its connection and receipts
    routes,   \* exclusion routes the route monitor owns, and those of them in the kernel
    tunnel    \* the tunnel service; m_configuredPeers, stale when it lists peers
              \* of an earlier service

tunnelVars == <<wd, routes, tunnel>>

NoConfig == [peer |-> "none", kill |-> FALSE, excluded |-> {}]
TunnelConfigs == [peer : Peers, kill : BOOLEAN, excluded : SUBSET Bypass]

Fresh ==
    [pc |-> "boot", conn |-> NoConfig, cfg |-> NoConfig,
     refs |-> [d \in Bypass |-> 0], known |-> FALSE, todo |-> {}, done |-> {},
     clean |-> TRUE, then |-> "none", from |-> {}]

TunnelInit ==
    /\ wd = [Fresh EXCEPT !.pc = "boot"]
    /\ routes = [kernel |-> {}, owned |-> {}, monitor |-> FALSE, restarts |-> 0]
    /\ tunnel = [state |-> "none", peers |-> {}, stale |-> FALSE]

Connected == wd.conn # NoConfig
Goto(pc) == wd' = [wd EXCEPT !.pc = pc]
Idle(s) == [s EXCEPT !.pc = "idle", !.todo = {}, !.done = {}, !.from = {}, !.then = "none", !.cfg = NoConfig, !.clean = TRUE]

(***************************** WindowsRouteMonitor ************************)

\* addExclusionRoute: a row is owned before it is written, and its presence is
\* read back; the captured routes may fail on their own.
AddRoute(r, ok) ==
    /\ Answer(ok)
    /\ \/ ~ok /\ UNCHANGED routes
       \/ ~ok /\ \E kernel \in {routes.kernel, routes.kernel \cup {r}} :
                     routes' = [routes EXCEPT !.owned = @ \cup {r}, !.kernel = kernel]
       \/ ok /\ routes' = [routes EXCEPT !.owned = @ \cup {r}, !.kernel = @ \cup {r}]

\* deleteExclusionRoute: ownership ends with a confirmed absence.
DeleteRoute(r, ok) ==
    /\ Answer(ok)
    /\ IF r \notin routes.owned THEN UNCHANGED routes
       ELSE \/ ~ok /\ \E kernel \in {routes.kernel, routes.kernel \ {r}} : routes' = [routes EXCEPT !.kernel = kernel]
            \/ routes' = [routes EXCEPT !.owned = @ \ {r}, !.kernel = @ \ {r}]

\* The destructor flushes what it owns; a row whose delete fails is nobody's.
MonitorGone == routes' = [routes EXCEPT !.monitor = FALSE, !.owned = {}, !.kernel = {}]

(***************************** start, stop, crash *************************)

\* WindowsTunnelService's constructor ends a tunnel an earlier service left;
\* KillSwitch::init must succeed or the service does not come up.
Boot ==
    /\ wd.pc = "boot"
    /\ \E ok \in BOOLEAN :
           /\ ReleaseKillSwitch(ok)
           /\ Goto(IF ok THEN "idle" ELSE "failed")
    /\ \E left \in {"none", tunnel.state} : tunnel' = [state |-> left, peers |-> {}, stale |-> FALSE]
    /\ UNCHANGED routes

\* The process dies at any point; filters and routes stay, the tunnel service
\* runs on.
Crash ==
    /\ routes.restarts < MaxRestarts
    /\ wd' = Fresh
    /\ routes' = [kernel |-> {}, owned |-> {}, monitor |-> FALSE, restarts |-> routes.restarts + 1]
    /\ FirewallRestarts
    /\ UNCHANGED tunnel

TunnelDies ==
    /\ tunnel.state = "running" /\ wd.pc = "idle"
    /\ tunnel' = [tunnel EXCEPT !.state = "dead"]
    /\ UNCHANGED <<firewallVars, wd, routes>>

(***************************** activate ***********************************)

\* A nil route monitor would be dereferenced: the process dies.
MonitorUsable == routes.monitor

Activate(c, sameKeys) ==
    /\ wd.pc = "idle"
    /\ wd' = [wd EXCEPT
          !.cfg = c, !.todo = c.excluded,
          !.pc = IF ~Connected THEN "interface" ELSE IF sameKeys THEN "exclude" ELSE "down",
          !.then = IF ~Connected THEN "none" ELSE IF sameKeys THEN "switch" ELSE "activate"]
    /\ promise' = [promise EXCEPT !.session = @ /\ c.kill]
    /\ UNCHANGED <<wfp, strict, fw, faults, routes, tunnel>>

\* activationFailure: the daemon releases the kill switch.
Fail(s) == [s EXCEPT !.pc = "failure"]

\* addInterface, first half: runStartLifecycle, then the new route monitor.
StartTunnel ==
    /\ wd.pc = "interface"
    /\ IF tunnel.state = "running"
       THEN wd' = [wd EXCEPT !.pc = "exclude"] /\ UNCHANGED <<routes, tunnel, faults>>
       ELSE \/ /\ Answer(TRUE)
               /\ tunnel' = [tunnel EXCEPT !.state = "running", !.stale = tunnel.peers # {}]
               /\ routes' = [routes EXCEPT !.monitor = TRUE, !.owned = {}, !.kernel = {}]
               /\ wd' = [wd EXCEPT !.pc = IF wd.cfg.kill THEN "fence" ELSE "exclude"]
            \/ /\ Answer(FALSE)
               /\ \E left \in {"none", tunnel.state} : tunnel' = [tunnel EXCEPT !.state = left]
               /\ wd' = [wd EXCEPT !.pc = "down", !.then = "fail"]   \* backendFailure
               /\ UNCHANGED routes
            \/ /\ Answer(FALSE)
               /\ tunnel' = [tunnel EXCEPT !.state = "none"]    \* no LUID
               /\ MonitorGone
               /\ wd' = Fail(wd)
    /\ UNCHANGED policyVars

\* Second half: the firewall's new generation, or the failure guard.
FenceInterface ==
    /\ wd.pc = "fence"
    /\ \E ok \in BOOLEAN :
           /\ EnableInterface(TRUE, ok)
           /\ IF ok THEN /\ promise' = [promise EXCEPT !.session = TRUE]
                         /\ Goto("exclude") /\ UNCHANGED <<routes, tunnel>>
                    ELSE /\ MonitorGone
                         /\ tunnel' = [tunnel EXCEPT !.state = "none"]
                         /\ wd' = Fail(wd) /\ UNCHANGED promise
    /\ UNCHANGED strict

\* Daemon::addExclusionRoute for every excluded address; a server switch goes
\* on without a route that failed.
Exclude(d) ==
    /\ wd.pc = "exclude" /\ d \in wd.todo
    /\ wd.refs[d] < MaxRefs
    /\ LET s == [wd EXCEPT !.refs[d] = @ + 1, !.todo = @ \ {d}] IN
       IF wd.refs[d] > 0 THEN wd' = s /\ UNCHANGED <<routes, faults>>
       ELSE /\ MonitorUsable
            /\ \E ok \in BOOLEAN :
                  /\ AddRoute(d, ok)
                  /\ wd' = IF ok \/ wd.then = "switch" THEN s ELSE Fail(s)
    /\ UNCHANGED <<policyVars, tunnel>>

Excluded ==
    /\ wd.pc = "exclude" /\ wd.todo = {}
    /\ Goto("peer")
    /\ UNCHANGED <<firewallVars, routes, tunnel>>

\* updatePeer: the peer's permits, then its endpoint route and the UAPI, whose
\* one answer stands for both.
PermitPeer ==
    /\ wd.pc = "peer"
    /\ \E ok \in BOOLEAN :
           /\ IF wd.cfg.kill THEN EnablePeerTraffic(wd.cfg.peer, wd.cfg.excluded, ok)
              ELSE Done(ok)
           /\ wd' = IF ok THEN [wd EXCEPT !.pc = "uapi"] ELSE Fail(wd)
    /\ UNCHANGED <<strict, promise, routes, tunnel>>

ConfigurePeer ==
    /\ wd.pc = "uapi"
    /\ \/ /\ IF tunnel.state = "running" THEN Answer(FALSE) ELSE UNCHANGED faults
          /\ wd' = Fail(wd) /\ UNCHANGED tunnel
       \/ /\ tunnel.state = "running" /\ Answer(TRUE)
          /\ tunnel' = [tunnel EXCEPT !.peers = @ \cup {wd.cfg.peer}]
          /\ wd' = [wd EXCEPT !.pc = IF wd.then = "switch" THEN "leave" ELSE "run", !.todo = wd.conn.excluded]
    /\ UNCHANGED <<policyVars, routes>>

\* DNS, the routes into the tunnel and run(Up): one answer.
RunUp ==
    /\ wd.pc = "run"
    /\ \/ wd' = Idle([wd EXCEPT !.conn = wd.cfg, !.known = TRUE]) /\ Answer(TRUE) /\ UNCHANGED promise
       \/ /\ Answer(FALSE)
          /\ wd' = [wd EXCEPT !.pc = "forget", !.then = "fail", !.from = {wd.cfg.peer}]
          /\ promise' = [promise EXCEPT !.session = FALSE]    \* the session failed
    /\ UNCHANGED <<wfp, strict, fw, routes, tunnel>>

\* switchServer: the old server's exclusions go, whatever their deletes say.
LeaveOld(d) ==
    /\ wd.pc = "leave" /\ d \in wd.todo
    /\ LET s == [wd EXCEPT !.todo = @ \ {d}] IN
       IF wd.refs[d] > 1 THEN wd' = [s EXCEPT !.refs[d] = @ - 1] /\ UNCHANGED <<routes, faults>>
       ELSE /\ MonitorUsable
            /\ \E ok \in BOOLEAN :
                  DeleteRoute(d, ok) /\ wd' = IF ok THEN [s EXCEPT !.refs[d] = 0] ELSE s
    /\ UNCHANGED <<policyVars, tunnel>>

LeftOld ==
    /\ wd.pc = "leave" /\ wd.todo = {}
    /\ wd' = IF wd.cfg.peer = wd.conn.peer THEN [wd EXCEPT !.pc = "switched"]
             ELSE [wd EXCEPT !.pc = "forget", !.from = {wd.conn.peer}]
    /\ UNCHANGED <<firewallVars, routes, tunnel>>

\* m_connections is the new one even when DNS or run(Switch) fails afterwards.
Switched ==
    /\ wd.pc = "switched"
    /\ LET s == [wd EXCEPT !.conn = wd.cfg, !.known = TRUE] IN
       \E ok \in BOOLEAN : Answer(ok) /\ wd' = IF ok THEN Idle(s) ELSE Fail(s)
    /\ UNCHANGED <<policyVars, routes, tunnel>>

\* deletePeer: UAPI and endpoint route, then the peer's rules unless it is the
\* last one, whose block stays until the interface goes.
ForgetPeer(peer, ok) ==
    \/ /\ ~ok /\ UNCHANGED <<wfp, fw, tunnel>>
       /\ IF tunnel.state = "running" THEN Answer(FALSE) ELSE UNCHANGED faults
    \/ /\ tunnel.state = "running"
       /\ IF Cardinality(tunnel.peers) > 1 THEN DisablePeerTraffic(peer, ok) ELSE Done(ok)
       /\ tunnel' = IF ok THEN [tunnel EXCEPT !.peers = @ \ {peer}] ELSE tunnel

Forget ==
    /\ wd.pc = "forget"
    /\ \E ok \in BOOLEAN, peer \in wd.from :
           /\ ForgetPeer(peer, ok)
           /\ wd' = CASE wd.then = "fail" -> Fail(wd)
                      [] wd.then = "switch" -> IF ok THEN [wd EXCEPT !.pc = "switched"] ELSE Fail(wd)
                      [] OTHER -> [wd EXCEPT !.pc = "downRoutes", !.clean = @ /\ ok]
    /\ UNCHANGED <<strict, promise, routes>>

ActivationFails ==
    /\ wd.pc = "failure"
    /\ \E ok \in BOOLEAN : ReleaseKillSwitch(ok)
    /\ wd' = Idle(wd)
    /\ UNCHANGED <<routes, tunnel>>

(***************************** deactivate *********************************)

Deactivate ==
    /\ wd.pc = "idle"
    /\ wd' = [wd EXCEPT !.pc = "down", !.then = "told"]
    /\ UNCHANGED <<firewallVars, routes, tunnel>>

\* Where deactivate returns to.
DownDone(s, ok) ==
    CASE s.then = "activate" -> IF ok THEN [s EXCEPT !.pc = "interface", !.then = "none", !.todo = s.cfg.excluded, !.clean = TRUE] ELSE Fail(s)
      [] s.then = "fail" -> Fail(s)
      [] OTHER -> Idle(s)

\* run(Down) may refuse; then the resolvers, and the peer of the connection.
Down ==
    /\ wd.pc = "down"
    /\ LET owed == {d \in Bypass : wd.refs[d] > 0} IN
       \/ Connected /\ Answer(FALSE) /\ wd' = DownDone(wd, FALSE)
       \/ \E dns \in BOOLEAN :
             Answer(dns) /\ wd' = [wd EXCEPT !.pc = IF Connected THEN "forget" ELSE "downRoutes",
                              !.from = {wd.conn.peer}, !.todo = owed, !.clean = TRUE,
                              !.done = IF dns THEN {} ELSE {"dns"}]
    /\ UNCHANGED <<policyVars, routes, tunnel>>

DownRoute(d) ==
    /\ wd.pc = "downRoutes" /\ d \in wd.todo
    /\ MonitorUsable
    /\ \E ok \in BOOLEAN :
           /\ DeleteRoute(d, ok)
           /\ wd' = [wd EXCEPT !.todo = @ \ {d}, !.clean = @ /\ ok,
                               !.refs[d] = IF ok THEN 0 ELSE @]
    /\ UNCHANGED <<policyVars, tunnel>>

\* Without a confirmed cleanup the interface stays for a retry.
DownRoutesDone ==
    /\ wd.pc = "downRoutes" /\ wd.todo = {}
    /\ wd' = IF wd.clean THEN [wd EXCEPT !.pc = "downFirewall"] ELSE DownDone(wd, FALSE)
    /\ UNCHANGED <<firewallVars, routes, tunnel>>

\* deleteInterface: route monitor, kill switch, then the tunnel service.
DownFirewall ==
    /\ wd.pc = "downFirewall"
    /\ \E ok \in BOOLEAN :
           ReleaseKillSwitch(ok) /\ wd' = [wd EXCEPT !.pc = "downTunnel", !.clean = ok]
    /\ MonitorGone
    /\ UNCHANGED tunnel

DownTunnel ==
    /\ wd.pc = "downTunnel"
    /\ \E ok \in BOOLEAN :
           /\ Answer(ok)
           /\ tunnel' = [state |-> IF ok THEN "none" ELSE tunnel.state, peers |-> {}, stale |-> FALSE]
           /\ LET cleaned == wd.clean /\ ok /\ wd.done = {} IN
              wd' = DownDone(IF cleaned THEN [wd EXCEPT !.conn = NoConfig, !.known = FALSE] ELSE wd, cleaned)
    /\ UNCHANGED <<policyVars, routes>>

\* The monitor of the tunnel service finds it dead and deactivates.
BackendFailure ==
    /\ wd.pc = "idle" /\ tunnel.state = "dead" /\ routes.monitor
    /\ wd' = [wd EXCEPT !.pc = "down", !.then = "told"]
    /\ UNCHANGED <<firewallVars, routes, tunnel>>

(***************************** managed exclusions *************************)

Common == wd.from \cap wd.cfg.excluded
Removed == wd.from \ wd.cfg.excluded
Added == wd.cfg.excluded \ wd.from

\* replaceManagedExclusions and replaceExclusionPolicy up to the transaction:
\* only routes the daemon owns alone, on the one configured peer.
Replace(after) ==
    /\ wd.pc = "idle" /\ Connected
    /\ LET s == [wd EXCEPT !.from = wd.conn.excluded,
                           !.cfg = [wd.conn EXCEPT !.excluded = after], !.done = {}] IN
       wd' = IF ~wd.known \/ \E d \in wd.conn.excluded : wd.refs[d] # 1 THEN Idle(s)
             ELSE IF ~routes.monitor \/ tunnel.state # "running" \/ tunnel.peers # {wd.conn.peer} THEN Idle(s)
             ELSE IF after = wd.conn.excluded THEN [s EXCEPT !.pc = "updated"]
             ELSE IF wd.conn.kill THEN [s EXCEPT !.pc = "narrow"]
             ELSE [s EXCEPT !.pc = "openNew", !.todo = after \ wd.conn.excluded]
    /\ UNCHANGED <<firewallVars, routes, tunnel>>

Settle(s, result) == [s EXCEPT !.pc = result]

\* With the kill switch: the permits narrow to what both policies share.
Narrow ==
    /\ wd.pc = "narrow"
    /\ \E ok \in BOOLEAN :
           /\ EnablePeerTraffic(wd.conn.peer, Common, ok)
           /\ wd' = IF ok THEN [wd EXCEPT !.pc = "moveOut", !.todo = Removed]
                          ELSE Settle(wd, "uncertain")
    /\ UNCHANGED <<strict, promise, routes, tunnel>>

\* One route operation of the transition; `done` holds what was attempted.
Moving(d, Op(_, _), good, bad) ==
    /\ d \in wd.todo
    /\ LET s == [wd EXCEPT !.todo = @ \ {d}, !.done = @ \cup {d}] IN
       \E ok \in BOOLEAN :
          /\ Op(d, ok)
          /\ wd' = IF ~ok THEN [s EXCEPT !.pc = bad]
                   ELSE IF s.todo = {} THEN [s EXCEPT !.pc = good] ELSE s

NextPhase(pc, todo, good) ==
    /\ wd.todo = {}
    /\ wd' = IF todo = {} THEN [wd EXCEPT !.pc = good] ELSE [wd EXCEPT !.pc = pc, !.todo = todo]

MoveOut ==
    /\ wd.pc = "moveOut"
    /\ \/ \E d \in Bypass : Moving(d, DeleteRoute, "moved", "undo")
       \/ wd.todo = {} /\ Goto("moved") /\ UNCHANGED <<routes, faults>>
    /\ UNCHANGED <<policyVars, tunnel>>

MovedOut ==
    /\ wd.pc = "moved"
    /\ NextPhase("moveIn", Added, "widen")
    /\ UNCHANGED <<firewallVars, routes, tunnel>>

MoveIn ==
    /\ wd.pc = "moveIn"
    /\ \E d \in Bypass : Moving(d, AddRoute, "widen", "undo")
    /\ UNCHANGED <<policyVars, tunnel>>

Widen ==
    /\ wd.pc = "widen"
    /\ \E ok \in BOOLEAN :
           /\ EnablePeerTraffic(wd.conn.peer, wd.cfg.excluded, ok)
           /\ wd' = IF ok THEN [wd EXCEPT !.pc = "updated"] ELSE [wd EXCEPT !.pc = "undo"]
    /\ UNCHANGED <<strict, promise, routes, tunnel>>

\* rollback: the fence again, then every attempted route, then the old permits.
Undo ==
    /\ wd.pc = "undo"
    /\ \E ok \in BOOLEAN :
           /\ EnablePeerTraffic(wd.conn.peer, Common, ok)
           /\ wd' = IF ok THEN [wd EXCEPT !.pc = "undoRoutes", !.todo = wd.done, !.clean = TRUE]
                          ELSE Settle(wd, "uncertain")
    /\ UNCHANGED <<strict, promise, routes, tunnel>>

UndoRoute(d) ==
    /\ wd.pc \in {"undoRoutes", "undoOpen"} /\ d \in wd.todo
    /\ \E ok \in BOOLEAN :
           /\ IF d \in Added THEN DeleteRoute(d, ok) ELSE AddRoute(d, ok)
           /\ wd' = [wd EXCEPT !.todo = @ \ {d}, !.clean = @ /\ ok]
    /\ UNCHANGED <<policyVars, tunnel>>

UndoPermits ==
    /\ wd.pc = "undoRoutes" /\ wd.todo = {}
    /\ \E ok \in BOOLEAN :
           /\ IF wd.clean THEN EnablePeerTraffic(wd.conn.peer, wd.from, ok)
                          ELSE Refused(ok)
           /\ wd' = Settle(wd, IF ok THEN "rolledBack" ELSE "uncertain")
    /\ UNCHANGED <<strict, promise, routes, tunnel>>

\* replaceRoutes, without the kill switch: new routes before old ones go.
OpenNew ==
    /\ wd.pc = "openNew"
    /\ \/ \E d \in Bypass : Moving(d, AddRoute, "opened", "undoOpening")
       \/ wd.todo = {} /\ Goto("opened") /\ UNCHANGED <<routes, faults>>
    /\ UNCHANGED <<policyVars, tunnel>>

OpenedNew ==
    /\ wd.pc = "opened"
    /\ NextPhase("closeOld", Removed, "updated")
    /\ UNCHANGED <<firewallVars, routes, tunnel>>

CloseOld ==
    /\ wd.pc = "closeOld"
    /\ \E d \in Bypass : Moving(d, DeleteRoute, "updated", "undoOpening")
    /\ UNCHANGED <<policyVars, tunnel>>

\* Old routes come back before new ones go.
UndoOpening ==
    /\ wd.pc = "undoOpening"
    /\ wd' = [wd EXCEPT !.pc = "undoOpen", !.todo = wd.done, !.clean = TRUE]
    /\ UNCHANGED <<firewallVars, routes, tunnel>>

UndoOpened ==
    /\ wd.pc = "undoOpen" /\ wd.todo = {}
    /\ wd' = Settle(wd, IF wd.clean THEN "rolledBack" ELSE "uncertain")
    /\ UNCHANGED <<firewallVars, routes, tunnel>>

\* Back in replaceManagedExclusions: the receipt decides what is owned.
Receipt ==
    /\ wd.pc \in {"updated", "rolledBack", "uncertain"}
    /\ wd' = Idle(CASE wd.pc = "updated" ->
                       [wd EXCEPT !.conn = wd.cfg,
                                  !.refs = [d \in Bypass |-> IF d \in wd.cfg.excluded THEN 1
                                                             ELSE IF d \in wd.from THEN 0 ELSE wd.refs[d]]]
                    [] wd.pc = "uncertain" ->
                       [wd EXCEPT !.refs = [d \in Bypass |-> IF d \in wd.cfg.excluded THEN 1 ELSE wd.refs[d]],
                                  !.known = FALSE]
                    [] OTHER -> wd)
    /\ UNCHANGED <<firewallVars, routes, tunnel>>

(***************************** the kill switch over IPC *******************)

\* The client drives it for OpenVPN and Xray, whose tunnels are not the
\* daemon's, and for the strict mode of the settings page, which cannot be
\* changed during an active connection.
IpcKillSwitch ==
    /\ wd.pc = "idle" /\ UNCHANGED <<routes, tunnel>>
    /\ UNCHANGED wd
    /\ \/ ~Connected /\ ~promise.session /\ \E enabled \in BOOLEAN : Refresh(enabled)
       \/ \E ok \in BOOLEAN : BlockEverything(ok)
       \/ \E ok \in BOOLEAN : ReleaseKillSwitch(ok)

\* enableKillSwitch and enablePeerTraffic of the OpenVPN client.
IpcOpenVpn ==
    /\ wd.pc = "idle" /\ ~Connected /\ tunnel.state = "none"
    /\ UNCHANGED <<wd, routes, tunnel, strict>>
    /\ \E ok \in BOOLEAN :
          /\ \/ EnableInterface(TRUE, ok) /\ promise' = [promise EXCEPT !.session = @ \/ ok]
             \/ EnablePeerTraffic(OpenVpn, {}, ok) /\ UNCHANGED promise

Uninstalled ==
    /\ wd.pc \in {"boot", "idle", "failed"}
    /\ RemovePersistentPolicy
    /\ UNCHANGED tunnelVars

\* The daemon with clients that ask for these configurations.
WindowsStep(configs) ==
    \/ Boot
    \/ \E c \in configs, sameKeys \in BOOLEAN : Activate(c, sameKeys)
    \/ StartTunnel \/ FenceInterface \/ Excluded \/ PermitPeer \/ ConfigurePeer \/ RunUp
    \/ LeftOld \/ Switched \/ Forget \/ ActivationFails
    \/ Deactivate \/ Down \/ DownRoutesDone \/ DownFirewall \/ DownTunnel
    \/ \E d \in Bypass : Exclude(d) \/ LeaveOld(d) \/ DownRoute(d) \/ UndoRoute(d)
    \/ \E c \in configs : c.peer = wd.conn.peer /\ c.kill = wd.conn.kill /\ Replace(c.excluded)
    \/ Narrow \/ MoveOut \/ MovedOut \/ MoveIn \/ Widen \/ Undo \/ UndoPermits
    \/ OpenNew \/ OpenedNew \/ CloseOld \/ UndoOpening \/ UndoOpened \/ Receipt

\* Everything else that happens on the host.
WindowsHostStep ==
    Crash \/ TunnelDies \/ BackendFailure \/ IpcKillSwitch \/ IpcOpenVpn \/ Uninstalled

WindowsSpec ==
    /\ FirewallInit /\ TunnelInit
    /\ [][WindowsStep(TunnelConfigs) \/ WindowsHostStep]_<<firewallVars, tunnelVars>>

(***************************** what it promises ***************************)

\* A host whose kill switch is engaged is not open: from the commit that
\* engages it for a session until it is released on purpose, and in strict
\* mode until that is switched off, traffic outside the tunnel that no rule
\* permits meets a block in the engine - between the steps of an activation
\* or a server switch, after any failed transaction, and after a crash of the
\* service.  (A set of configured peers that outlived its tunnel is excepted:
\* deletePeer then drops the last peer's block early.)
KillSwitchHolds ==
    (promise.session /\ ~tunnel.stale) \/ (strict /\ ~promise.waived) => BlockedOutside(wfp)

\* The receipt of a replaced exclusion policy is the truth about the kernel
\* and the engine: with "updated" the new routes are in, the old ones out and
\* the permits are the new ones; with "rolledBack" every route the transition
\* attempted is back where the old policy wants it and the permits are the old
\* ones; and while routes move under a kill switch only what both policies
\* share is permitted.  (A route the transition did not reach stays as it was,
\* which is outside the kernel when a server switch went on without it.)
ExclusionReceipts ==
    LET moved(in, out) == in \subseteq routes.kernel /\ out \cap routes.kernel = {}
        permitted(set) == wd.conn.kill => Permits(wfp, wd.conn.peer) = set
    IN /\ wd.pc = "updated" /\ wd.from # wd.cfg.excluded =>
              moved(Added, Removed) /\ permitted(wd.cfg.excluded)
       /\ wd.pc = "rolledBack" =>
              moved(Removed \cap wd.done, Added \cap wd.done) /\ permitted(wd.from)
       /\ wd.pc \in {"moveOut", "moved", "moveIn", "undoRoutes"} => permitted(Common)

\* The filters and routes of the Windows service are what it answered for.
WindowsPolicyHolds == KillSwitchHolds /\ ExclusionReceipts
=============================================================================
