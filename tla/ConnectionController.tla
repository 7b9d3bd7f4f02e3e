------------------------ MODULE ConnectionController ------------------------
(***************************************************************************)
(* The GUI-thread controller of the desktop client                         *)
(* (client/core/controllers/connectionController.cpp): it opens and closes *)
(* connections, keeps the server's routing policy current, resolves the    *)
(* policy's names and asks the worker of VpnConnection to converge to the  *)
(* result.  The two threads only exchange queued signals, so everything    *)
(* the controller knows of the worker (`ctl.state', `ctl.epoch',           *)
(* `ctl.confirmed') is the past.                                           *)
(***************************************************************************)
EXTENDS VpnConnection

CONSTANTS Policies,   \* policies a server may publish, by increasing revision
          Named,      \* the route the policies' name resolves to
          MaxWaves,   \* retry waves of a resolution after the first
          MaxQueue    \* bound on the queued signals when a GUI timer fires

ASSUME ControllerAssumption ==
    /\ \A p \in Policies : p.rev \in Nat \ {0} /\ p.mode \in {"all", "except", "forward"}
    /\ Named \in Routes /\ MaxWaves \in Nat /\ MaxQueue \in Nat

VARIABLES ctl,        \* the ConnectionController object
          repo,       \* per server: stored policy and cache of its name
          published   \* per server: the policy its publisher offers

vars == <<conn, toWorker, toGui, spent, ctl, repo, published>>

None == [valid |-> FALSE]
Idle == [on |-> FALSE]

Init ==
    /\ WorkerInit
    /\ ctl = [state |-> "Disconnected", ui |-> "Disconnected", server |-> NoServer, epoch |-> 0, gen |-> 0,
              pending |-> None, coalesced |-> None,
              confirmed |-> [has |-> FALSE, policy |-> NoPolicy, revision |-> 0],
              blocked |-> TRUE, rebuilt |-> FALSE,
              timer |-> FALSE, refresh |-> FALSE, fetch |-> Idle,
              resolve |-> Idle, out |-> <<>>,
              migration |-> [gen |-> 0, waits |-> "no", epoch |-> 0, hold |-> FALSE]]
    /\ \E p \in Policies : /\ published = [s \in Servers |-> p]
                           /\ repo = [s \in Servers |-> [policy |-> p, cache |-> "none"]]

-----------------------------------------------------------------------------
(* What the repository wants of the runtime.                                *)

Emits(k, m) == [k EXCEPT !.out = Append(@, m)]
IsConnected(k) == k.state = "Connected"

\* managedSplitTunnelIpsForSync: the policy's routes and the cached answers,
\* only in the all-except mode.
Desired(r) ==
    [rev |-> r.policy.rev, mode |-> r.policy.mode,
     routes |-> IF r.policy.mode # "except" THEN {}
                ELSE r.policy.routes \cup (IF r.policy.named /\ r.cache = "found" THEN {Named} ELSE {})]

Snapshot(k, s, p) == Emits(k, [type |-> "snapshot", gen |-> k.gen, server |-> s, policy |-> p])

PreserveLatest(k, s, p) ==
    IF s # k.server THEN k
    ELSE Snapshot([k EXCEPT !.coalesced = [valid |-> TRUE, policy |-> p, server |-> s]], s, p)

PreservePending(k) ==
    IF ~k.pending.valid \/ k.coalesced.valid THEN k
    ELSE PreserveLatest(k, k.pending.server, k.pending.policy)

\* A mutant: a request that nobody will answer any more stays pending.
ClearPendingForgotten(k) == k

ClearPending(k) == [k EXCEPT !.pending = None]

\* The runtime base is no longer known to the controller.
Unconfirm(k) == [k EXCEPT !.confirmed.has = FALSE, !.blocked = TRUE]

Dispatch(k, s, p) ==
    IF ~IsConnected(k) \/ s # k.server THEN k
    ELSE IF k.pending.valid \/ ~k.confirmed.has \/ k.blocked THEN PreserveLatest(k, s, p)
    ELSE IF p = k.confirmed.policy THEN k
    ELSE Emits([k EXCEPT !.gen = @ + 1, !.pending = [valid |-> TRUE, gen |-> k.gen + 1, server |-> s, policy |-> p]],
               [type |-> "reconcile", gen |-> k.gen + 1, epoch |-> k.epoch, server |-> s,
                revision |-> k.confirmed.revision, old |-> k.confirmed.policy.routes,
                oldRev |-> k.confirmed.policy.rev, policy |-> p])

RequestReconciliation(k, s, p) == Dispatch(k, s, p)

RequestFullRebuild(k) ==
    IF ~IsConnected(k) \/ k.server = NoServer \/ k.rebuilt THEN k
    ELSE Emits([k EXCEPT !.rebuilt = TRUE], [type |-> "rebuild", epoch |-> k.epoch, server |-> k.server])

-----------------------------------------------------------------------------
(* Resolution of the policy's name.                                         *)

CancelResolve(k) == [k EXCEPT !.resolve = Idle]

ScheduleResolve(k, r) ==
    IF ~IsConnected(k) THEN k
    ELSE IF ~r.policy.named \/ r.cache = "found" THEN CancelResolve(k)
    ELSE IF k.resolve.on /\ k.resolve.server = k.server /\ k.resolve.rev = r.policy.rev THEN k
    ELSE [k EXCEPT !.resolve = [on |-> TRUE, server |-> k.server, rev |-> r.policy.rev,
                                waves |-> 0, old |-> None, busy |-> FALSE]]

-----------------------------------------------------------------------------
(* Signals of the worker.                                                   *)

StopSync(k) == [k EXCEPT !.timer = FALSE, !.refresh = FALSE, !.fetch = Idle]

OnVpnConnectionStateChanged(k0, s) ==
    LET k == [k0 EXCEPT !.state = s, !.ui = s]
        lost == Unconfirm(ClearPending([PreservePending(k) EXCEPT !.gen = @ + 1]))
        fresh == Unconfirm(ClearPending(PreservePending(CancelResolve(
                    [k EXCEPT !.fetch = Idle, !.refresh = FALSE]))))
    IN CASE s = "Connected" ->
              [IF k.server \in Servers THEN ScheduleResolve(fresh, repo[k.server]) ELSE fresh EXCEPT !.timer = TRUE]
         [] s \in {"Disconnected", "Error"} ->
              [StopSync(CancelResolve(lost)) EXCEPT !.coalesced = None, !.rebuilt = FALSE]
         [] OTHER -> lost

OnVpnConnectionContextChanged(k, m) ==
    LET k1 == IF m.server = k.server THEN PreservePending(k) ELSE k
        k2 == Unconfirm(ClearPending([k1 EXCEPT !.gen = @ + 1]))
        k3 == IF m.epoch = k.epoch /\ m.server = k.server THEN k
              ELSE IF m.server = k.server THEN k2
              ELSE [k2 EXCEPT !.coalesced = None, !.rebuilt = FALSE]
    IN [k3 EXCEPT !.server = m.server, !.epoch = m.epoch]

DispatchCoalesced(k) ==
    IF k.confirmed.has /\ k.coalesced.valid
    THEN Dispatch([k EXCEPT !.coalesced = None], k.coalesced.server, k.coalesced.policy) ELSE k

OnManagedRouteReconciled(k, m) ==
    LET ok == m.accepted /\ m.updated /\ ~m.scheduled
              /\ m.policy.mode = k.pending.policy.mode /\ m.policy.rev = k.pending.policy.rev
        k1 == IF ok THEN [k EXCEPT !.confirmed = [has |-> TRUE, policy |-> m.policy, revision |-> m.revision],
                                   !.blocked = FALSE]
              ELSE Unconfirm(IF k.coalesced.valid THEN k
                             ELSE PreserveLatest(k, k.pending.server, k.pending.policy))
        k2 == ClearPending(k1)
    IN IF \/ ~k.pending.valid \/ m.gen # k.gen \/ m.gen # k.pending.gen
          \/ m.epoch # k.epoch \/ m.server # k.server \/ m.server # k.pending.server
       THEN k
       ELSE DispatchCoalesced(IF ~ok /\ ~m.scheduled THEN RequestFullRebuild(k2) ELSE k2)

\* A mutant: the epoch of the announcement is not compared.
OnManagedRouteBaseReadyStale(k, m) ==
    IF ~IsConnected(k) \/ m.server # k.server \/ ~m.ok THEN k
    ELSE [ClearPending(PreservePending(k)) EXCEPT
             !.confirmed = [has |-> TRUE, policy |-> m.policy, revision |-> m.revision],
             !.blocked = FALSE, !.rebuilt = FALSE]

OnManagedRouteBaseReady(k, m) ==
    LET k1 == ClearPending(PreservePending(k))
        k2 == [k1 EXCEPT !.confirmed.revision = m.revision]
        k3 == [k1 EXCEPT !.confirmed = [has |-> TRUE, policy |-> m.policy, revision |-> m.revision],
                         !.blocked = FALSE, !.rebuilt = FALSE]
    IN IF ~IsConnected(k) \/ m.epoch # k.epoch \/ m.server # k.server THEN k
       ELSE IF ~m.ok
       THEN RequestFullRebuild(PreserveLatest(Unconfirm(k2), m.server, Desired(repo[m.server])))
       ELSE IF k3.coalesced.valid THEN DispatchCoalesced(k3) ELSE [k3 EXCEPT !.timer = TRUE]

\* The receipt of a migration teardown: only the exact epochs of the request
\* release the hold; a legacy reconnect then re-opens under that epoch.
PrepareOpen(k, s, expect) ==
    Emits(Snapshot(k, s, Desired(repo[s])), [type |-> "open", server |-> s, expect |-> expect])

OnReceipt(k, m) ==
    LET g == k.migration
        exact == m.ok /\ m.retiring = g.epoch /\ m.epoch = g.epoch + 1
        k1 == [k EXCEPT !.migration.waits = "no", !.migration.hold = ~exact]
    IN IF g.waits = "no" \/ m.token # g.gen THEN k
       ELSE IF exact /\ g.waits = "legacy" THEN PrepareOpen(k1, m.server, m.epoch) ELSE k1

-----------------------------------------------------------------------------
(* Actions of the GUI thread.                                               *)

GuiBecomes(k) == /\ ctl' = [k EXCEPT !.out = <<>>]
                 /\ toWorker' = toWorker \o k.out

GuiSignal ==
    /\ toGui # <<>>
    /\ toGui' = Tail(toGui)
    /\ LET m == Head(toGui)
       IN GuiBecomes(CASE m.type = "state"      -> OnVpnConnectionStateChanged(OnVpnConnectionContextChanged(ctl, m), m.state)
                       [] m.type = "base"       -> OnManagedRouteBaseReady(ctl, m)
                       [] m.type = "reconciled" -> OnManagedRouteReconciled(ctl, m)
                       [] m.type = "receipt"    -> OnReceipt(ctl, m))
    /\ UNCHANGED <<conn, spent, repo, published>>

\* Timers and network replies are slow against queued signals: they happen
\* while at most MaxQueue signals are on their way.
Calm == Len(toWorker) + Len(toGui) =< MaxQueue

Spend == spent < Budget /\ spent' = spent + 1

\* The button: prepareConfig puts the UI into Preparing, where a second press
\* does nothing, and openConnection follows.
OpenConnection(s) ==
    /\ Spend
    /\ ctl.ui \in {"Disconnected", "Error"}
    /\ GuiBecomes(PrepareOpen([Unconfirm(ClearPending(ctl)) EXCEPT !.gen = @ + 1, !.ui = "Preparing", !.coalesced = None,
                                  !.rebuilt = FALSE, !.migration.gen = @ + 1, !.migration.waits = "no"], s, 0))
    /\ UNCHANGED <<conn, toGui, repo, published>>

CloseConnection ==
    /\ Spend
    /\ ctl.ui \in {"Connecting", "Connected", "Reconnecting", "Disconnecting"}
    /\ LET k == [ctl EXCEPT !.migration.gen = @ + 1, !.migration.waits = "no"]
       IN GuiBecomes(
            IF ctl.migration.hold /\ ctl.server \in Awg /\ ctl.epoch # 0
            THEN Emits([k EXCEPT !.migration.waits = "close", !.migration.epoch = ctl.epoch],
                       [type |-> "teardown", server |-> ctl.server, token |-> k.migration.gen, epoch |-> ctl.epoch])
            ELSE Emits(k, [type |-> "close"]))
    /\ UNCHANGED <<conn, toGui, repo, published>>

\* The migration controller gives up a trial and returns to the legacy tunnel.
ReconnectLegacy ==
    /\ Spend
    /\ ctl.server \in Awg /\ ctl.state = "Connected"
    /\ LET g == ctl.migration.gen + 1
       IN GuiBecomes(Emits([ctl EXCEPT !.migration = [gen |-> g, waits |-> "legacy", epoch |-> ctl.epoch, hold |-> TRUE]],
                           [type |-> "teardown", server |-> ctl.server, token |-> g, epoch |-> ctl.epoch]))
    /\ UNCHANGED <<conn, toGui, repo, published>>

\* No receipt within ten seconds.
ReceiptTimeout ==
    /\ ctl.migration.waits # "no"
    /\ Spend
    /\ GuiBecomes([ctl EXCEPT !.migration.waits = "no"])
    /\ UNCHANGED <<conn, toGui, repo, published>>

FinishSync(k) ==
    [k EXCEPT !.fetch = Idle, !.timer = TRUE, !.refresh = FALSE]

\* reconcileManagedRouteState: the stored policy against what was applied.
ReconcileState(k, snap) ==
    LET p == Desired(repo[k.server])
    IN IF snap.has /\ p = snap.policy THEN k
       ELSE RequestReconciliation(CancelResolve(k), k.server, p)

SyncServerRoutingRules ==
    /\ ctl.timer /\ Calm
    /\ LET k == [ctl EXCEPT !.timer = FALSE]
           k1 == ReconcileState(k, k.confirmed)
           modeChanged == k.confirmed.has /\ Desired(repo[k.server]).mode # k.confirmed.policy.mode
       IN GuiBecomes(
            IF ~IsConnected(k) THEN k
            ELSE IF k.fetch.on THEN [k EXCEPT !.refresh = TRUE]
            ELSE IF k.server \notin Servers THEN ctl
            ELSE IF modeChanged THEN [k1 EXCEPT !.refresh = FALSE]
            ELSE [k1 EXCEPT !.fetch = [on |-> TRUE, has |-> k1.confirmed.has,
                                       policy |-> IF k1.confirmed.has THEN k1.confirmed.policy ELSE NoPolicy]])
    /\ UNCHANGED <<conn, toGui, spent, repo, published>>

\* An answer of a session that is no longer connected is dropped.
FetchDropped ==
    /\ ctl.fetch.on /\ Calm
    /\ ~IsConnected(ctl)
    /\ GuiBecomes([ctl EXCEPT !.fetch = Idle])
    /\ UNCHANGED <<conn, toGui, spent, repo, published>>

\* A change of the mode ends the synchronisation: the reconnect it needs begins
\* another.
EndSync(k, modeChanged) ==
    IF modeChanged THEN [k EXCEPT !.fetch = Idle, !.refresh = FALSE] ELSE FinishSync(k)

\* Both endpoints failed: the stored policy is all there is.
FetchFails ==
    /\ ctl.fetch.on /\ IsConnected(ctl) /\ Calm
    /\ Spend
    /\ GuiBecomes(EndSync(ReconcileState(ctl, ctl.fetch),
                          ctl.fetch.has /\ Desired(repo[ctl.server]).mode # ctl.fetch.policy.mode))
    /\ UNCHANGED <<conn, toGui, repo, published>>

\* A validated policy arrives: stored, its names scheduled, and reconciled
\* unless the resolution will do that.
FetchSucceeds ==
    /\ ctl.fetch.on /\ IsConnected(ctl) /\ Calm
    /\ LET s    == ctl.server
           new  == [policy |-> published[s],
                    cache |-> IF published[s].named /\ repo[s].policy.named THEN repo[s].cache ELSE "none"]
           k    == ScheduleResolve(ctl, new)
           p    == Desired(new)
           snap == ctl.fetch
           modeChanged == p.mode # snap.policy.mode
           waits == k.resolve.on /\ p.mode = "except"
           k1 == IF (modeChanged \/ (p.mode = "except" /\ p # snap.policy)) /\ ~waits
                 THEN RequestReconciliation(k, s, p) ELSE k
       IN /\ repo' = [repo EXCEPT ![s] = new]
          /\ GuiBecomes(EndSync(k1, modeChanged /\ ~waits))
    /\ UNCHANGED <<conn, toGui, spent, published>>

\* Publishing by this client's administrator or by the server.
Publish(s, p) ==
    /\ Spend
    /\ p.rev > published[s].rev
    /\ published' = [published EXCEPT ![s] = p]
    /\ GuiBecomes(IF IsConnected(ctl) /\ ctl.server = s
                  THEN [CancelResolve(ctl) EXCEPT !.timer = TRUE] ELSE ctl)
    /\ UNCHANGED <<conn, toGui, repo>>

\* startClientManagedSitesResolve: a wave begins; the first one remembers what
\* was confirmed then.
ResolveStarts ==
    /\ ctl.resolve.on /\ ~ctl.resolve.busy /\ IsConnected(ctl) /\ Calm
    /\ GuiBecomes([ctl EXCEPT !.resolve.busy = TRUE,
                     !.resolve.old = IF @.valid THEN @ ELSE [valid |-> TRUE, state |-> ctl.confirmed]])
    /\ UNCHANGED <<conn, toGui, spent, repo, published>>

\* finishClientManagedSitesResolve: another wave, or the cache and a request.
ResolveFinishes(found) ==
    /\ ctl.resolve.on /\ ctl.resolve.busy /\ IsConnected(ctl) /\ Calm
    /\ IF found THEN UNCHANGED spent ELSE Spend
    /\ LET s   == ctl.resolve.server
           old == ctl.resolve.old.state
           r   == [repo[s] EXCEPT !.cache = IF found THEN "found" ELSE IF @ = "found" THEN @ ELSE "empty"]
           p   == Desired(r)
           k   == CancelResolve(ctl)
       IN IF ~found /\ ctl.resolve.waves < MaxWaves
          THEN /\ GuiBecomes([ctl EXCEPT !.resolve.busy = FALSE, !.resolve.waves = @ + 1])
               /\ UNCHANGED repo
          ELSE /\ repo' = [repo EXCEPT ![s] = r]
               /\ GuiBecomes(IF ~old.has \/ p.mode # old.policy.mode \/ p.routes # old.policy.routes
                             THEN RequestReconciliation(k, s, p) ELSE k)
    /\ UNCHANGED <<conn, toGui, published>>

\* A change of network or a wake-up makes the worker reconnect.
NetworkChanged ==
    /\ conn.state = "Connected" /\ spent < Budget
    /\ \E a, b \in Answers : Moves(ReconnectToVpn(conn, a, b), <<"event", a, b>>)
    /\ UNCHANGED <<ctl, repo, published>>

Next ==
    \/ WorkerStep /\ UNCHANGED <<ctl, repo, published>>
    \/ GuiSignal
    \/ \E s \in Servers : OpenConnection(s) \/ \E p \in Policies : Publish(s, p)
    \/ CloseConnection \/ ReconnectLegacy \/ ReceiptTimeout
    \/ SyncServerRoutingRules \/ FetchDropped \/ FetchFails \/ FetchSucceeds
    \/ ResolveStarts \/ \E found \in BOOLEAN : ResolveFinishes(found)
    \/ NetworkChanged

Spec == Init /\ [][Next]_vars
-----------------------------------------------------------------------------
(* Properties.                                                              *)

TypeOK ==
    /\ conn.state \in {"Disconnected", "Connecting", "Connected", "Reconnecting", "Disconnecting", "Error"}
    /\ ctl.state \in {"Disconnected", "Connecting", "Connected", "Reconnecting", "Disconnecting", "Error"}
    /\ conn.epoch \in Nat /\ conn.proto \in 0 .. conn.epoch /\ ctl.epoch =< conn.epoch
    /\ spent \in 0 .. Budget

Running(c) == \E n \in c.native : n.id = c.proto /\ n.up

\* The current process has restarted itself without a new epoch.
Restarted(c) == \E n \in c.native : n.id = c.proto /\ n.again

\* The site routes of the session are being installed (again).
Installing == conn.lookups > 0 \/ \E i \in DOMAIN toWorker : toWorker[i].type = "managed"

\* The worker's authoritative base is backed by the platform: while a base is
\* published for a running tunnel, each of its routes is really installed, and
\* an AmneziaWG tunnel carries no other (up to routes that local rules own).
BaseIsInstalled ==
    conn.base.has /\ conn.state = "Connected" /\ Running(conn) /\ ~Installing
        => /\ conn.base.routes \ conn.client \subseteq Installed(conn)
           /\ IsAwg(conn) => Installed(conn) = conn.base.routes

\* What the controller believes confirmed is the worker's base once no signal
\* is on its way, unless the worker is already bound to reconnect.
ConfirmedAgrees ==
    ctl.confirmed.has /\ toGui = <<>> /\ toWorker = <<>> /\ ~conn.gate.pending
        => /\ conn.base.has /\ ctl.confirmed.revision =< conn.revision
           /\ ctl.confirmed.policy = [rev |-> conn.base.rev, mode |-> conn.base.mode, routes |-> conn.base.routes]

\* The AmneziaWG tunnels that exist; OpenVPN processes are not counted, because
\* OpenVpnProtocol::stop() does not wait for the one it sent SIGTERM to.
Tunnels(c) == {n \in c.native : n.awg}

\* An activation that replaces no live protocol object starts only when no
\* earlier AmneziaWG tunnel is left: a teardown that was not confirmed keeps
\* every later start out, of either kind.  (A start that does replace one hands
\* the old tunnel to the daemon, which keeps a single tunnel.)
NoOrphanTunnel ==
    [][conn.proto = 0 /\ conn'.proto # 0 => Tunnels(conn) = {}]_vars

\* The hold of a migration is released only when its tunnel is gone.
HoldReleasedSafely ==
    [][ctl.migration.hold /\ ~ctl'.migration.hold => \A n \in Tunnels(conn) : n.id > ctl.migration.epoch]_vars

\* Nothing is started, and no migration let go, over an AmneziaWG tunnel that may
\* still be there (startProtocol(), onMigrationReceipt()).
StartsAfterCleanup == NoOrphanTunnel /\ HoldReleasedSafely

\* Nothing is under way on the worker or between the threads.
Quiet ==
    /\ toWorker = <<>> /\ toGui = <<>> /\ conn.posted = {}
    /\ ~conn.cooldown /\ ~conn.deferred /\ ~conn.context.on
    /\ conn.state = "Connected" /\ Running(conn) /\ ~ctl.rebuilt

\* The worker is asked to change something; a snapshot only tells it what to
\* start the next session with.
Asked(queue) == \E i \in DOMAIN queue : queue[i].type \in {"reconcile", "rebuild"}

\* A routing synchronisation that starts in a quiet session and asks the worker
\* for nothing may do so only because the worker runs the stored policy: no
\* request is left pending, and no policy coalesced behind one, with nobody to
\* answer it, and no stale confirmation hides a difference
\* (dispatchManagedRouteReconciliation(), onManagedRouteReconciled()).  (The one
\* rebuild a session may ask for is not repeated once it is used up, and in a
\* session whose OpenVPN process restarted itself under the same epoch the
\* announcement of the base and the answer to a request can outdate one another:
\* the controller then stays unconfirmed until the next connection.)
QuietMeansConverged ==
    [][Quiet /\ ~Restarted(conn) /\ ctl.timer /\ ~ctl'.timer /\ ~ctl'.resolve.on /\ ~Asked(toWorker')
        => /\ conn.base.has
           /\ conn.base.routes \ conn.client = NormalizedRoutes(Desired(repo[conn.server])) \ conn.client]_vars
=============================================================================
