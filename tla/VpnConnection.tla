---------------------------- MODULE VpnConnection ----------------------------
(***************************************************************************)
(* The VPN worker of the desktop client (client/vpnConnection.cpp, desktop *)
(* build): one object on its own thread that owns the connection epoch,    *)
(* the protocol wrapper, the authoritative base of server-managed routes   *)
(* and the gate that spaces reconnects.  The whole object is the record    *)
(* `conn'; an operator that takes a record c and returns one is a member   *)
(* function, and its extra arguments are the answers of the service, the   *)
(* resolver or the native tunnel that the function waits for.              *)
(*                                                                         *)
(* An activation is named by the epoch it was started in (the code draws a *)
(* fresh nonce per start, and every start follows an increment of the      *)
(* epoch).  A policy is [rev, mode, routes]: its revision identity, the    *)
(* effective site route mode and the server-managed routes.                *)
(***************************************************************************)
EXTENDS Naturals, Sequences, FiniteSets

CONSTANTS Servers,      \* server identifiers
          Awg,          \* the servers whose container is AmneziaWG
          Routes,       \* canonical IPv4 routes
          Local,        \* routes owned by the user's local rules
          LocalDomains, \* number of local rules that are domain names
          Resolved,     \* the route such a name may resolve to
          Budget        \* bound on failures and on outside events, together

ASSUME WorkerAssumption ==
    /\ Awg \subseteq Servers /\ Local \subseteq Routes /\ Resolved \in Routes
    /\ LocalDomains \in Nat /\ Budget \in Nat

NoServer == "none"
NoPolicy == [rev |-> 0, mode |-> "all", routes |-> {}]
NoContext == [on |-> FALSE]
NoBase == [has |-> FALSE, mode |-> "all", routes |-> {}, epoch |-> 0,
           server |-> NoServer, rev |-> 0]

VARIABLES conn,      \* the VpnConnection object and the resources it drives
          toWorker,  \* queued signals of the GUI thread to the worker
          toGui,     \* queued signals of the worker to the GUI thread
          spent      \* failures and outside events so far

workerVars == <<conn, toWorker, toGui, spent>>

WorkerInit ==
    /\ conn = [state |-> "Disconnected", epoch |-> 0, server |-> NoServer,
               proto |-> 0, base |-> NoBase, revision |-> 0, transition |-> FALSE,
               prepared |-> [has |-> FALSE, gen |-> 0, server |-> NoServer, policy |-> NoPolicy],
               startup |-> [has |-> FALSE, server |-> NoServer, policy |-> NoPolicy],
               torn |-> FALSE, reconciled |-> 0,
               gate |-> [server |-> NoServer, pending |-> FALSE, floor |-> "none"],
               awaiting |-> FALSE, cooldown |-> FALSE, deferred |-> FALSE,
               lookups |-> 0, job |-> 0, client |-> {},
               context |-> NoContext, recovery |-> FALSE, ending |-> 0,
               native |-> {}, gateway |-> 0, service |-> {}, posted |-> {}, self |-> <<>>, out |-> <<>>]
    /\ toWorker = <<>> /\ toGui = <<>> /\ spent = 0

-----------------------------------------------------------------------------
(* Small helpers: posting to the worker's own queue, starting something     *)
(* that answers later, emitting a signal, the failures an answer costs.     *)

Post(c, e) == [c EXCEPT !.self = Append(@, e)]
Await(c, e) == [c EXCEPT !.posted = @ \cup {e}]
Emit(c, m) == [c EXCEPT !.out = Append(@, m)]
Cost(answers) == Cardinality({i \in DOMAIN answers : answers[i] # "ok"})

IsAwg(c) == c.server \in Awg

\* The mode the running tunnel was configured with.
AppliedMode(c) == c.startup.policy.mode

\* Routes the platform really holds for the managed policy of this session:
\* AmneziaWG carries them in the tunnel, other protocols in the service.
Installed(c) ==
    IF IsAwg(c) THEN UNION {n.routes : n \in {m \in c.native : m.id = c.proto}}
    ELSE c.service

\* validatedManagedRoutes plus the removal of what the local rules own; only
\* the all-except mode may carry managed routes.
NormalizedRoutes(p) == IF p.mode = "except" THEN p.routes \ Local ELSE {}

-----------------------------------------------------------------------------
(* The reconnect gate.                                                      *)

BeginReconnectSession(c, s) ==
    [c EXCEPT !.cooldown = FALSE, !.awaiting = FALSE,
              !.gate = [server |-> s, pending |-> FALSE, floor |-> "none"]]

ClearReconnectSession(c) == BeginReconnectSession(c, NoServer)

RecordReconnectFloor(c) ==
    [c EXCEPT !.cooldown = FALSE, !.awaiting = FALSE,
              !.gate.floor = IF c.server = c.gate.server THEN "recent" ELSE @]

\* Delay the gate still imposes: none before the first reconnect of a session.
GateDelayed(c) == c.gate.floor = "recent"

ScheduleReconnect(c, epoch, server) ==
    IF \/ epoch # c.epoch \/ server = NoServer \/ server # c.server
       \/ c.state # "Connected" \/ c.gate.server # server \/ c.gate.pending
    THEN c
    ELSE [c EXCEPT !.gate.pending = TRUE, !.cooldown = TRUE]

-----------------------------------------------------------------------------
(* The authoritative base.                                                  *)

InvalidateBase(c) ==
    [c EXCEPT !.base = NoBase, !.revision = @ + 1, !.transition = TRUE]

\* Raising a resolve generation.  Answers of an older generation of local lookups
\* return at once, so they are dropped here; a queued batch carries its own.
DropLookups(c) == [c EXCEPT !.lookups = 0, !.posted = {e \in @ : e.type # "lookup"}]
DropManaged(c) == [c EXCEPT !.job = @ + 1]

InvalidateResolutions(c) ==
    InvalidateBase([DropManaged(DropLookups(c)) EXCEPT !.deferred = FALSE])

PublishBase(c, p, confirmed) ==
    LET ok == /\ confirmed /\ c.torn /\ c.server # NoServer
              /\ p.mode = "except" \/ p.routes = {}
              /\ NormalizedRoutes(p) = {} \/ p.rev # 0
        b  == [has |-> TRUE, mode |-> p.mode, routes |-> NormalizedRoutes(p),
               epoch |-> c.epoch, server |-> c.server, rev |-> p.rev]
        c1 == [c EXCEPT !.revision = @ + 1, !.transition = ~ok,
                        !.base = IF ok THEN b ELSE [NoBase EXCEPT !.mode = p.mode]]
        c2 == IF c.gate.pending /\ c.gate.server = c.server
              THEN Post([c1 EXCEPT !.awaiting = FALSE], [type |-> "flush"])
              ELSE c1
    IN Post(c2, [type |-> "ready", epoch |-> c.epoch, server |-> c.server,
                 revision |-> c1.revision, ok |-> ok, policy |-> [p EXCEPT !.routes = NormalizedRoutes(p)]])

\* The queued emission: dropped when anything it speaks of has moved on.
BaseReady(c, e) ==
    IF \/ e.epoch # c.epoch \/ e.server # c.server
       \/ e.revision # c.revision \/ c.state # "Connected"
    THEN c
    ELSE Emit(c, [type |-> "base", epoch |-> e.epoch, server |-> e.server, revision |-> e.revision,
                  ok |-> e.ok, policy |-> IF e.ok THEN e.policy ELSE [NoPolicy EXCEPT !.mode = e.policy.mode]])

PrepareSnapshot(c, m) ==
    IF \/ m.gen < c.prepared.gen
       \/ m.gen = c.prepared.gen /\ c.prepared.server \notin {NoServer, m.server}
    THEN c
    ELSE LET c1 == [c EXCEPT !.prepared = [has |-> TRUE, gen |-> m.gen, server |-> m.server, policy |-> m.policy]]
         IN IF c.gate.pending THEN Post(c1, [type |-> "flush"]) ELSE c1

RebuildRoutes(c, m) ==
    IF m.epoch # c.epoch \/ m.server # c.server \/ c.state # "Connected" THEN c
    ELSE ScheduleReconnect(InvalidateBase(c), m.epoch, m.server)

LatestPreparedIsApplied(c) ==
    /\ c.prepared.has /\ c.base.has
    /\ c.prepared.server = c.base.server /\ c.prepared.policy.mode = c.base.mode
    /\ c.base.epoch = c.epoch /\ c.base.server = c.server /\ c.base.mode = AppliedMode(c)
    /\ NormalizedRoutes(c.prepared.policy) = c.base.routes

\* clearSavedRoutes with a bounded reply: "lost" is a clear that happened but
\* whose answer did not arrive, "failed" one that did not happen.
ClearSavedRoutes(c, answer) ==
    [c EXCEPT !.service = IF answer = "failed" THEN @ ELSE {}, !.torn = (answer = "ok")]

-----------------------------------------------------------------------------
(* Installing the routes of a new session (protocols other than AmneziaWG). *)

StartupMatches(c, mode) ==
    c.startup.has /\ c.startup.server = c.server /\ c.startup.policy.mode = mode

AddSitesRoutes(c) ==
    LET match == StartupMatches(c, AppliedMode(c))
        job == [type |-> "managed", job |-> c.job + 1, server |-> c.server, gateway |-> c.gateway, ok |-> match,
                policy |-> IF match THEN c.startup.policy ELSE [NoPolicy EXCEPT !.mode = AppliedMode(c)]]
        c1  == [DropManaged(DropLookups(c)) EXCEPT !.client = Local, !.deferred = FALSE,
                         !.lookups = IF match THEN LocalDomains ELSE 0]
    IN IF match /\ LocalDomains > 0
       THEN [c1 EXCEPT !.posted = @ \cup {[type |-> "lookup", n |-> n, job |-> job] :
                                              n \in 1 .. LocalDomains}]
       ELSE Post(c1, job)

\* One local name resolved (found is what it resolved to).
LookupFinished(c, e, found) ==
    IF c.lookups = 0 THEN c
    ELSE LET c1 == [c EXCEPT !.lookups = @ - 1,
                             !.client = IF c.state = "Connected" /\ c.server = e.job.server /\ c.proto # 0
                                        THEN @ \cup found ELSE @]
         IN CASE c1.lookups > 0 -> c1
              [] c1.lookups = 0 /\ c.deferred ->
                    ScheduleReconnect([c1 EXCEPT !.deferred = FALSE], c.epoch, c.server)
              [] OTHER -> Post(c1, e.job)

\* The deadline of a reconnect deferred behind local lookups.
DeferredDeadline(c) == ScheduleReconnect([c EXCEPT !.deferred = FALSE], c.epoch, c.server)

\* A mutant: the base does not wait for the acknowledged count.
ManagedRoutesAddedUncounted(c, e, answer, added) ==
    LET only == NormalizedRoutes(e.policy) \ c.client
        done == IF answer = "ok" THEN only ELSE added \cap only
    IN IF e.job # c.job \/ c.state # "Connected" \/ c.server # e.server \/ c.proto = 0 \/ e.gateway # c.gateway THEN c
       ELSE PublishBase([c EXCEPT !.service = @ \cup done], [e.policy EXCEPT !.routes = only], e.ok)

\* startManagedRoutes: the trusted batch, and only then the base; nothing at all
\* when the gateway the batch was built for is no longer the protocol's.
ManagedRoutesAdded(c, e, answer, added) ==
    LET only == NormalizedRoutes(e.policy) \ c.client
        done == IF answer = "ok" THEN only ELSE added \cap only
    IN IF e.job # c.job \/ c.state # "Connected" \/ c.server # e.server \/ c.proto = 0 \/ e.gateway # c.gateway THEN c
       ELSE PublishBase([c EXCEPT !.service = @ \cup done],
                        [e.policy EXCEPT !.routes = IF answer = "ok" THEN only ELSE {}],
                        e.ok /\ answer = "ok")

-----------------------------------------------------------------------------
(* Connection state.                                                        *)

OnConnectionStateChanged(c, s, answer) ==
    LET c1 == IF s \in {"Connecting", "Reconnecting", "Error"} /\ c.gate.pending /\ c.gate.server = c.server
              THEN [c EXCEPT !.awaiting = TRUE, !.cooldown = FALSE] ELSE c
        bySites == ~IsAwg(c) /\ AppliedMode(c) # "all"
    IN CASE s \in {"Disconnected", "Error"} -> ClearSavedRoutes(c1, answer)
         [] s = "Connected" /\ bySites /\ AppliedMode(c) = "except" -> AddSitesRoutes(c1)
         [] s = "Connected" /\ bySites /\ AppliedMode(c) = "forward" ->
                Await(c1, [type |-> "sites", epoch |-> c.epoch, server |-> c.server])
         [] s = "Connected" /\ ~bySites ->
                PublishBase(c1, IF StartupMatches(c, AppliedMode(c)) THEN c.startup.policy
                                ELSE [NoPolicy EXCEPT !.mode = AppliedMode(c)],
                            StartupMatches(c, AppliedMode(c)))
         [] OTHER -> c1

SetConnectionState(c, s, answer) ==
    LET c1 == OnConnectionStateChanged(c, s, answer)
    IN IF s = "Disconnected" /\ c.state = "Reconnecting" THEN c1
       ELSE Emit([c1 EXCEPT !.state = s],
                 [type |-> "state", state |-> s, server |-> c.server, epoch |-> c.epoch])

\* The delayed site routes of the only-forward mode.
SitesDelayed(c, e) ==
    IF e.epoch = c.epoch /\ e.server = c.server /\ c.state = "Connected" /\ c.proto # 0
    THEN AddSitesRoutes(c) ELSE c

\* The startup snapshot: what the tunnel is about to be configured with.  A mode
\* that lists sites and has none (a local name counts by its stored addresses)
\* falls back to all sites, which no later receipt can confirm.
AppendSplitTunnelingConfig(c) ==
    LET match == c.prepared.has /\ c.prepared.server = c.server
        p     == IF match THEN c.prepared.policy ELSE NoPolicy
        empty == p.mode # "all" /\ p.routes = {} /\ Local = {}
        mode  == IF empty THEN "all" ELSE p.mode
    IN [c EXCEPT !.startup = [has |-> match /\ ~empty, server |-> c.server,
                              policy |-> [p EXCEPT !.mode = mode, !.routes = IF mode = "all" THEN {} ELSE NormalizedRoutes(p)]]]

\* factory, prepare, createProtocolConnections and start of a new activation.
StartProtocol(c, answer) ==
    LET c1 == [c EXCEPT !.proto = c.epoch,
                        !.native = @ \cup {[id |-> c.epoch, awg |-> IsAwg(c), up |-> FALSE, again |-> FALSE, routes |-> NormalizedRoutes(c.startup.policy)]}]
    IN CASE answer = "ok"     -> c1
         [] answer = "failed" -> SetConnectionState([c EXCEPT !.proto = c.epoch], "Error", "ok")
         [] answer = "lost"   -> SetConnectionState([c EXCEPT !.proto = 0], "Error", "ok")

\* stop() of a protocol wrapper only asks: the AmneziaWG daemon is told to take
\* the tunnel down, an OpenVPN process is sent SIGTERM.  What it asked is over
\* when NativeStopped says so; nobody waits for an OpenVPN process.
StopProtocol(c) == [c EXCEPT !.proto = 0]

Refuse(c) ==
    IF c.context.on THEN SetConnectionState(c, "Disconnecting", "ok")
    ELSE SetConnectionState(c, "Error", "ok")

ConnectToVpn(c, m, cleared, start) ==
    IF m.expect # 0 /\ (m.expect # c.epoch \/ m.server # c.server) THEN c
    ELSE IF c.context.on \/ c.recovery THEN Refuse(c)
    ELSE LET c1 == ClearSavedRoutes(BeginReconnectSession(c, m.server), cleared)
             c2 == [InvalidateResolutions(c1) EXCEPT !.epoch = @ + 1, !.server = m.server, !.ending = 0]
             c3 == SetConnectionState(c2, "Connecting", "ok")
         IN StartProtocol(AppendSplitTunnelingConfig(StopProtocol(c3)), start)

\* A signal of a protocol object counts only while its activation is current.
IsCurrentProtocol(c, id) == c.proto = id /\ c.epoch = id

ProtocolSignal(c, e, answer) ==
    IF IsCurrentProtocol(c, e.id) THEN SetConnectionState(c, e.state, answer) ELSE c

-----------------------------------------------------------------------------
(* Reconnect and disconnect.                                                *)

NewContext(c, kind, retiring, token) ==
    [on |-> TRUE, kind |-> kind, nonce |-> c.proto, retiring |-> retiring, epoch |-> c.epoch,
     routes |-> c.torn, token |-> token, server |-> c.server]

ReconnectToVpn(c, cleared, start) ==
    IF c.context.on \/ c.recovery \/ c.proto = 0 \/ c.state # "Connected" THEN c
    ELSE LET c1 == ClearSavedRoutes(RecordReconnectFloor(c), cleared)
             c2 == InvalidateResolutions([c1 EXCEPT !.epoch = @ + 1])
             c3 == AppendSplitTunnelingConfig(SetConnectionState(c2, "Reconnecting", "ok"))
         IN IF IsAwg(c)
            THEN StopProtocol([c3 EXCEPT !.context = NewContext(c3, "reconnect", c.epoch, 0)])
            ELSE StartProtocol(StopProtocol(c3), start)

\* startUpdatedProtocol after the old AmneziaWG tunnel confirmed its cleanup.
StartUpdatedProtocol(c, ctx, start) ==
    IF ctx.epoch # c.epoch \/ ctx.server # c.server \/ c.state # "Reconnecting" THEN c
    ELSE StartProtocol(c, start)

Receipt(c, token, retiring, ok) ==
    IF token = 0 THEN c
    ELSE Emit(c, [type |-> "receipt", server |-> c.server, token |-> token, retiring |-> retiring,
                  epoch |-> c.epoch, ok |-> ok])

\* The completion context of an ordinary disconnect: the terminal state of the
\* retired process, or Error after nine seconds.
DisconnectCompleted(c, s, answer) ==
    IF c.ending = c.epoch /\ c.state = "Disconnecting"
    THEN SetConnectionState([c EXCEPT !.ending = 0], s, answer)
    ELSE [c EXCEPT !.ending = 0]

\* stop() reports Disconnected before it returns, whether or not the process has
\* gone; a wrapper whose process had ended before stop() reports nothing.
Ending(c, answer) ==
    IF \E n \in c.native : n.id = c.proto THEN DisconnectCompleted(c, "Disconnected", answer) ELSE c

DisconnectFromVpn(c, token, cleared, again) ==
    IF c.context.on THEN c
    ELSE LET retiring == c.epoch
             c1 == ClearSavedRoutes(ClearReconnectSession(c), cleared)
             c2 == InvalidateResolutions([c1 EXCEPT !.epoch = @ + 1])
             c3 == SetConnectionState(c2, "Disconnecting", "ok")
         IN CASE c.proto = 0 /\ IsAwg(c) ->
                   Receipt(SetConnectionState([c2 EXCEPT !.recovery = TRUE], "Error", again), token, retiring, FALSE)
              [] c.proto = 0 /\ ~IsAwg(c) ->
                   Receipt(SetConnectionState(c2, "Disconnected", again), token, retiring, FALSE)
              [] c.proto # 0 /\ IsAwg(c) ->
                   StopProtocol([c3 EXCEPT !.context = NewContext(c3, "disconnect", retiring, token)])
              [] OTHER ->
                   Receipt(StopProtocol(Ending([c3 EXCEPT !.ending = c3.epoch], again)), token, retiring, FALSE)

RequestMigrationTeardown(c, m, cleared, again) ==
    IF m.server # c.server \/ m.epoch # c.epoch \/ ~IsAwg(c) \/ c.proto = 0 \/ c.context.on \/ c.recovery
    THEN Receipt(c, m.token, c.epoch, FALSE)
    ELSE DisconnectFromVpn(c, m.token, cleared, again)

\* A mutant: the deadline counts as the native confirmation.
TeardownFinishedUnchecked(c, nativeGone, answer, start) ==
    LET ctx == c.context
        c1  == [c EXCEPT !.context = NoContext]
    IN IF ctx.kind = "reconnect" THEN StartUpdatedProtocol(c1, ctx, start)
       ELSE SetConnectionState(c1, "Disconnected", answer)

\* MigrationTeardownContext::finish, on a receipt of the retired activation or
\* on the deadline.
TeardownFinished(c, nativeGone, answer, start) ==
    LET ctx == c.context
        ok  == nativeGone /\ ctx.routes /\ c.epoch = ctx.epoch
        c1  == [c EXCEPT !.context = NoContext, !.recovery = ~ok]
    IN IF ctx.kind = "reconnect"
       THEN IF ok THEN StartUpdatedProtocol(c1, ctx, start) ELSE SetConnectionState(c1, "Error", answer)
       ELSE LET c2 == SetConnectionState(c1, IF ok THEN "Disconnected" ELSE "Error", answer)
            IN IF ctx.token = 0 THEN c2
               ELSE Emit(c2, [type |-> "receipt", server |-> ctx.server, token |-> ctx.token,
                              retiring |-> ctx.retiring, epoch |-> ctx.epoch, ok |-> ok])

-----------------------------------------------------------------------------
(* Flushing the gate, and reconciling a policy delta.                       *)

FlushReconnect(c, cleared, start) ==
    CASE ~c.gate.pending -> c
      [] c.gate.pending /\ (c.state # "Connected" \/ c.server # c.gate.server) ->
            [c EXCEPT !.awaiting = @ \/ (c.server # NoServer /\ c.server = c.gate.server)]
      [] c.gate.pending /\ c.state = "Connected" /\ c.server = c.gate.server
           /\ c.awaiting /\ ~c.base.has -> c
      [] OTHER ->
            LET c1 == [c EXCEPT !.awaiting = FALSE]
            IN IF LatestPreparedIsApplied(c1)
               THEN PublishBase([c1 EXCEPT !.gate.pending = FALSE, !.cooldown = FALSE], c.prepared.policy, TRUE)
               ELSE IF GateDelayed(c1) THEN [c1 EXCEPT !.cooldown = TRUE]
               ELSE ReconnectToVpn(RecordReconnectFloor([c1 EXCEPT !.gate.pending = FALSE]), cleared, start)

\* updateManagedSplitTunnelRoutes: <<result, record>>.  AmneziaWG replaces its
\* exclusions in the daemon; the others may only add through the service.
UpdateManagedRoutes(c, old, new, answer, added) ==
    LET c1 == DropManaged(c)
        plus == new \ old
        replaced == [c1 EXCEPT !.native = {IF n.id = c.proto THEN [n EXCEPT !.routes = new] ELSE n : n \in @}]
    IN CASE c.proto = 0 -> <<"reconnect", c>>
         [] c.proto # 0 /\ c.lookups > 0 -> <<"deferred", [c1 EXCEPT !.deferred = TRUE]>>
         [] c.proto # 0 /\ c.lookups = 0 /\ new = old -> <<"updated", c1>>
         [] c.proto # 0 /\ c.lookups = 0 /\ new # old /\ IsAwg(c) ->
              (CASE answer = "ok"     -> <<"updated", replaced>>
                 [] answer = "lost"   -> <<"uncertain", replaced>>
                 [] answer = "failed" -> <<"reconnect", c1>>)
         [] c.proto # 0 /\ c.lookups = 0 /\ ~IsAwg(c) /\ old \ new # {} -> <<"reconnect", c1>>
         [] OTHER ->
              (CASE answer = "ok"     -> <<"updated", [c1 EXCEPT !.service = @ \cup plus]>>
                 [] answer = "lost"   -> <<"uncertain", [c1 EXCEPT !.service = @ \cup (added \cap plus)]>>
                 [] answer = "failed" -> <<"reconnect", c1>>)

Reconciled(c, m, accepted, updated, scheduled) ==
    Emit(c, [type |-> "reconciled", gen |-> m.gen, epoch |-> IF accepted THEN m.epoch ELSE c.epoch,
             server |-> IF accepted THEN m.server ELSE c.server, accepted |-> accepted, updated |-> updated,
             scheduled |-> scheduled, revision |-> c.revision,
             policy |-> IF c.base.has THEN [rev |-> c.base.rev, mode |-> c.base.mode, routes |-> c.base.routes]
                        ELSE NoPolicy])

ReconcileRoutes(c0, m, answer, added, cleared, start) ==
    LET c == [c0 EXCEPT !.reconciled = IF m.gen > @ THEN m.gen ELSE @]
        bound == m.gen > c0.reconciled /\ m.epoch = c.epoch /\ m.server = c.server /\ c.state = "Connected"
        new   == NormalizedRoutes(m.policy)
        c1    == PrepareSnapshot([c EXCEPT !.transition = TRUE], m)
        inContext == /\ c.base.has /\ c.base.epoch = c.epoch /\ c.base.server = c.server
                     /\ c.base.mode = m.policy.mode /\ AppliedMode(c) = m.policy.mode
        matches == /\ c.base.has /\ m.revision = c.revision /\ m.policy.mode = c.base.mode
                   /\ m.old = c.base.routes /\ m.oldRev = c.base.rev /\ c.base.epoch = m.epoch
        upd == CASE inContext /\ new = c.base.routes -> <<"updated", c1>>
                 [] inContext /\ new # c.base.routes /\ matches -> UpdateManagedRoutes(c1, m.old, new, answer, added)
                 [] OTHER -> <<"reconnect", c1>>
        c2 == upd[2]
        based == [c2 EXCEPT !.base = [has |-> TRUE, mode |-> m.policy.mode, routes |-> new, epoch |-> c.epoch,
                                      server |-> c.server, rev |-> m.policy.rev],
                            !.revision = @ + 1, !.transition = FALSE]
        settled == IF LatestPreparedIsApplied(based)
                   THEN [based EXCEPT !.gate.pending = FALSE, !.cooldown = FALSE] ELSE based
    IN CASE ~bound -> Reconciled(c, m, FALSE, FALSE, FALSE)
         [] bound /\ upd[1] = "updated"   -> Reconciled(settled, m, TRUE, TRUE, FALSE)
         [] bound /\ upd[1] = "uncertain" ->
              ReconnectToVpn(RecordReconnectFloor([Reconciled(InvalidateBase(c2), m, TRUE, FALSE, TRUE)
                                                     EXCEPT !.gate.pending = FALSE]), cleared, start)
         [] bound /\ upd[1] = "deferred" -> Reconciled(c2, m, TRUE, FALSE, TRUE)
         [] bound /\ upd[1] = "reconnect" ->
              ScheduleReconnect(Reconciled(c2, m, TRUE, FALSE, TRUE), m.epoch, m.server)
-----------------------------------------------------------------------------
(* The worker's event loop.  `Answers' are the outcomes of a call to the    *)
(* service or of a protocol start: done, done but unacknowledged, not done. *)

Answers == {"ok", "lost", "failed"}

Becomes(c, answers, queue) ==
    /\ spent + Cost(answers) =< Budget
    /\ spent' = spent + Cost(answers)
    /\ conn' = [c EXCEPT !.out = <<>>, !.self = <<>>]
    /\ toWorker' = queue \o c.self
    /\ toGui' = toGui \o c.out

\* The next event of the worker's queue: a request of the GUI thread or an
\* event the worker or a protocol object posted.
Request ==
    /\ toWorker # <<>>
    /\ LET m == Head(toWorker)
           Done(c, answers) == Becomes(c, answers, Tail(toWorker))
       IN \/ /\ m.type = "snapshot" /\ Done(PrepareSnapshot(conn, m), <<>>)
          \/ /\ m.type = "rebuild" /\ Done(RebuildRoutes(conn, m), <<>>)
          \/ /\ m.type = "open"
             /\ \E a, b \in Answers : Done(ConnectToVpn(conn, m, a, b), <<a, b>>)
          \/ /\ m.type = "close"
             /\ \E a, b \in Answers : Done(DisconnectFromVpn(conn, 0, a, b), <<a, b>>)
          \/ /\ m.type = "teardown"
             /\ \E a, b \in Answers : Done(RequestMigrationTeardown(conn, m, a, b), <<a, b>>)
          \/ /\ m.type = "reconcile"
             /\ \E a, b, d \in Answers, part \in {{}, Routes} :
                    Done(ReconcileRoutes(conn, m, a, part, b, d), <<a, b, d>>)
          \/ /\ m.type = "ready" /\ Done(BaseReady(conn, m), <<>>)
          \/ /\ m.type = "managed"
             /\ \E a \in Answers, part \in {{}, Routes} : Done(ManagedRoutesAdded(conn, m, a, part), <<a>>)
          \/ /\ m.type = "flush"
             /\ \E a, b \in Answers : Done(FlushReconnect(conn, a, b), <<a, b>>)
          \/ /\ m.type = "signal"
             /\ \E a \in Answers : Done(ProtocolSignal(conn, m, a), <<a>>)
          \/ /\ m.type = "cleanup"
             /\ IF conn.context.on /\ conn.context.nonce = m.id
                THEN \E a, b \in Answers : Done(TeardownFinished(conn, TRUE, a, b), <<a, b>>)
                ELSE Done(conn, <<>>)

Moves(c, answers) == Becomes(c, answers, toWorker)

\* An answer or a delayed call the worker waits for.
Event ==
    \E e \in conn.posted :
       LET c == [conn EXCEPT !.posted = @ \ {e}]
       IN \/ /\ e.type = "sites" /\ Moves(SitesDelayed(c, e), <<>>)
          \/ /\ e.type = "lookup"
             /\ \E found \in {{}, {Resolved}} : Moves(LookupFinished(c, e, found), <<>>)

\* The gate's cool-down timer fires once its interval has passed.
CooldownTimer ==
    /\ conn.cooldown
    /\ LET c == [conn EXCEPT !.cooldown = FALSE, !.gate.floor = IF @ = "recent" THEN "passed" ELSE @]
       IN \E a, b \in Answers : Moves(FlushReconnect(c, a, b), <<a, b>>)

DeferredTimer ==
    /\ conn.deferred /\ conn.lookups > 0
    /\ Moves(DeferredDeadline(conn), <<>>)

\* The nine-second owners of a native teardown and of an ordinary disconnect.
TeardownDeadline ==
    /\ conn.context.on
    /\ \E a \in Answers : Moves(TeardownFinished(conn, FALSE, a, "ok"), <<"lost", a>>)

DisconnectDeadline ==
    /\ conn.ending # 0
    /\ \E a \in Answers : Moves(DisconnectCompleted(conn, "Error", a), <<"lost", a>>)

-----------------------------------------------------------------------------
(* The native side: processes and the AmneziaWG service daemon.             *)

Signal(c, n, s) == Post(c, [type |-> "signal", id |-> n.id, state |-> s])

\* A tunnel comes up; the AmneziaWG daemon keeps one tunnel only.
NativeUp ==
    /\ \E n \in conn.native :
         /\ ~n.up /\ n.id = conn.proto
         /\ LET rest == {m \in conn.native \ {n} : ~(n.awg /\ m.awg)}
            IN Moves(Signal([conn EXCEPT !.native = rest \cup {[n EXCEPT !.up = TRUE]}], n, "Connected"), <<>>)

\* The current tunnel fails: a WireGuard backend reports an error, an OpenVPN
\* process ends, or restarts itself, perhaps behind another gateway.
NativeFails ==
    /\ \E n \in conn.native :
         /\ n.id = conn.proto
         /\ \/ Moves(Signal([conn EXCEPT !.native = @ \ {n}], n, IF n.awg THEN "Error" ELSE "Disconnected"), <<"lost">>)
            \/ /\ ~n.awg /\ n.up
               /\ \E g \in {conn.gateway, 1 - conn.gateway} :
                    Moves(Signal([conn EXCEPT !.native = (@ \ {n}) \cup {[n EXCEPT !.up = FALSE, !.again = TRUE]}, !.gateway = g],
                                 n, "Reconnecting"), <<"lost">>)

\* What was told to stop is gone.  The daemon takes its commands in the order
\* they were given and says so; the end of a retired process is not heard of.
NativeStopped ==
    /\ \E n \in conn.native :
         /\ n.id # conn.proto /\ \A m \in conn.native : m.awg = n.awg => n.id =< m.id
         /\ LET c == [conn EXCEPT !.native = @ \ {n}]
            IN Moves(IF n.awg THEN Post(c, [type |-> "cleanup", id |-> n.id]) ELSE c, <<>>)

WorkerStep ==
    \/ Request \/ Event \/ CooldownTimer \/ DeferredTimer
    \/ TeardownDeadline \/ DisconnectDeadline
    \/ NativeUp \/ NativeFails \/ NativeStopped
=============================================================================
