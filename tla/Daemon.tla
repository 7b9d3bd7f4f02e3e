--------------------------------- MODULE Daemon ---------------------------------
(***************************************************************************)
(* The headless daemon's session life cycle, headless/daemon.cpp: connect, *)
(* disconnect, health cleanup, route refresh, automatic connection, stop   *)
(* and start, over the VPN backend and the routing controller it owns.     *)
(*                                                                         *)
(* The daemon has one thread, but its calls into the backend, the routing  *)
(* controller and the updater wait in nested event loops, so any other     *)
(* handler may run inside such a wait and must finish before the call      *)
(* returns.  The model keeps the handlers in progress on a stack: only the *)
(* top one moves, and a step of it is one call that has returned.          *)
(*                                                                         *)
(* Abstractions.  A profile is a model value with a native interface.  The *)
(* backend is its session and the kernel interfaces, the routing           *)
(* controller its active profile, its durable recovery flag and the        *)
(* offline receipt.  Route sets, DNS, policies, migration files and the    *)
(* 30 second handshake grace are outcomes of the calls that decide them.   *)
(***************************************************************************)
EXTENDS Naturals, Sequences, FiniteSets

CONSTANTS
    Profiles,      \* the stored profiles
    None,          \* no profile
    AutoProfile,   \* the first profile with autoConnect, or None
    ServerRules,   \* profiles with a serverRulesUrl
    AllExcept,     \* profiles in all-except mode
    Candidates,    \* profiles for which a migration candidate may be offered
    MaxDepth       \* bound: nested handlers

ASSUME ProfilesAssumption ==
    /\ None \notin Profiles /\ AutoProfile \in Profiles \cup {None}
    /\ ServerRules \subseteq Profiles /\ AllExcept \subseteq Profiles
    /\ Candidates \subseteq Profiles
ASSUME DepthAssumption == MaxDepth \in Nat \ {0}

VARIABLES
    \* the process
    up,            \* the daemon listens: m_startPhase is Listening
    quitting,      \* application.quit() has been called
    stack,         \* handlers in progress, the innermost first
    inFlight,      \* m_mutationInFlight
    autoPending,   \* the single-shot timer of connectAutomaticProfile()
    \* what the daemon believes
    state,         \* m_state
    backendOwned, routingOwned,
    active,        \* m_activeProfile
    refreshTimer,  \* m_routingRefreshTimer is active
    \* the VPN backend and the kernel
    session,       \* the profile of VpnBackend::m_session
    ifaces,        \* profiles whose kernel interface exists
    dead,          \* the session fails its health probe
    \* the routing controller
    routes,        \* the profile its receipt and routes belong to
    recovery,      \* recoveryRequired
    needsReapply,  \* an offline receipt kept for reconnection
    degraded       \* m_routingDegraded

process == <<up, quitting, autoPending>>
belief == <<state, backendOwned, routingOwned, active, refreshTimer>>
backend == <<session, ifaces, dead>>
routing == <<routes, recovery, needsReapply, degraded>>
vars == <<process, stack, inFlight, belief, backend, routing>>

--------------------------------------------------------------------------------
(* Handlers and their frames *)

Ops == {"health", "connect", "disconnect", "refresh", "auto", "other", "stop", "destroy"}

\* scope: the frame's MutationScope acquired the flag.  legacy: the connection
\* falls back from a failed migration.  live: the call that stop() waits for
\* found something to take down when it began.
Frame(o, at, p, scoped) ==
    [op |-> o, pc |-> at, profile |-> p, scope |-> scoped, legacy |-> FALSE, live |-> FALSE]

Top == stack[1]

Running(at) == stack # <<>> /\ Top.pc = at

Goto(at) == stack' = <<[Top EXCEPT !.pc = at]>> \o Tail(stack) /\ UNCHANGED inFlight

\* The handler returns and its MutationScope is destroyed.
Return == stack' = Tail(stack) /\ inFlight' = (inFlight /\ ~Top.scope)

\* The event loop of the process or of a call in progress delivers events.
\* stop() waits only for what it really has to take down.
Waiting ==
    stack # <<>> => /\ Top.pc \notin {"m_check", "s_exit"}
                    /\ Top.pc \in {"s_routing", "s_backend"} => Top.live

\* A handler that must hold the scope starts only when the flag is free.
Enter(o, at, p) ==
    /\ Waiting /\ Len(stack) < MaxDepth
    /\ ~inFlight
    /\ stack' = <<Frame(o, at, p, TRUE)>> \o stack
    /\ inFlight' = TRUE

\* stop() runs, called by aboutToQuit ("stop") or the destructor ("destroy").
Stopping == \E i \in 1 .. Len(stack) : stack[i].op \in {"stop", "destroy"}

\* After quit() no event loop runs until aboutToQuit.
Delivering == quitting => Stopping

--------------------------------------------------------------------------------
(* The backend: VpnBackend::connect() and disconnect() *)

Alive == session # None /\ session \in ifaces /\ ~dead

BackendUp(p) == session' = p /\ ifaces' = ifaces \cup {p} /\ dead' = FALSE

\* A start that fails: nothing was created, or the interface did not become
\* ready and the result of its removal was not looked at.
BackendNotUp(p) ==
    /\ UNCHANGED <<session, dead>>
    /\ ifaces' \in {ifaces, ifaces \cup {p}, ifaces \ {p}}

\* disconnect() succeeds, without a session at once.
BackendDown(p) == session' = None /\ ifaces' = ifaces \ {p} /\ dead' = FALSE

\* disconnect() fails: the command failed, or the session is gone and only its
\* temporary configuration could not be removed.
BackendNotDown(p) ==
    /\ p # None
    /\ \/ UNCHANGED <<session, dead>> /\ ifaces' \in {ifaces, ifaces \ {p}}
       \/ BackendDown(p)

--------------------------------------------------------------------------------
(* The routing controller: connect(), refresh() and disconnect() *)

\* A full tunnel takes its exceptions from the server.
Routable(p) == ~recovery /\ (p \in AllExcept => p \in ServerRules)

\* connect() or refresh() succeeds.
RoutesUp(p) ==
    /\ Routable(p)
    /\ routes' = p /\ needsReapply' = FALSE /\ degraded' = FALSE /\ UNCHANGED recovery

\* Mutant of RoutesDegraded: the bootstrap that is undone restores the flag too.
RoutesDegradedUnflagged(p) ==
    /\ Routable(p) /\ p \in AllExcept
    /\ UNCHANGED routing

\* A full tunnel falls back to only-forward (routing_degraded).  When it was the
\* bootstrap before the policy is fetched that fell back, the previous routes,
\* perhaps none, are put back and only the flag is left.
RoutesDegraded(p) ==
    /\ Routable(p) /\ p \in AllExcept
    /\ \/ routes' = p /\ needsReapply' = FALSE
       \/ (needsReapply \/ routes # p \/ degraded) /\ UNCHANGED <<routes, needsReapply>>
    /\ degraded' = TRUE /\ UNCHANGED recovery

\* It fails with the previous routes restored, or needs recovery.
RoutesNotUp(p) ==
    \/ UNCHANGED routing
    \/ /\ recovery' = TRUE /\ routes' \in {routes, p} /\ degraded' \in {degraded, TRUE}
       /\ UNCHANGED needsReapply

RoutesDown ==
    /\ ~recovery /\ UNCHANGED recovery
    /\ routes' = None /\ needsReapply' = FALSE /\ degraded' = FALSE

RoutesNotDown ==
    \/ UNCHANGED routing
    \/ /\ recovery' = TRUE /\ routes' \in {routes, None} /\ degraded' \in {degraded, FALSE}
       /\ UNCHANGED needsReapply

--------------------------------------------------------------------------------
(* Requests and timers *)

\* Mutating requests: Connect, Disconnect, and Import, ImportRemoteLogs and
\* UpdateRollback, which only probe the session here; all of them are refused
\* while another mutation is in flight.
Requested(o, p) ==
    /\ up /\ Delivering
    /\ Enter(o, "health", p)
    /\ UNCHANGED <<process, belief, backend, routing>>

ConnectRequest == \E p \in Profiles : Requested("connect", p)

DisconnectRequest == Requested("disconnect", None)

OtherRequest == Requested("other", None)

\* Status, Doctor, ListProfiles and Export requests probe the session on a
\* scope of their own.
ObserveRequest == Requested("health", None)

\* stop() ends the health timer first thing.
HealthTimer ==
    /\ up /\ ~quitting
    /\ Enter("health", "health", None)
    /\ UNCHANGED <<process, belief, backend, routing>>

RefreshTimer ==
    /\ Delivering /\ refreshTimer
    /\ Enter("refresh", "health", None)
    /\ UNCHANGED <<process, belief, backend, routing>>

\* checkAutomaticUpdates() and checkAwgMigration() hold the scope over network
\* waits and leave the session alone.
PeriodicTimer ==
    /\ up /\ Delivering
    /\ Enter("other", "end", None)
    /\ UNCHANGED <<process, belief, backend, routing>>

\* connectAutomaticProfile(): a shot that finds a mutation in flight is lost.
AutoConnect ==
    /\ autoPending /\ autoPending' = FALSE
    /\ Waiting /\ Delivering
    /\ IF inFlight \/ state # "disconnected"
       THEN UNCHANGED <<stack, inFlight, belief>>
       ELSE IF recovery
       THEN /\ state' = "recovery_required" /\ refreshTimer' = FALSE
            /\ UNCHANGED <<stack, inFlight, backendOwned, routingOwned, active>>
       ELSE IF AutoProfile = None
       THEN UNCHANGED <<stack, inFlight, belief>>
       ELSE Enter("auto", "connect", AutoProfile) /\ UNCHANGED belief
    /\ UNCHANGED <<up, quitting, backend, routing>>

--------------------------------------------------------------------------------
(* ensureBackendHealthy() *)

\* Where a handler goes on after the health probe.
AfterHealth == CASE Top.op = "connect" -> "connect"
                 [] Top.op = "disconnect" -> "d_routing"
                 [] Top.op = "refresh" -> "refresh"
                 [] OTHER -> "end"

\* Mutant of Healthy: an interface that exists is taken for a live tunnel.
HealthyByInterface ==
    /\ Running("health")
    /\ state # "connected" \/ session \in ifaces
    /\ Goto(AfterHealth)
    /\ UNCHANGED <<process, belief, backend, routing>>

Healthy ==
    /\ Running("health")
    /\ state # "connected" \/ Alive
    /\ Goto(AfterHealth)
    /\ UNCHANGED <<process, belief, backend, routing>>

\* A dead session: the backend first, the routes only once it has stopped.
HealthBackend ==
    /\ Running("health") /\ state = "connected" /\ ~Alive
    /\ refreshTimer' = FALSE
    /\ \/ /\ IF backendOwned THEN BackendDown(session) ELSE UNCHANGED backend
          /\ backendOwned' = FALSE /\ UNCHANGED state /\ Goto("h_routing")
       \/ /\ backendOwned /\ BackendNotDown(session)
          /\ state' = "cleanup_failed" /\ UNCHANGED backendOwned /\ Goto(AfterHealth)
    /\ UNCHANGED <<process, routingOwned, active, routing>>

HealthRouting ==
    /\ Running("h_routing")
    /\ \/ /\ IF routingOwned THEN RoutesDown ELSE UNCHANGED routing
          /\ routingOwned' = FALSE /\ state' = "disconnected" /\ active' = None
       \/ /\ routingOwned /\ RoutesNotDown
          /\ state' = "cleanup_failed" /\ UNCHANGED <<routingOwned, active>>
    /\ Goto(AfterHealth)
    /\ UNCHANGED <<process, backendOwned, refreshTimer, backend>>

End ==
    /\ Running("end")
    /\ Return
    /\ UNCHANGED <<process, belief, backend, routing>>

--------------------------------------------------------------------------------
(* Connect and connectAutomaticProfile(): connectManagedProfile() *)

\* Without a candidate, or with a session already active, or in a state that
\* asks for recovery, no migration starts.
ConnectRefused ==
    /\ Running("connect")
    /\ \/ Top.op = "connect" /\ state \in {"cleanup_failed", "recovery_required"}
       \/ session # None
    /\ Return
    /\ UNCHANGED <<process, belief, backend, routing>>

ConnectMayStart ==
    /\ Running("connect")
    /\ Top.op = "connect" => state \notin {"cleanup_failed", "recovery_required"}
    /\ session = None

ConnectLegacy ==
    /\ ConnectMayStart
    /\ Goto("l_backend")
    /\ UNCHANGED <<process, belief, backend, routing>>

\* A candidate is offered and its journal begins, or cannot be written.
ConnectCandidate ==
    /\ ConnectMayStart /\ Top.profile \in Candidates
    /\ Goto("m_backend") \/ Return
    /\ UNCHANGED <<process, belief, backend, routing>>

\* Both callers publish the connection they got.
Connected ==
    /\ backendOwned' = TRUE /\ routingOwned' = TRUE
    /\ state' = "connected" /\ active' = Top.profile
    /\ refreshTimer' = IF Top.op = "auto" THEN refreshTimer \/ Top.profile \in ServerRules
                       ELSE Top.profile \in ServerRules
    /\ Return

\* connectLegacy() failed; as the fallback of a migration that is an error of
\* its own.
LegacyFailed(s) ==
    /\ state' = IF Top.legacy THEN "recovery_required" ELSE s
    /\ Return

\* Mutant of LegacyBackend: the session is owned only once the routes are up.
LegacyBackendUnowned ==
    /\ Running("l_backend")
    /\ BackendUp(Top.profile) /\ Goto("l_routing")
    /\ UNCHANGED <<process, belief, routing>>

LegacyBackend ==
    /\ Running("l_backend")
    /\ \/ BackendUp(Top.profile) /\ backendOwned' = TRUE /\ Goto("l_routing") /\ UNCHANGED state
       \/ BackendNotUp(Top.profile) /\ LegacyFailed(state) /\ UNCHANGED backendOwned
    /\ UNCHANGED <<process, routingOwned, active, refreshTimer, routing>>

LegacyRouting ==
    /\ Running("l_routing")
    /\ \/ (RoutesUp(Top.profile) \/ RoutesDegraded(Top.profile)) /\ Connected
       \/ RoutesNotUp(Top.profile) /\ Goto("l_clean") /\ UNCHANGED belief
    /\ UNCHANGED <<process, backend>>

LegacyCleanup ==
    /\ Running("l_clean")
    /\ \/ BackendDown(session) /\ backendOwned' = FALSE /\ LegacyFailed(state)
       \/ BackendNotDown(session) /\ LegacyFailed("cleanup_failed") /\ UNCHANGED backendOwned
    /\ UNCHANGED <<process, routingOwned, active, refreshTimer, routing>>

\* The daemon stops trusting the session.
RecoverSession == state' = "recovery_required" /\ Return

\* A failed candidate that left a session or an interface is not retried.
MigrateBackend ==
    /\ Running("m_backend")
    /\ LET p == Top.profile
       IN \/ BackendUp(p) /\ backendOwned' = TRUE /\ Goto("m_routing") /\ UNCHANGED state
          \/ /\ BackendNotUp(p) /\ p \notin ifaces'
             /\ Goto("m_abandon") /\ UNCHANGED <<backendOwned, state>>
          \/ /\ (BackendNotUp(p) /\ p \in ifaces') \/ BackendUp(p)
             /\ backendOwned' = (session' # None) /\ RecoverSession
    /\ UNCHANGED <<process, routingOwned, active, refreshTimer, routing>>

\* Routing, verification and commit of the candidate, which degraded routing
\* does not reach.
MigrateRouting ==
    /\ Running("m_routing")
    /\ \/ RoutesUp(Top.profile) /\ Connected
       \/ /\ RoutesUp(Top.profile) \/ RoutesDegraded(Top.profile)
          /\ routingOwned' = TRUE /\ Goto("m_check")
          /\ UNCHANGED <<state, backendOwned, active, refreshTimer>>
       \/ RoutesNotUp(Top.profile) /\ Goto("m_check") /\ UNCHANGED belief
    /\ UNCHANGED <<process, backend>>

MigrateCheck ==
    /\ Running("m_check")
    /\ IF recovery THEN RecoverSession
       ELSE Goto(IF routingOwned THEN "m_routes" ELSE "m_clean") /\ UNCHANGED state
    /\ UNCHANGED <<process, backendOwned, routingOwned, active, refreshTimer, backend, routing>>

MigrateRetireRoutes ==
    /\ Running("m_routes")
    /\ \/ RoutesDown /\ routingOwned' = FALSE /\ Goto("m_clean") /\ UNCHANGED state
       \/ RoutesNotDown /\ RecoverSession /\ UNCHANGED routingOwned
    /\ UNCHANGED <<process, backendOwned, active, refreshTimer, backend>>

MigrateCleanup ==
    /\ Running("m_clean")
    /\ \/ BackendDown(session) /\ backendOwned' = FALSE /\ Goto("m_abandon") /\ UNCHANGED state
       \/ BackendNotDown(session) /\ RecoverSession /\ UNCHANGED backendOwned
    /\ UNCHANGED <<process, routingOwned, active, refreshTimer, routing>>

\* The journal goes back, and the legacy profile is connected instead.
MigrateAbandon ==
    /\ Running("m_abandon")
    /\ \/ /\ stack' = <<[Top EXCEPT !.pc = "l_backend", !.legacy = TRUE]>> \o Tail(stack)
          /\ UNCHANGED <<inFlight, state>>
       \/ RecoverSession
    /\ UNCHANGED <<process, backendOwned, routingOwned, active, refreshTimer, backend, routing>>

--------------------------------------------------------------------------------
(* Disconnect and refreshManagedRoutes() *)

\* The routes go while the interface is still there.
DisconnectRouting ==
    /\ Running("d_routing")
    /\ refreshTimer' = FALSE
    /\ \/ /\ IF routingOwned THEN RoutesDown ELSE UNCHANGED routing
          /\ routingOwned' = FALSE /\ Goto("d_backend") /\ UNCHANGED state
       \/ /\ routingOwned /\ RoutesNotDown
          /\ state' = "cleanup_failed" /\ Return /\ UNCHANGED routingOwned
    /\ UNCHANGED <<process, backendOwned, active, backend>>

DisconnectBackend ==
    /\ Running("d_backend")
    /\ \/ /\ IF backendOwned THEN BackendDown(session) ELSE UNCHANGED backend
          /\ backendOwned' = FALSE /\ state' = "disconnected" /\ active' = None
       \/ /\ backendOwned /\ BackendNotDown(session)
          /\ state' = "cleanup_failed" /\ UNCHANGED <<backendOwned, active>>
    /\ Return
    /\ UNCHANGED <<process, routingOwned, refreshTimer, routing>>

\* A failed refresh keeps the routes unless they need recovery; one for routes
\* that are not the profile's is refused.
Refresh ==
    /\ Running("refresh")
    /\ IF state # "connected"
       THEN refreshTimer' = FALSE /\ UNCHANGED <<state, routing>>
       ELSE IF routes # active /\ ~recovery
       THEN UNCHANGED <<state, refreshTimer, routing>>
       ELSE \/ (RoutesUp(active) \/ RoutesDegraded(active)) /\ UNCHANGED <<state, refreshTimer>>
            \/ /\ RoutesNotUp(active)
               /\ state' = IF recovery' THEN "recovery_required" ELSE state
               /\ refreshTimer' = (refreshTimer /\ ~recovery')
    /\ Return
    /\ UNCHANGED <<process, backendOwned, routingOwned, active, backend>>

--------------------------------------------------------------------------------
(* stop() and start() *)

\* SIGTERM: the event loops end, waits in progress fail early, and nothing new
\* is started until exec() has returned.
Terminate ==
    /\ up /\ ~quitting /\ quitting' = TRUE
    /\ UNCHANGED <<up, autoPending, stack, inFlight, belief, backend, routing>>

StopFrame(o) == [Frame(o, "s_routing", None, FALSE) EXCEPT !.live = routingOwned]

\* aboutToQuit: stop() runs without a MutationScope, and its calls wait in
\* nested event loops again.
Stop ==
    /\ up /\ quitting /\ stack = <<>>
    /\ stack' = <<StopFrame("stop")>>
    /\ refreshTimer' = FALSE
    /\ UNCHANGED <<process, inFlight, state, backendOwned, routingOwned, active, backend, routing>>

\* The backend call begins with the session of that moment.
StopRouting ==
    /\ Running("s_routing")
    /\ \/ /\ IF Top.live THEN RoutesDown ELSE UNCHANGED routing
          /\ routingOwned' = FALSE
          /\ stack' = <<[Top EXCEPT !.pc = "s_backend", !.profile = session,
                                    !.live = backendOwned /\ session # None]>> \o Tail(stack)
          /\ UNCHANGED <<inFlight, state>>
       \/ /\ Top.live /\ RoutesNotDown
          /\ state' = "cleanup_failed" /\ Goto("s_exit") /\ UNCHANGED routingOwned
    /\ UNCHANGED <<process, backendOwned, active, refreshTimer, backend>>

\* The call ends for the session it began with, and resets the one there is.
StopBackend ==
    /\ Running("s_backend")
    /\ \/ /\ ~Top.live \/ session # None
          /\ IF Top.live THEN BackendDown(Top.profile) ELSE UNCHANGED backend
          /\ backendOwned' = FALSE /\ state' = "disconnected" /\ active' = None
       \/ /\ Top.live /\ BackendNotDown(Top.profile)
          /\ state' = "cleanup_failed" /\ UNCHANGED <<backendOwned, active>>
    /\ Goto("s_exit")
    /\ UNCHANGED <<process, routingOwned, refreshTimer, routing>>

\* The memory of no process.
Forget ==
    /\ up' = FALSE /\ quitting' = FALSE /\ autoPending' = FALSE
    /\ stack' = <<>> /\ inFlight' = FALSE
    /\ state' = "disconnected" /\ backendOwned' = FALSE /\ routingOwned' = FALSE
    /\ active' = None /\ refreshTimer' = FALSE
    /\ session' = None /\ dead' = FALSE

\* The command succeeded and the session, which another handler has reset
\* meanwhile, is dereferenced: the process dies.
StopDereferences ==
    /\ Running("s_backend") /\ Top.live /\ session = None
    /\ Forget
    /\ ifaces' = ifaces \ {Top.profile}
    /\ UNCHANGED routing

\* The server closes; the destructor calls stop() a second time before the
\* process ends.
StopExit ==
    /\ Running("s_exit")
    /\ \/ /\ Top.op = "stop"
          /\ up' = FALSE /\ refreshTimer' = FALSE /\ stack' = <<StopFrame("destroy")>>
          /\ UNCHANGED <<quitting, autoPending, inFlight, state, backendOwned, routingOwned,
                         active, session, dead>>
       \/ Top.op = "destroy" /\ Forget
    /\ UNCHANGED <<ifaces, routing>>

\* The process dies; backend processes it started may die with it.
Crash ==
    /\ up \/ stack # <<>>
    /\ Forget
    /\ ifaces' \in SUBSET ifaces
    /\ UNCHANGED routing

\* start(): nothing that an earlier process may have left is taken over, but
\* for an all-except receipt whose interface is gone; a degraded receipt is
\* orphaned, or does not load when it has no profile.
ReconnectableOffline == routes \in AllExcept /\ routes \notin ifaces /\ ~recovery

MayStart ==
    /\ ~recovery /\ ~degraded /\ ifaces = {}
    /\ routes = None \/ ReconnectableOffline

Start ==
    /\ ~up /\ stack = <<>> /\ MayStart
    /\ up' = TRUE /\ autoPending' = TRUE
    /\ needsReapply' = (routes # None)
    /\ UNCHANGED <<quitting, stack, inFlight, belief, backend, routes, recovery, degraded>>

\* A start that is refused leaves everything to the operator.
ManualRecovery ==
    /\ ~up /\ stack = <<>> /\ ~MayStart
    /\ ifaces' = {} /\ routes' = None /\ recovery' = FALSE /\ needsReapply' = FALSE
    /\ degraded' = FALSE
    /\ UNCHANGED <<process, stack, inFlight, belief, session, dead>>

\* The tunnel dies or comes back on its own.
LinkLost ==
    /\ session # None /\ ~dead /\ dead' = TRUE
    /\ UNCHANGED <<process, stack, inFlight, belief, session, ifaces, routing>>

LinkRestored ==
    /\ dead /\ dead' = FALSE
    /\ UNCHANGED <<process, stack, inFlight, belief, session, ifaces, routing>>

--------------------------------------------------------------------------------
(* Specification *)

Init ==
    /\ up = FALSE /\ quitting = FALSE /\ stack = <<>> /\ inFlight = FALSE
    /\ autoPending = FALSE
    /\ state = "disconnected" /\ backendOwned = FALSE /\ routingOwned = FALSE
    /\ active = None /\ refreshTimer = FALSE
    /\ session = None /\ ifaces = {} /\ dead = FALSE
    /\ routes = None /\ recovery = FALSE /\ needsReapply = FALSE /\ degraded = FALSE

\* Requests are served until stop() closes the server.
Request == ConnectRequest \/ DisconnectRequest \/ OtherRequest \/ ObserveRequest

Timer == HealthTimer \/ RefreshTimer \/ PeriodicTimer \/ AutoConnect

EnsureBackendHealthy == Healthy \/ HealthBackend \/ HealthRouting

ConnectManagedProfile ==
    \/ ConnectRefused \/ ConnectLegacy \/ ConnectCandidate
    \/ LegacyBackend \/ LegacyRouting \/ LegacyCleanup
    \/ MigrateBackend \/ MigrateRouting \/ MigrateCheck \/ MigrateRetireRoutes
    \/ MigrateCleanup \/ MigrateAbandon

StopSteps == StopRouting \/ StopBackend \/ StopDereferences \/ StopExit

\* The innermost handler's call returns.
Step ==
    \/ EnsureBackendHealthy \/ ConnectManagedProfile
    \/ DisconnectRouting \/ DisconnectBackend \/ Refresh \/ End
    \/ StopSteps

Environment == Crash \/ ManualRecovery \/ LinkLost \/ LinkRestored \/ Terminate

Next == Start \/ Stop \/ Request \/ Timer \/ Step \/ Environment

Spec == Init /\ [][Next]_vars

\* Every call is bounded by a timeout, also one that other handlers interrupt, a
\* due timer is served between two handlers, and quit() ends the event loop.
Fairness ==
    /\ WF_vars(Step) /\ SF_vars(StopSteps)
    /\ SF_vars(HealthTimer) /\ WF_vars(Stop)

FairSpec == Spec /\ Fairness

--------------------------------------------------------------------------------
(* Properties *)

FramePcs == {"health", "h_routing", "end", "connect", "l_backend", "l_routing", "l_clean",
             "m_backend", "m_routing", "m_check", "m_routes", "m_clean", "m_abandon",
             "d_routing", "d_backend", "refresh", "s_routing", "s_backend", "s_exit"}
Profiles0 == Profiles \cup {None}

\* Type invariant of the daemon, its handlers, the backend and the controller.
TypeOK ==
    /\ up \in BOOLEAN /\ quitting \in BOOLEAN /\ autoPending \in BOOLEAN
    /\ inFlight \in BOOLEAN
    /\ stack \in Seq([op : Ops, pc : FramePcs, profile : Profiles0, scope : BOOLEAN,
                      legacy : BOOLEAN, live : BOOLEAN])
    /\ state \in {"disconnected", "connected", "cleanup_failed", "recovery_required"}
    /\ backendOwned \in BOOLEAN /\ routingOwned \in BOOLEAN /\ refreshTimer \in BOOLEAN
    /\ active \in Profiles0 /\ session \in Profiles0 /\ routes \in Profiles0
    /\ ifaces \subseteq Profiles /\ dead \in BOOLEAN
    /\ recovery \in BOOLEAN /\ needsReapply \in BOOLEAN /\ degraded \in BOOLEAN

Idle == up /\ stack = <<>>

\* Between two handlers a session or a set of routes that exists is owned, so
\* that a later Disconnect, health cleanup or stop() takes it down: no error
\* path of connect, migration, refresh or cleanup loses it.
NothingLeaks ==
    Idle => /\ session # None => backendOwned
            /\ routes # None => routingOwned \/ recovery \/ needsReapply

\* A daemon that reports "connected" has the session and the ownership of the
\* profile it reports, and its routes, unless it also reports degraded routing,
\* which only a full tunnel may have.
ConnectedIsReal ==
    Idle /\ state = "connected" =>
        /\ active # None /\ session = active /\ backendOwned /\ routingOwned
        /\ IF degraded THEN active \in AllExcept ELSE routes = active /\ ~needsReapply

\* A daemon that reports "disconnected" owns nothing and has no session.
DisconnectedIsClean ==
    Idle /\ state = "disconnected" =>
        session = None /\ active = None /\ ~backendOwned /\ ~routingOwned /\ ~refreshTimer

\* What the daemon reports between two handlers is what it owns (status(), with
\* routingDegraded of the routing controller).
StatusIsHonest == ConnectedIsReal /\ DisconnectedIsClean

\* A session that has died does not stay reported as connected.
DeadSessionNoticed ==
    (state = "connected" /\ dead) ~> (state # "connected" \/ ~dead \/ quitting)

\* A daemon asked to terminate does, whatever else it is asked for meanwhile.
Terminates == quitting ~> ~quitting

\* The health timer and the shutdown both get their turn (Daemon::stop(),
\* checkConnectionHealth()).
Progresses == DeadSessionNoticed /\ Terminates

================================================================================
