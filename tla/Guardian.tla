------------------------------ MODULE Guardian ------------------------------
(***************************************************************************)
(* What the desktop client tells its user about a connection: the health   *)
(* state the Guardian derives from probes (connectionHealthController and  *)
(* its integration in coreController), the recovery it suggests and runs   *)
(* on request, and the route inspector's answer to "which way does this    *)
(* host go" (routeInspectorController, routeRuleMatcher).                  *)
(*                                                                         *)
(* All of it lives on the GUI thread.  The VPN worker is another thread:   *)
(* it queues an epoch signal and a state signal at every change, and       *)
(* answers snapshot requests; timers, DNS answers and HTTP replies arrive  *)
(* in between.                                                             *)
(***************************************************************************)
EXTENDS Naturals, Sequences, FiniteSets, TLC

CONSTANTS Sites,        \* IPv4 addresses rules may name
          MaxEpochs,    \* bound: connections the worker opens
          MaxPolicies,  \* bound: policies the repository accepts
          MaxTries,     \* m_recovery.maxAttempts
          MaxProbes,    \* bound: probe requests
          MaxQuestions  \* bound: inspections

ASSUME GuardianAssumption ==
    /\ Sites # {} /\ {MaxEpochs, MaxPolicies, MaxProbes, MaxQuestions} \subseteq Nat
    /\ MaxTries \in Nat \ {0}

VARIABLES
    tunnel,   \* the VPN worker
    signals,  \* what it queued for the GUI thread
    rules,    \* the repository: accepted policy, its routes and the routing mode
    guard,    \* ConnectionHealthController and CoreController's m_guardian*; spared is
              \* history: the reconnection heard last was that of a recovery in flight
    asks,     \* probe requests between their timer and their snapshot
    question, \* the inspector's request
    shown     \* its last published result

guardianVars == <<tunnel, signals, rules, guard, asks, question, shown>>

Endpoint == "endpoint"          \* the server's address, kept outside the tunnel
Six == "six"                    \* an IPv6 address
Protected == "protected"        \* a resolver or gateway, kept in the tunnel
Addresses == Sites \cup {Endpoint, Protected, Six}
RouteModes == {"all", "only", "except"}
Ladder == <<"refresh", "dns", "routes", "reconnect", "protocol", "server">>
NoEvidence == 0

NoProbe == [on |-> FALSE, dns |-> "wait", egress |-> "wait", origin |-> FALSE, https |-> FALSE,
            quality |-> "good", of |-> NoEvidence]
NoMend == [action |-> 0, attempt |-> 0, epoch |-> 0, asked |-> FALSE]
NoSuggestion == [action |-> 0, attempt |-> 0, epoch |-> 0, conn |-> 0]
NoFlight == [on |-> FALSE, conn |-> 0, epoch |-> 0]
NoSnapshot == [ready |-> FALSE]
NoQuestion == [gen |-> 0, at |-> "idle"]
NotShown == [gen |-> 0, applied |-> FALSE, route |-> "unknown", addresses |-> {}, of |-> NoSnapshot]

GuardianInit ==
    /\ tunnel = [st |-> "disconnected", epoch |-> 0, mode |-> "all", base |-> "lost", policy |-> 0,
                 routes |-> {}, local |-> {}, routed |-> TRUE, reconnects |-> 0, revision |-> 0]
    /\ signals = <<>> /\ asks = {} /\ question = NoQuestion /\ shown = NotShown
    /\ rules = [policy |-> 0, routes |-> {}, mode |-> "all", expired |-> FALSE]
    /\ guard = [health |-> "unknown", of |-> NoEvidence, fails |-> 0, oks |-> 0, fresh |-> FALSE,
                rung |-> 1, mend |-> NoMend, next |-> 1, tries |-> 0, cooling |-> FALSE, probe |-> NoProbe,
                st |-> "disconnected", epoch |-> 0, request |-> 0, periodic |-> FALSE,
                suggested |-> NoSuggestion, flight |-> NoFlight, spared |-> FALSE]

-----------------------------------------------------------------------------
(* The worker, as far as these controllers see it. *)

\* setConnectionState: the context first, then the state.
setConnectionState(t) ==
    /\ tunnel' = t
    /\ signals' = signals \o <<[kind |-> "epoch", epoch |-> t.epoch], [kind |-> "state", st |-> t.st]>>
ElseTunnel == UNCHANGED <<rules, guard, asks, question, shown>>
\* The repository stops to name an expired policy.
PolicyEffective == ~rules.expired
InForce == IF PolicyEffective THEN rules.policy ELSE 0
Routed(mode) == IF mode = "all" \/ ~PolicyEffective THEN {} ELSE rules.routes

\* invalidateAllSplitRouteResolutions: the receipt of the routes ends.
Forgets(t) == [t EXCEPT !.base = "lost", !.routes = {}, !.local = {}, !.revision = @ + 1]
\* A start reads the routing it is to install.
Starts(t, st) ==
    [Forgets(t) EXCEPT !.st = st, !.epoch = @ + 1, !.mode = rules.mode, !.policy = InForce,
                       !.routes = Routed(rules.mode)]

\* While a teardown is awaited, or its proof is missing, it only repeats that.
connectToVpn ==
    /\ \/ /\ tunnel.st \in {"disconnected", "disconnecting", "error"} /\ tunnel.epoch < MaxEpochs
          /\ setConnectionState(Starts(tunnel, "connecting"))
       \/ tunnel.st \in {"disconnecting", "error"} /\ setConnectionState(tunnel)
    /\ ElseTunnel
\* The route base is confirmed, or not, before Connected is announced; it stays
\* as it was when a tunnel that restarted itself waits for the answers.
Established ==
    /\ tunnel.st \in {"connecting", "reconnecting"}
    /\ \E base \in {"confirmed", "lost", tunnel.base}, routed \in BOOLEAN, local \in {{}, Sites} :
          setConnectionState([tunnel EXCEPT !.st = "connected", !.base = base, !.routed = routed, !.revision = @ + 1,
                                            !.local = IF tunnel.mode = "all" THEN {} ELSE local])
    /\ ElseTunnel
\* The protocol fails, or its process ends; Disconnected is not announced while
\* the worker reconnects.
Failed ==
    /\ tunnel.st \in {"connecting", "reconnecting", "connected"}
    /\ \E st \in {"error", "disconnected"} :
          /\ st = "disconnected" => tunnel.st # "reconnecting"
          /\ setConnectionState([tunnel EXCEPT !.st = st])
    /\ ElseTunnel
\* An OpenVPN process restarts itself under the same epoch.
Restarts ==
    /\ tunnel.st = "connected" /\ setConnectionState([tunnel EXCEPT !.st = "reconnecting"])
    /\ ElseTunnel
\* A protocol is told to stop; without one there is nothing to stop, or nobody
\* to prove that the tunnel went.
disconnectFromVpn ==
    /\ tunnel.st \in {"connecting", "connected", "reconnecting"} \/ tunnel.epoch < MaxEpochs
    /\ \E st \in {"disconnecting", "disconnected", "error"} :
          /\ tunnel.st \in {"connecting", "connected"} => st = "disconnecting"
          /\ tunnel.st \in {"disconnecting", "disconnected"} => st # "disconnecting"
          /\ setConnectionState([Forgets(tunnel) EXCEPT !.st = st, !.epoch = @ + 1])
    /\ ElseTunnel
\* The retired protocol's last report, or its deadline.
DisconnectCompleted ==
    /\ tunnel.st = "disconnecting"
    /\ \E st \in {"disconnected", "error"} : setConnectionState([tunnel EXCEPT !.st = st])
    /\ ElseTunnel
\* Ignored unless connected; the network monitor calls it as well.
reconnectToVpn(queued) ==
    /\ queued => tunnel.reconnects > 0
    /\ ~queued => tunnel.st = "connected"
    /\ LET t == [tunnel EXCEPT !.reconnects = IF queued THEN @ - 1 ELSE @]
       IN IF tunnel.st = "connected"
          THEN tunnel.epoch < MaxEpochs /\ setConnectionState(Starts(t, "reconnecting"))
          ELSE tunnel' = t /\ UNCHANGED signals
    /\ ElseTunnel
\* An incremental update of the managed routes while connected.
Reconciles ==
    /\ tunnel.st = "connected"
    /\ \/ tunnel.base = "confirmed" /\ tunnel.policy # InForce
          /\ tunnel' = [tunnel EXCEPT !.base = "pending"]
       \/ tunnel.base = "pending"
          /\ tunnel' = [tunnel EXCEPT !.base = "confirmed", !.policy = InForce, !.revision = @ + 1,
                                      !.routes = Routed(tunnel.mode)]
    /\ UNCHANGED signals /\ ElseTunnel
AcceptTunnelPolicy ==
    /\ rules.policy < MaxPolicies
    /\ \E r \in SUBSET Sites, m \in RouteModes :
          rules' = [policy |-> rules.policy + 1, routes |-> r, mode |-> m, expired |-> FALSE]
    /\ UNCHANGED <<tunnel, signals, guard, asks, question, shown>>
PolicyExpires ==
    /\ rules.policy > 0 /\ ~rules.expired /\ rules' = [rules EXCEPT !.expired = TRUE]
    /\ UNCHANGED <<tunnel, signals, guard, asks, question, shown>>

\* managedRouteRuntimeSnapshot, read in the worker's thread.
managedRouteRuntimeSnapshot ==
    [ready |-> TRUE, connected |-> tunnel.st = "connected", epoch |-> tunnel.epoch, mode |-> tunnel.mode,
     confirmed |-> tunnel.st = "connected" /\ tunnel.base = "confirmed",
     pending |-> tunnel.base = "pending" \/ tunnel.st \in {"connecting", "reconnecting"},
     routes |-> tunnel.routes, policy |-> tunnel.policy, routed |-> tunnel.routed, revision |-> tunnel.revision]

-----------------------------------------------------------------------------
(* The recovery policy. *)

Superseded(g) == [g EXCEPT !.mend = NoMend]

\* A suggestion is kept with the connection it was made for.
recoverySuggested(g) ==
    [g EXCEPT !.suggested = [action |-> g.mend.action, attempt |-> g.mend.attempt,
                             epoch |-> g.mend.epoch, conn |-> g.epoch]]

evaluateRecovery(g) ==
    IF \/ g.health \in {"healthy", "unknown"} \/ g.mend.action # 0
       \/ g.cooling \/ g.tries >= MaxTries
    THEN g
    ELSE recoverySuggested([g EXCEPT
             !.mend = [action |-> g.rung, attempt |-> g.tries + 1, epoch |-> g.next, asked |-> FALSE],
             !.cooling = TRUE, !.tries = @ + 1, !.next = @ + 1])

\* A result for another recovery than the pending one is ignored.
acknowledgeRecoveryResult(g, success, epoch) ==
    IF g.mend.action = 0 \/ epoch # g.mend.epoch THEN g
    ELSE [g EXCEPT !.rung = IF success THEN 1 ELSE IF @ < Len(Ladder) THEN @ + 1 ELSE @, !.mend = NoMend]

resetRecoveryPolicy(g) ==
    [g EXCEPT !.rung = 1, !.mend = NoMend, !.cooling = FALSE, !.tries = 0]

-----------------------------------------------------------------------------
(* Health observations. *)

\* A state-only observation drops the evidence of earlier probes.
recordHealthState(g, st) ==
    [Superseded(g) EXCEPT !.health = st, !.of = NoEvidence, !.fails = 0, !.oks = 0, !.fresh = FALSE,
                          !.rung = IF st = "healthy" THEN 1 ELSE @]

ObservedState(handshake, dns, egress, origin, path, quality) ==
    IF ~handshake \/ ~egress THEN "unhealthy"
    ELSE IF ~origin \/ ~path \/ ~dns THEN "degraded"
    ELSE CASE quality = "critical" -> "unhealthy"
           [] quality = "slow" -> "degraded"
           [] OTHER -> "healthy"

\* Two observations in a row confirm a failure, and two the end of one.
Hysteresis(g, seen) ==
    IF seen = "unhealthy"
    THEN [fails |-> 1 + (IF g.fails > 0 THEN 1 ELSE 0), oks |-> 0,
          st |-> IF g.health # "unhealthy" /\ g.fails = 0 THEN "degraded" ELSE "unhealthy"]
    ELSE IF g.health = "unhealthy"
    THEN [fails |-> 0, oks |-> 1 + (IF g.oks > 0 THEN 1 ELSE 0),
          st |-> IF g.oks = 0 THEN "unhealthy" ELSE seen]
    ELSE [fails |-> 0, oks |-> 0, st |-> seen]

recordProbeResult(g, seen, of) ==
    LET h == Hysteresis(g, seen)
        kept == IF h.st # g.health \/ h.st = "healthy" THEN Superseded(g) ELSE g
    IN [kept EXCEPT !.health = h.st, !.fails = h.fails, !.oks = h.oks, !.fresh = TRUE, !.of = of,
                    !.rung = IF h.st = "healthy" THEN 1 ELSE @]
AndEvaluated(g) == IF g.health = "unhealthy" THEN evaluateRecovery(g) ELSE g

clearActiveProbe(g) == [g EXCEPT !.probe = NoProbe]
cancelConnectivityProbe(g) == [clearActiveProbe(g) EXCEPT !.fresh = FALSE]

\* What finishProbe reports: an unfinished lookup or request has failed.
finishProbe(g) ==
    LET p == g.probe
        egress == p.egress = "ok"
    IN AndEvaluated(recordProbeResult(clearActiveProbe(g),
           ObservedState(TRUE, p.dns = "ok", egress, egress /\ p.origin, egress, p.quality), p.of))
completeProbeIfReady(g) ==
    IF g.probe.on /\ g.probe.dns # "wait" /\ g.probe.egress # "wait" THEN finishProbe(g) ELSE g

\* literal: the endpoint is an address, so no lookup; direct: the transport
\* still has no proxy just before the request goes out.
startConnectivityProbe(g, literal, https, direct, epoch) ==
    LET p == [NoProbe EXCEPT !.on = TRUE, !.https = https, !.of = epoch,
                             !.dns = IF literal THEN "ok" ELSE "wait"]
    IN IF direct THEN [cancelConnectivityProbe(g) EXCEPT !.probe = p]
       ELSE recordHealthState(cancelConnectivityProbe(g), "unknown")

-----------------------------------------------------------------------------
(* CoreController: the state handler. *)

\* A fresh request supersedes the ones before it.
scheduleGuardianConnectivityProbe(g) ==
    [g EXCEPT !.request = @ + 1, !.periodic = @ \/ g.st = "connected"]
Scheduled(g) == asks' = asks \cup {[request |-> g.request, at |-> "timer", snap |-> NoSnapshot]}

cancelGuardianProbeUnstarted(g) == [g EXCEPT !.request = @ + 1, !.periodic = FALSE]
cancelGuardianConnectivityProbe(g) ==
    cancelConnectivityProbe([g EXCEPT !.request = @ + 1, !.periodic = FALSE])

finishGuardianRecovery(g, success) ==
    acknowledgeRecoveryResult([g EXCEPT !.flight = NoFlight], success, g.flight.epoch)

\* A recovery in flight ends with the state that answers it.
InFlightAnswered(g) ==
    CASE g.flight.on /\ g.st = "connected" /\ g.epoch # g.flight.conn -> finishGuardianRecovery(g, TRUE)
      [] g.flight.on /\ g.st \in {"error", "disconnected"} -> finishGuardianRecovery(g, FALSE)
      [] OTHER -> g

StateHandler(g) ==
    CASE g.st = "connected" -> scheduleGuardianConnectivityProbe(recordHealthState(g, "unknown"))
      [] g.st = "reconnecting" ->
           (LET c == cancelGuardianConnectivityProbe(g)
            IN IF g.flight.on THEN c ELSE recordHealthState(c, "recovering"))
      [] g.st = "error" -> evaluateRecovery(recordHealthState(cancelGuardianConnectivityProbe(g), "unhealthy"))
      [] OTHER -> recordHealthState(cancelGuardianConnectivityProbe(g), "unknown")

HearEpoch ==
    /\ signals # <<>> /\ Head(signals).kind = "epoch"
    /\ guard' = [guard EXCEPT !.epoch = Head(signals).epoch] /\ signals' = Tail(signals)
    /\ UNCHANGED <<tunnel, rules, asks, question, shown>>
HearState ==
    /\ signals # <<>> /\ Head(signals).kind = "state"
    /\ LET f == InFlightAnswered([guard EXCEPT !.st = Head(signals).st])
           g == StateHandler([f EXCEPT !.spared = f.st = "reconnecting" /\ f.flight.on])
       IN /\ g.request <= MaxProbes
          /\ guard' = g
          /\ IF g.st = "connected" THEN Scheduled(g) ELSE UNCHANGED asks
    /\ signals' = Tail(signals) /\ UNCHANGED <<tunnel, rules, question, shown>>

ElseGuard == UNCHANGED <<tunnel, signals, rules, question, shown>>

\* The platform's reachability hint changed, or the periodic timer fired.
HintChanged ==
    /\ guard.st = "connected" /\ guard.request < MaxProbes
    /\ LET g == scheduleGuardianConnectivityProbe(recordHealthState(guard, "unknown"))
       IN guard' = g /\ Scheduled(g)
    /\ ElseGuard
PeriodicProbe ==
    /\ guard.periodic /\ guard.st = "connected" /\ ~guard.probe.on /\ guard.request < MaxProbes
    /\ LET g == scheduleGuardianConnectivityProbe(guard) IN guard' = g /\ Scheduled(g)
    /\ ElseGuard

-----------------------------------------------------------------------------
(* A probe: request, snapshot, exchange. *)

Wanted(a) == a.request = guard.request /\ guard.st = "connected"

\* The delay is over: the worker is asked, unless the request is stale.
RequestSnapshot(a) ==
    /\ a.at = "timer"
    /\ asks' = (asks \ {a}) \cup (IF Wanted(a) THEN {[a EXCEPT !.at = "asked"]} ELSE {})
    /\ UNCHANGED guard /\ ElseGuard
\* The worker answers, or the bounded wait is over first.
AnswerSnapshot(a) ==
    /\ a.at = "asked"
    /\ \E s \in {managedRouteRuntimeSnapshot, NoSnapshot} :
          asks' = (asks \ {a}) \cup {[a EXCEPT !.at = "answered", !.snap = s]}
    /\ UNCHANGED guard /\ ElseGuard

PathVerified(s) == s.connected /\ s.confirmed /\ ~s.pending /\ s.mode = "all" /\ s.routed
SnapshotCurrent(s) == s.ready /\ s.connected /\ s.epoch = guard.epoch

UseSnapshot(a) ==
    /\ a.at = "answered" /\ asks' = asks \ {a}
    /\ IF ~Wanted(a) THEN UNCHANGED guard
       ELSE IF SnapshotCurrent(a.snap) => (~a.snap.routed \/ ~PathVerified(a.snap))
       THEN guard' = recordHealthState(guard, "unknown")
       ELSE \E literal, https, direct \in BOOLEAN :
               guard' = startConnectivityProbe(guard, literal, https, direct, a.snap.epoch)
    /\ ElseGuard

ElseProbe == UNCHANGED asks /\ ElseGuard
DnsAnswer ==
    /\ guard.probe.on /\ guard.probe.dns = "wait"
    /\ \E r \in {"ok", "bad"} : guard' = completeProbeIfReady([guard EXCEPT !.probe.dns = r])
    /\ ElseProbe
\* Only an encrypted answer of an HTTPS origin authenticates it; a reply that
\* ran into its own timeout ends the probe at once.
ReplyFinished ==
    /\ guard.probe.on /\ guard.probe.egress = "wait"
    /\ \E r \in {"ok", "bad"}, tls, timedOut \in BOOLEAN, latency \in {"good", "slow", "critical"} :
          LET g == [guard EXCEPT !.probe.egress = r, !.probe.origin = r = "ok" /\ guard.probe.https /\ tls,
                                 !.probe.quality = IF r = "ok" THEN latency ELSE @]
          IN guard' = IF timedOut THEN finishProbe(g) ELSE completeProbeIfReady(g)
    /\ ElseProbe
ProbeTimeout ==
    /\ guard.probe.on /\ guard' = finishProbe(guard)
    /\ ElseProbe
ProbeStale ==
    /\ guard.fresh /\ ~guard.probe.on
    /\ guard' = recordHealthState(guard, "unknown")
    /\ ElseProbe

-----------------------------------------------------------------------------
(* Recovery on the user's request. *)

RestartActions == {i \in 1..Len(Ladder) : Ladder[i] \in {"refresh", "dns", "routes", "reconnect"}}

SuggestionCurrent(g) ==
    /\ ~g.flight.on /\ g.st = "connected" /\ g.epoch = g.suggested.conn
    /\ g.suggested.epoch = g.mend.epoch /\ g.suggested.action = g.mend.action
    /\ g.suggested.attempt = g.mend.attempt

\* requestPendingRecovery emits synchronously into handleGuardianRecoveryRequest.
handleGuardianRecoveryRequest(g) ==
    IF ~SuggestionCurrent(g) \/ g.mend.action \notin RestartActions
    THEN guard' = acknowledgeRecoveryResult(g, FALSE, g.mend.epoch) /\ UNCHANGED tunnel
    ELSE /\ guard' = [g EXCEPT !.flight = [on |-> TRUE, conn |-> g.epoch, epoch |-> g.mend.epoch]]
         /\ tunnel' = [tunnel EXCEPT !.reconnects = @ + 1]

requestPendingRecovery ==
    /\ guard.mend.action # 0 /\ ~guard.mend.asked
    /\ handleGuardianRecoveryRequest([guard EXCEPT !.mend.asked = TRUE])
    /\ UNCHANGED <<signals, rules, asks, question, shown>>
RecoveryDeadline ==
    /\ guard.flight.on /\ guard' = finishGuardianRecovery(guard, FALSE) /\ ElseProbe
\* The cooldown ends, and attempts leave the budget window.
CooledDown ==
    /\ guard.cooling /\ guard' = [guard EXCEPT !.cooling = FALSE] /\ ElseProbe
pruneRecoveryAttempts ==
    /\ guard.tries > 0 /\ guard' = [guard EXCEPT !.tries = @ - 1] /\ ElseProbe
UserResetsPolicy ==
    /\ guard.mend.action # 0 /\ guard' = resetRecoveryPolicy(guard) /\ ElseProbe

GuardStep ==
    \/ HearEpoch \/ HearState \/ HintChanged \/ PeriodicProbe
    \/ \E a \in asks : RequestSnapshot(a) \/ AnswerSnapshot(a) \/ UseSnapshot(a)
    \/ DnsAnswer \/ ReplyFinished \/ ProbeTimeout \/ ProbeStale
    \/ requestPendingRecovery \/ RecoveryDeadline \/ CooledDown \/ pruneRecoveryAttempts \/ UserResetsPolicy

TunnelStep ==
    \/ connectToVpn \/ Established \/ Failed \/ Restarts \/ disconnectFromVpn \/ DisconnectCompleted
    \/ Reconciles \/ AcceptTunnelPolicy \/ PolicyExpires
    \/ \E queued \in BOOLEAN : reconnectToVpn(queued)

-----------------------------------------------------------------------------
(* The route inspector. *)

ElseInspect == UNCHANGED <<tunnel, signals, rules, guard, asks>>

\* A new inspection abandons the one before; a literal needs no lookup.
inspectHost ==
    /\ question.gen < MaxQuestions
    /\ \/ question' = [gen |-> question.gen + 1, at |-> "lookup"]
       \/ \E a \in Addresses : question' = [gen |-> question.gen + 1, at |-> "asked", addresses |-> {a}, cut |-> FALSE]
    /\ UNCHANGED shown /\ ElseInspect

publishResult(gen, r) == shown' = [r EXCEPT !.gen = gen]
Unanswered == [NotShown EXCEPT !.route = "unknown"]

\* Only a handful of addresses is examined; a longer answer is truncated.
LookupFinished ==
    /\ question.at = "lookup"
    /\ \E as \in SUBSET Addresses, cut \in BOOLEAN :
          question' = [gen |-> question.gen, at |-> "asked", addresses |-> as, cut |-> cut]
    /\ UNCHANGED shown /\ ElseInspect
LookupTimeout ==
    /\ question.at = "lookup"
    /\ question' = [question EXCEPT !.at = "idle"] /\ publishResult(question.gen, Unanswered) /\ ElseInspect
requestResultWithSnapshot ==
    /\ question.at = "asked"
    /\ \E s \in {managedRouteRuntimeSnapshot, NoSnapshot} :
          question' = [gen |-> question.gen, at |-> "answered", addresses |-> question.addresses,
                       cut |-> question.cut, snap |-> s]
    /\ UNCHANGED shown /\ ElseInspect

\* A confirmed receipt of the running connection.
ReceiptConfirmed(s) == s.ready /\ s.connected /\ s.confirmed /\ ~s.pending
ModeDiverged(s) == s.mode # rules.mode
SnapshotStale(s) == s.policy # InForce \/ (rules.policy > 0 /\ ~PolicyEffective)
SnapshotAuthoritative(s) == ReceiptConfirmed(s) /\ ~ModeDiverged(s) /\ ~SnapshotStale(s)

\* The rules that may match: a connection's receipt, or the repository's.
MatchingRules(s) ==
    IF s.connected THEN IF ReceiptConfirmed(s) THEN s.routes ELSE {}
    ELSE IF PolicyEffective THEN rules.routes ELSE {}
inspectRules(s, a) == a \in MatchingRules(s)

ReceiptAnswersLocal(s, a) == s.connected /\ s.mode # "all" /\ ~inspectRules(s, a)

DecisionRouteMode(s) == IF ReceiptConfirmed(s) THEN s.mode ELSE rules.mode

AddressDecision(s, a) ==
    LET mode == DecisionRouteMode(s)
        match == mode # "all" /\ inspectRules(s, a)
        byRule == CASE mode = "only" -> (IF match THEN "vpn" ELSE "direct")
                    [] mode = "except" -> (IF match THEN "direct" ELSE "vpn")
                    [] OTHER -> "vpn"
    IN IF \/ s.connected /\ ~SnapshotAuthoritative(s)
          \/ mode # "all" /\ a = Six
          \/ ReceiptAnswersLocal(s, a)
       THEN "unknown"
       ELSE IF s.connected /\ a = Endpoint THEN "direct"
       ELSE IF a = Protected THEN "vpn" ELSE byRule

AggregateRoute(s, as) ==
    LET routes == {AddressDecision(s, a) : a \in as}
    IN IF as = {} \/ "unknown" \in routes THEN "unknown"
       ELSE IF Cardinality(routes) > 1 THEN "mixed" ELSE CHOOSE r \in routes : TRUE

\* The lookup was examined whole, and so were the rules where they decide.
Examined(s, as, cut, covered) == ~cut /\ (covered \/ DecisionRouteMode(s) = "all" \/ as \subseteq {Six})

resultFor(s, as, examined) ==
    IF ~s.ready THEN Unanswered
    ELSE [NotShown EXCEPT !.applied = SnapshotAuthoritative(s),
                          !.route = IF examined THEN AggregateRoute(s, as) ELSE "unknown",
                          !.addresses = as, !.of = s]
\* covered: the matcher had not to give up on a long list of rules.
SnapshotCompleted ==
    /\ question.at = "answered"
    /\ \E covered \in BOOLEAN :
          LET s == question.snap
              as == question.addresses
          IN publishResult(question.gen, resultFor(s, as, s.ready /\ Examined(s, as, question.cut, covered)))
    /\ question' = [gen |-> question.gen, at |-> "idle"] /\ ElseInspect

InspectStep ==
    inspectHost \/ LookupFinished \/ LookupTimeout \/ requestResultWithSnapshot \/ SnapshotCompleted

GuardianSpec == GuardianInit /\ [][TunnelStep \/ GuardStep \/ InspectStep]_guardianVars

-----------------------------------------------------------------------------
(* Properties. *)

\* Once the worker's signals are heard, a connection shown as healthy is the
\* one that is up, and the probe that says so went through it.  (A reconnection
\* that finds a recovery in flight keeps the verdict: a probe that ended well
\* after the request has it shown as healthy while it reconnects.)
HealthyIsProved ==
    guard.health = "healthy" /\ signals = <<>> =>
        \/ tunnel.st = "connected" /\ guard.of = tunnel.epoch
        \/ tunnel.st = "reconnecting" /\ guard.spared

\* Where traffic to an address really goes while the tunnel is up.
Travels(a) ==
    IF a = Endpoint THEN "direct"
    ELSE IF a = Protected THEN "vpn"
    ELSE CASE tunnel.mode = "only" -> IF a \in tunnel.routes \cup tunnel.local THEN "vpn" ELSE "direct"
           [] tunnel.mode = "except" -> IF a \in tunnel.routes \cup tunnel.local THEN "direct" ELSE "vpn"
           [] OTHER -> "vpn"

\* A definite answer about the running connection is what its routes do, as
\* long as they are the ones the answer was given for.
ExplainedAsRouted ==
    shown.applied /\ shown.route \in {"vpn", "direct"} /\ shown.of = managedRouteRuntimeSnapshot
        => \A a \in shown.addresses : Travels(a) = shown.route

\* What the guardian and the inspector show of the connection is so.
VerdictsAreTrue == HealthyIsProved /\ ExplainedAsRouted
=============================================================================
