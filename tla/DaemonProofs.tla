------------------------------ MODULE DaemonProofs ------------------------------
(***************************************************************************)
(* What the headless daemon of Daemon.tla reports and owns between two     *)
(* handlers, for any set of profiles and any depth of nested event loops.  *)
(*                                                                         *)
(* The mutation scope lets at most one handler at a time touch the         *)
(* session, next to stop() only (Shape).  What is true between two         *)
(* handlers (Settled) is suspended while one works and must be made good   *)
(* again before it returns; Story says how far it is at each of its steps. *)
(*                                                                         *)
(* The second part is the SSH transport of SshClient.tla, in which a call  *)
(* is answered with success only when what it promises was done.           *)
(***************************************************************************)
EXTENDS Daemon, SshClient, TLAPS

Frames == [op : Ops, pc : FramePcs, profile : Profiles0, scope : BOOLEAN, legacy : BOOLEAN,
           live : BOOLEAN]

StopPcs == {"s_routing", "s_backend", "s_exit"}

\* connectManagedProfile(), once it may start; with its own session; and with
\* routes it may own.
StartPcs == {"l_backend", "m_backend", "m_abandon"}
UpPcs == {"l_routing", "l_clean", "m_routing", "m_clean"}
RoutePcs == {"m_check", "m_routes"}
ConnectPcs == {"connect"} \cup StartPcs \cup UpPcs \cup RoutePcs

\* A handler that holds the scope, and stop().
Handler(f) ==
    /\ f.scope /\ f.pc \notin StopPcs /\ f.op \notin {"stop", "destroy"}
    /\ f.op \in {"connect", "auto"} => f.profile \in Profiles
    /\ f.pc \in ConnectPcs => f.op \in {"connect", "auto"}

Stopper(f) == ~f.scope /\ f.pc \in StopPcs /\ f.op \in {"stop", "destroy"}

\* One handler at most, or stop() with one handler inside its waits.
Shape ==
    /\ Len(stack) \in 0 .. 2
    /\ Len(stack) = 0 => ~inFlight
    /\ Len(stack) = 1 => (Handler(stack[1]) /\ inFlight) \/ (Stopper(stack[1]) /\ ~inFlight)
    /\ Len(stack) = 2 => Handler(stack[1]) /\ Stopper(stack[2]) /\ inFlight

\* Routes that exist are owned, wait for a reconnection, or need recovery.
RoutesHeld == routes # None => routingOwned \/ recovery \/ needsReapply

SessionHeld == session # None => backendOwned

\* What holds between two handlers.
Settled ==
    /\ RoutesHeld /\ SessionHeld
    /\ state = "connected" =>
           /\ active # None /\ session = active /\ backendOwned /\ routingOwned
           /\ IF degraded THEN active \in AllExcept ELSE routes = active /\ ~needsReapply
    /\ state = "disconnected" =>
           session = None /\ active = None /\ ~backendOwned /\ ~routingOwned /\ ~refreshTimer

\* A process that has just been started, or none.
Fresh ==
    /\ ~quitting /\ ~autoPending /\ state = "disconnected" /\ ~backendOwned /\ ~routingOwned
    /\ active = None /\ ~refreshTimer /\ session = None

\* A connection attempt begins from the disconnected state and publishes
\* nothing before it succeeds.
Attempt == state = "disconnected" /\ active = None /\ ~refreshTimer

\* What the handler f, alone, has found or left when it is about to take its step.
Story(f) ==
    /\ up /\ RoutesHeld
    /\ f.pc \in {"health", "end", "connect", "d_routing", "refresh"} => Settled
    /\ f.pc = "connect" /\ f.op = "auto" => state = "disconnected"
    /\ f.pc = "h_routing" =>
           session = None /\ ~backendOwned /\ ~refreshTimer /\ state = "connected" /\ routingOwned
    /\ f.pc = "d_backend" => ~routingOwned /\ ~refreshTimer /\ SessionHeld
    /\ f.pc \in StartPcs => Attempt /\ session = None /\ ~backendOwned /\ ~routingOwned
    /\ f.pc \in UpPcs => Attempt /\ session = f.profile /\ backendOwned /\ ~routingOwned
    /\ f.pc \in RoutePcs => Attempt /\ session = f.profile /\ backendOwned
    /\ f.pc = "m_routes" => routingOwned

Alone == Len(stack) = 1 /\ stack[1].scope

\* The inductive invariant.
IInv ==
    /\ TypeOK /\ Shape
    /\ ~up /\ stack = <<>> => Fresh
    /\ up /\ stack = <<>> => Settled
    /\ Alone => Story(stack[1])

--------------------------------------------------------------------------------
(* The stack *)

\* Everything of TypeOK but the stack.
Typed ==
    /\ up \in BOOLEAN /\ quitting \in BOOLEAN /\ autoPending \in BOOLEAN
    /\ inFlight \in BOOLEAN
    /\ state \in {"disconnected", "connected", "cleanup_failed", "recovery_required"}
    /\ backendOwned \in BOOLEAN /\ routingOwned \in BOOLEAN /\ refreshTimer \in BOOLEAN
    /\ active \in Profiles0 /\ session \in Profiles0 /\ routes \in Profiles0
    /\ ifaces \subseteq Profiles /\ dead \in BOOLEAN
    /\ recovery \in BOOLEAN /\ needsReapply \in BOOLEAN /\ degraded \in BOOLEAN

\* The type invariant is about the stack and the rest.
LEMMA TypeParts == TypeOK <=> Typed /\ stack \in Seq(Frames)
BY DEF TypeOK, Typed, Frames

\* Only the empty sequence has length zero.
LEMMA EmptySeq ==
    ASSUME NEW S, NEW s \in Seq(S)
    PROVE  s = <<>> <=> Len(s) = 0
OBVIOUS

\* The innermost frame is gone, the others move up.
LEMMA PopTop ==
    ASSUME stack \in Seq(Frames), stack # <<>>, stack' = Tail(stack)
    PROVE  /\ stack' \in Seq(Frames) /\ Len(stack') = Len(stack) - 1
           /\ Len(stack) \in Nat \ {0}
           /\ Len(stack) = 1 <=> stack' = <<>>
           /\ Len(stack) = 2 => stack'[1] = stack[2]
<1>1. Len(stack) \in Nat \ {0} /\ stack' \in Seq(Frames) /\ Len(stack') = Len(stack) - 1 OBVIOUS
<1>2. stack' = <<>> <=> Len(stack') = 0 BY <1>1, EmptySeq
<1> QED BY <1>2

\* An empty stack has no frames.
LEMMA EmptyStack ==
    ASSUME stack \in Seq(Frames)
    PROVE  /\ Len(stack) \in Nat /\ (stack = <<>> <=> Len(stack) = 0)
           /\ stack # <<>> => Top \in Frames
BY DEF Top

\* A handler that goes on keeps all of its frame but the step.
LEMMA GotoTop ==
    ASSUME stack \in Seq(Frames), stack # <<>>, NEW at \in FramePcs, Goto(at)
    PROVE  /\ stack' \in Seq(Frames) /\ stack' # <<>> /\ Len(stack') = Len(stack)
           /\ inFlight' = inFlight
           /\ stack'[1].pc = at /\ stack'[1].op = Top.op /\ stack'[1].profile = Top.profile
           /\ stack'[1].scope = Top.scope
           /\ Len(stack) = 2 => stack'[2] = stack[2]
<1> DEFINE f == [Top EXCEPT !.pc = at]
<1>1. f \in Frames BY EmptyStack DEF Frames
<1>2. f.pc = at /\ f.op = Top.op /\ f.profile = Top.profile /\ f.scope = Top.scope OBVIOUS
<1>3. stack' = <<f>> \o Tail(stack) /\ inFlight' = inFlight BY DEF Goto
<1> HIDE DEF f
<1> QED BY <1>1, <1>2, <1>3

\* The innermost frame at a step that is not stop()'s is a handler's.
LEMMA TopHandler ==
    ASSUME IInv, stack # <<>>, Top.pc \notin StopPcs
    PROVE  /\ Handler(Top) /\ Top \in Frames /\ inFlight
           /\ Len(stack) = 1 => Story(Top)
           /\ Len(stack) = 2 => Stopper(stack[2])
           /\ Len(stack) \in {1, 2}
<1> QED BY TypeParts DEF IInv, Shape, Stopper, Handler, Top, Alone

\* A step that ends with the same handler, for the same profile, at another step.
LEMMA GoesOn ==
    ASSUME IInv, stack # <<>>, Top.pc \notin StopPcs, NEW at \in FramePcs \ StopPcs, Typed',
           stack' \in Seq(Frames), stack' # <<>>, Len(stack') = Len(stack), inFlight' = inFlight,
           stack'[1].pc = at, stack'[1].op = Top.op, stack'[1].profile = Top.profile,
           stack'[1].scope = Top.scope, Len(stack) = 2 => stack'[2] = stack[2],
           at \in ConnectPcs => Top.op \in {"connect", "auto"},
           Len(stack) = 1 => Story(stack[1])'
    PROVE  IInv'
<1> QED BY TopHandler DEF IInv, Alone, TypeOK, Typed, Frames, Shape, Handler

\* The same for a handler that only goes on.
LEMMA Goes ==
    ASSUME IInv, stack # <<>>, Top.pc \notin StopPcs, NEW at \in FramePcs \ StopPcs, Goto(at), Typed',
           at \in ConnectPcs => Top.op \in {"connect", "auto"},
           Len(stack) = 1 => Story(stack[1])'
    PROVE  IInv'
<1> QED BY TypeParts, GotoTop, GoesOn DEF IInv

\* A step that ends with the handler's return.
LEMMA Returns ==
    ASSUME IInv, stack # <<>>, Top.pc \notin StopPcs, Return, Typed', Len(stack) = 1 => up' /\ Settled'
    PROVE  IInv'
<1>1. /\ Handler(Top) /\ inFlight /\ Len(stack) \in {1, 2}
      /\ Len(stack) = 2 => Stopper(stack[2]) BY TopHandler
<1>2. stack' = Tail(stack) /\ ~inFlight' BY <1>1 DEF Return, Handler
<1>3. /\ stack' \in Seq(Frames) /\ Len(stack') = Len(stack) - 1
      /\ Len(stack) = 1 <=> stack' = <<>>
      /\ Len(stack) = 2 => stack'[1] = stack[2] BY <1>2, PopTop, TypeParts DEF IInv
<1>4. Len(stack) = 2 => Stopper(stack[1])' BY <1>1, <1>3
<1>5. Shape' BY <1>1, <1>2, <1>3, <1>4 DEF Shape
<1> QED BY <1>1, <1>3, <1>5 DEF IInv, TypeOK, Typed, Alone, Stopper

--------------------------------------------------------------------------------
(* Requests, timers and the environment *)

\* A step that leaves handlers, ownership and routes alone.
LEMMA StillStep ==
    ASSUME IInv, UNCHANGED <<up, stack, inFlight, belief, session, routing>>, Typed',
           up \/ stack # <<>> \/ UNCHANGED <<quitting, autoPending>>
    PROVE  IInv'
<1> QED
  BY DEF IInv, TypeOK, Typed, Shape, Alone, Story, Settled, RoutesHeld, SessionHeld, Attempt, belief, routing, Fresh

\* A handler enters: the scope was free, so no other one is in progress.
LEMMA EnterStep ==
    ASSUME IInv, NEW o \in Ops \ {"stop", "destroy"}, NEW at \in {"health", "end", "connect"},
           NEW p \in Profiles0, Enter(o, at, p), o \in {"connect", "auto"} => p \in Profiles,
           at = "connect" => o = "auto" /\ state = "disconnected",
           UNCHANGED <<up, belief, backend, routing>>, Typed', stack = <<>> => up
    PROVE  IInv'
<1> DEFINE f == Frame(o, at, p, TRUE)
<1>1. f \in Frames /\ f.op = o /\ f.pc = at /\ f.profile = p /\ f.scope BY DEF Frame, Frames, FramePcs
<1>2. stack' = <<f>> \o stack /\ inFlight' /\ ~inFlight /\ stack \in Seq(Frames) BY TypeParts DEF Enter, IInv
<1> HIDE DEF f
<1>3. /\ stack' \in Seq(Frames) /\ stack' # <<>> /\ Len(stack') = Len(stack) + 1
      /\ stack'[1] = f /\ (Len(stack) = 1 => stack'[2] = stack[1]) BY <1>1, <1>2
<1>8. Len(stack) = 0 => Story(stack[1])'
  BY <1>1, <1>3 DEF IInv, Settled, RoutesHeld, SessionHeld, belief, backend, routing, Story, StartPcs, UpPcs, RoutePcs
<1> QED
  BY <1>1, <1>2, <1>8 DEF IInv, TypeOK, Typed, Frames, Shape, Handler, ConnectPcs, StartPcs, UpPcs, RoutePcs, StopPcs,
    Alone

\* Requests of the control socket.
LEMMA RequestStep ==
    ASSUME IInv, Request
    PROVE  IInv'
<1>1. PICK o \in {"connect", "disconnect", "other", "health"}, p \in Profiles0 :
          Requested(o, p) /\ (o = "connect" => p \in Profiles)
  BY DEF Request, ConnectRequest, DisconnectRequest, OtherRequest, ObserveRequest, Profiles0
<1>2. /\ up /\ Enter(o, "health", p) /\ UNCHANGED <<up, belief, backend, routing>>
      /\ UNCHANGED <<process, belief, backend, routing>> /\ inFlight' = TRUE BY <1>1 DEF Requested, Enter, process
<1> QED BY <1>1, <1>2, TypeParts, EnterStep DEF IInv, Typed, process, belief, backend, routing, Ops

\* Timers; the single shot of the automatic connection may be lost.
LEMMA TimerStep ==
    ASSUME IInv, Timer
    PROVE  IInv'
<1>1. Typed /\ stack \in Seq(Frames) BY TypeParts DEF IInv
<1>2. CASE HealthTimer \/ RefreshTimer \/ PeriodicTimer
  <2>1. PICK o \in {"health", "refresh", "other"}, at \in {"health", "end"} :
            Enter(o, at, None) /\ UNCHANGED <<process, belief, backend, routing>> /\ (up \/ refreshTimer)
    BY <1>2 DEF HealthTimer, RefreshTimer, PeriodicTimer
  <2>3. Typed' BY <1>1, <2>1 DEF Enter, Typed, process, belief, backend, routing
  <2> QED BY <2>1, <2>3, EnterStep DEF IInv, Fresh, Ops, Profiles0, process
<1>3. CASE AutoConnect
  <2>1. /\ autoPending /\ UNCHANGED <<up, quitting, backend, routing>> /\ autoPending' = FALSE
        /\ stack = <<>> => up BY <1>3 DEF AutoConnect, IInv, Fresh
  <2>2. CASE UNCHANGED <<stack, inFlight, belief>>
    BY <1>1, <2>1, <2>2, StillStep, ZenonT(40) DEF Typed, backend, routing, belief
  <2>3. CASE /\ ~inFlight /\ state = "disconnected" /\ recovery
             /\ state' = "recovery_required" /\ refreshTimer' = FALSE
             /\ UNCHANGED <<stack, inFlight, backendOwned, routingOwned, active>>
    <3>1. TypeOK' /\ Shape'
      BY <1>1, <2>1, <2>3 DEF IInv, TypeOK, Typed, Shape, Handler, Stopper, Frames, backend, routing
    <3> QED BY <2>1, <2>3, <3>1 DEF IInv, Shape, Alone, Stopper, Settled, RoutesHeld, SessionHeld, backend, routing
  <2>4. CASE Enter("auto", "connect", AutoProfile) /\ UNCHANGED belief /\ state = "disconnected"
             /\ AutoProfile # None
    <3>2. Typed' BY <1>1, <2>1, <2>4 DEF Enter, Typed, belief, backend, routing
    <3> QED BY <2>1, <2>4, <3>2, ProfilesAssumption, EnterStep DEF Profiles0, Ops
  <2> QED BY <1>3, <2>2, <2>3, <2>4 DEF AutoConnect
<1> QED BY <1>2, <1>3 DEF Timer

\* A process that ends leaves nothing but the kernel's objects.
LEMMA ForgetStep ==
    ASSUME IInv, Forget, ifaces' \subseteq ifaces, UNCHANGED routing
    PROVE  IInv'
<1>1. stack' = <<>> /\ ~up' /\ Len(stack') = 0 BY DEF Forget
<1>2. TypeOK'
  <2>2. Typed' BY TypeParts DEF IInv, Forget, Typed, Profiles0, routing
  <2> QED BY <1>1, <2>2 DEF TypeOK, Typed
<1> QED BY <1>2 DEF IInv, Forget, Shape, Alone, Fresh

\* start(), and what happens to the daemon.
LEMMA EnvironmentStep ==
    ASSUME IInv, Start \/ Environment
    PROVE  IInv'
<1>1. Typed /\ stack \in Seq(Frames) BY TypeParts DEF IInv
<1>2. CASE Start
  <2>1. Fresh /\ stack' = <<>> /\ up' BY <1>2 DEF Start, IInv
  <2>3. Settled' BY <1>2, <2>1 DEF Start, Fresh, Settled, RoutesHeld, SessionHeld, belief, backend
  <2> QED BY <1>2, <2>3 DEF IInv, Start, TypeOK, Shape, Alone, belief, backend
<1>3. CASE Crash BY <1>3, ForgetStep DEF Crash
<1>4. CASE ManualRecovery
  <2>3. TypeOK' BY <1>1, <1>4 DEF ManualRecovery, TypeOK, Typed, Frames, Profiles0, process, belief
  <2> QED BY <1>4, <2>3 DEF IInv, ManualRecovery, Fresh, Shape, Alone, process, belief
<1>5. CASE LinkLost \/ LinkRestored \/ Terminate
  <2>2. dead' \in BOOLEAN /\ quitting' \in BOOLEAN /\ UNCHANGED <<ifaces, autoPending>>
    <3>1. CASE LinkLost \/ LinkRestored BY <1>1, <3>1 DEF LinkLost, LinkRestored, Typed, process
    <3>2. CASE Terminate BY <1>1, <3>2 DEF Terminate, Typed, backend
    <3> QED BY <1>5, <3>1, <3>2
  <2> QED
    BY <1>1, <1>5, <2>2, StillStep DEF Typed, belief, routing, LinkLost, LinkRestored, Terminate, process, backend
<1> QED BY <1>2, <1>3, <1>4, <1>5 DEF Environment

--------------------------------------------------------------------------------
(* Handlers *)

\* What the calls into the backend leave is typed.
LEMMA BackendTypes ==
    ASSUME Typed, NEW p \in Profiles0
    PROVE  /\ BackendUp(p) /\ p \in Profiles =>
                  session' \in Profiles0 /\ ifaces' \subseteq Profiles /\ dead' \in BOOLEAN
           /\ BackendNotUp(p) /\ p \in Profiles =>
                  session' \in Profiles0 /\ ifaces' \subseteq Profiles /\ dead' \in BOOLEAN
           /\ BackendDown(p) \/ BackendNotDown(p) =>
                  session' \in Profiles0 /\ ifaces' \subseteq Profiles /\ dead' \in BOOLEAN
BY DEF Typed, BackendUp, BackendNotUp, BackendDown, BackendNotDown, Profiles0

\* What the calls into the routing controller leave is typed.
LEMMA RoutingTypes ==
    ASSUME Typed, NEW p \in Profiles0,
           RoutesUp(p) \/ RoutesDegraded(p) \/ RoutesNotUp(p) \/ RoutesDown \/ RoutesNotDown
    PROVE  /\ routes' \in Profiles0 /\ recovery' \in BOOLEAN /\ needsReapply' \in BOOLEAN
           /\ degraded' \in BOOLEAN
BY DEF Typed, RoutesUp, RoutesDegraded, RoutesNotUp, RoutesDown, RoutesNotDown, routing, Profiles0

\* A call whose result is accepted has the profile's routes up, or is degraded.
LEMMA AcceptedRoutes ==
    ASSUME NEW p, RoutesUp(p) \/ RoutesDegraded(p)
    PROVE  /\ recovery' = recovery
           /\ IF degraded' THEN p \in AllExcept ELSE routes' = p /\ ~needsReapply'
BY DEF RoutesUp, RoutesDegraded

\* A call that does not bring routes up or down leaves them held.
LEMMA RoutesStayHeld ==
    ASSUME RoutesHeld, UNCHANGED routing \/ RoutesNotDown \/ \E p : RoutesNotUp(p),
           routingOwned' = routingOwned
    PROVE  RoutesHeld'
BY DEF RoutesHeld, RoutesNotUp, RoutesNotDown, routing

\* ensureBackendHealthy(), and the end of a handler.
LEMMA HealthStep ==
    ASSUME IInv, EnsureBackendHealthy \/ End
    PROVE  IInv'
<1>1. Typed /\ stack \in Seq(Frames) BY TypeParts DEF IInv
<1>2. /\ stack # <<>> /\ Top.pc \in {"health", "h_routing", "end"}
  BY DEF EnsureBackendHealthy, Healthy, HealthBackend, HealthRouting, End, Running
<1>3. /\ Handler(Top) /\ Top \in Frames /\ Top.pc \notin StopPcs
      /\ Len(stack) = 1 => Story(Top) BY <1>2, TopHandler DEF StopPcs
<1>4. /\ AfterHealth \in {"connect", "d_routing", "refresh", "end"}
      /\ AfterHealth \in ConnectPcs => Top.op = "connect" BY DEF AfterHealth, ConnectPcs, StartPcs, UpPcs, RoutePcs
<1>5. AfterHealth \in FramePcs \ StopPcs /\ "h_routing" \in FramePcs \ StopPcs BY <1>4 DEF FramePcs, StopPcs
<1>6. \A at \in FramePcs : Goto(at) => inFlight' = inFlight /\ stack'[1].pc = at /\ stack'[1].op = Top.op
  BY <1>1, <1>2, GotoTop
<1>7. ASSUME Len(stack) = 1 => Settled' /\ up', Goto(AfterHealth), Typed' PROVE IInv'
  BY <1>4, <1>5, <1>6, <1>7, <1>2, <1>3, Goes DEF ConnectPcs, Story, Settled, StartPcs, UpPcs, RoutePcs
<1>8. CASE Healthy
  BY <1>8, <1>1, <1>5, <1>6, <1>3, <1>7 DEF Healthy, Running, Typed, process, belief, backend, routing, Story,
    Settled, RoutesHeld, SessionHeld
<1>9. CASE HealthBackend
  <2>1. /\ UNCHANGED <<process, routingOwned, active, routing>> /\ Top.pc = "health" /\ state = "connected"
        /\ refreshTimer' = FALSE BY <1>9 DEF HealthBackend, Running
  <2>2. CASE /\ IF backendOwned THEN BackendDown(session) ELSE UNCHANGED backend
             /\ backendOwned' = FALSE /\ UNCHANGED state /\ Goto("h_routing")
    <3>1. Typed' BY <1>1, <1>5, <1>6, <2>1, <2>2, BackendTypes DEF Typed, process, backend, routing
    <3> QED
      BY <1>2, <1>3, <1>5, <1>6, <2>1, <2>2, <3>1, Goes DEF ConnectPcs, StartPcs, UpPcs, RoutePcs, Story, Settled,
        RoutesHeld, BackendDown, process
  <2>3. CASE /\ backendOwned /\ BackendNotDown(session)
             /\ state' = "cleanup_failed" /\ UNCHANGED backendOwned /\ Goto(AfterHealth)
    <3>1. Typed' BY <1>1, <1>5, <1>6, <2>1, <2>3, BackendTypes DEF Typed, process, backend, routing
    <3> QED BY <1>3, <1>7, <2>1, <2>3, <3>1 DEF Story, Settled, RoutesHeld, SessionHeld, process
  <2> QED BY <1>9, <2>2, <2>3 DEF HealthBackend
<1>10. CASE HealthRouting
  <2>1. /\ UNCHANGED <<process, backendOwned, refreshTimer, backend>> /\ Top.pc = "h_routing"
        /\ Goto(AfterHealth) BY <1>10 DEF HealthRouting, Running
  <2>2. CASE /\ IF routingOwned THEN RoutesDown ELSE UNCHANGED routing
             /\ routingOwned' = FALSE /\ state' = "disconnected" /\ active' = None
    <3>1. routes' \in Profiles0 /\ recovery' \in BOOLEAN /\ needsReapply' \in BOOLEAN /\ degraded' \in BOOLEAN
      BY <1>1, <2>2, RoutingTypes DEF Typed, routing
    <3>2. Typed' BY <1>1, <1>5, <1>6, <2>1, <2>2, <3>1 DEF Typed, process, backend, Profiles0
    <3> QED BY <1>3, <1>7, <2>1, <2>2, <3>2 DEF Story, Settled, RoutesHeld, SessionHeld, RoutesDown, process, backend
  <2>3. CASE /\ routingOwned /\ RoutesNotDown
             /\ state' = "cleanup_failed" /\ UNCHANGED <<routingOwned, active>>
    BY <1>1, <2>3, RoutingTypes, <1>5, <1>6, <2>1, <1>3, <1>7 DEF Typed, process, backend, Story, Settled, RoutesHeld,
      SessionHeld
  <2> QED BY <1>10, <2>2, <2>3 DEF HealthRouting
<1>11. CASE End
  BY <1>11, <1>1, <1>3, Returns DEF End, Running, Return, Typed, process, belief, backend, routing, Story, Settled,
    RoutesHeld, SessionHeld
<1> QED BY <1>8, <1>9, <1>10, <1>11 DEF EnsureBackendHealthy

\* A handler that returns without having touched anything.
LEMMA IdleReturn ==
    ASSUME IInv, stack # <<>>, Top.pc \in {"connect", "end"}, Return,
           UNCHANGED <<process, belief, backend, routing>>
    PROVE  IInv'
<1>1. Typed /\ Top.pc \notin StopPcs BY TypeParts DEF IInv, StopPcs
<1> QED
  BY <1>1, TopHandler, Returns DEF Return, Typed, process, belief, backend, routing, Story, Settled, RoutesHeld,
    SessionHeld

\* A connection attempt is admitted, refused, or finds a candidate.
LEMMA AdmissionStep ==
    ASSUME IInv, ConnectRefused \/ ConnectLegacy \/ ConnectCandidate
    PROVE  IInv'
<1>1. /\ stack # <<>> /\ Top.pc = "connect" /\ UNCHANGED <<process, belief, backend, routing>>
      /\ Return \/ (ConnectMayStart /\ \E at \in {"l_backend", "m_backend"} : Goto(at))
  BY DEF ConnectRefused, ConnectLegacy, ConnectCandidate, ConnectMayStart, Running
<1>2. CASE Return BY <1>1, <1>2, IdleReturn
<1>3. ASSUME ConnectMayStart, NEW at \in {"l_backend", "m_backend"}, Goto(at) PROVE IInv'
  BY TypeParts, <1>1, TopHandler, <1>3, GotoTop, Goes DEF IInv, StopPcs, FramePcs, Handler, ConnectPcs, Typed,
    process, belief, backend, routing, Story, ConnectMayStart, Settled, RoutesHeld, Attempt, UpPcs, RoutePcs
<1> QED BY <1>1, <1>2, <1>3

\* What a step of a connection attempt starts from.
LEMMA AttemptTop ==
    ASSUME IInv, stack # <<>>, Top.pc \in ConnectPcs
    PROVE  /\ Typed /\ stack \in Seq(Frames)
           /\ Top \in Frames /\ Top.profile \in Profiles /\ Top.op \in {"connect", "auto"}
           /\ Top.pc \notin StopPcs
           /\ Len(stack) = 1 => Story(Top)
           /\ \A at \in FramePcs : Goto(at) => /\ inFlight' = inFlight /\ stack'[1].pc = at
                                               /\ stack'[1].op = Top.op /\ stack'[1].profile = Top.profile
           /\ Return => inFlight' = FALSE
<1>1. Typed /\ stack \in Seq(Frames) BY TypeParts DEF IInv
<1>2. Top.pc \notin StopPcs BY DEF ConnectPcs, StartPcs, UpPcs, RoutePcs, StopPcs
<1>3. Handler(Top) /\ Top \in Frames /\ (Len(stack) = 1 => Story(Top)) BY <1>2, TopHandler
<1>4. Top.profile \in Profiles /\ Top.op \in {"connect", "auto"} /\ Top.scope BY <1>3 DEF Handler
<1> QED BY <1>1, <1>2, <1>3, <1>4, GotoTop DEF Return

\* The steps of a connection attempt.
LEMMA AttemptPcs ==
    \A at \in StartPcs \cup UpPcs \cup RoutePcs : at \in FramePcs \ StopPcs /\ at \in ConnectPcs
BY DEF StartPcs, UpPcs, RoutePcs, FramePcs, StopPcs, ConnectPcs

\* A step of a connection attempt that goes on.
LEMMA AttemptGoes ==
    ASSUME IInv, stack # <<>>, Top.pc \in ConnectPcs, NEW at \in StartPcs \cup UpPcs \cup RoutePcs,
           Goto(at), Typed', Len(stack) = 1 => Story(stack[1])'
    PROVE  IInv'
BY AttemptTop, AttemptPcs, Goes

\* One that returns.
LEMMA AttemptReturns ==
    ASSUME IInv, stack # <<>>, Top.pc \in ConnectPcs, Return, Typed', Len(stack) = 1 => up' /\ Settled'
    PROVE  IInv'
BY AttemptTop, Returns

\* A published connection is real: its session and its routes are there.
LEMMA ConnectedStep ==
    ASSUME IInv, stack # <<>>, Top.pc \in {"l_routing", "m_routing"},
           RoutesUp(Top.profile) \/ RoutesDegraded(Top.profile), Connected, UNCHANGED <<process, backend>>
    PROVE  IInv'
<1>1. Top.pc \in UpPcs /\ Top.pc \in ConnectPcs BY DEF UpPcs, ConnectPcs
<1>2. Typed /\ Top.profile \in Profiles /\ (Len(stack) = 1 => Story(Top)) /\ Top.profile # None
  BY <1>1, AttemptTop, ProfilesAssumption
<1>3. /\ Return /\ inFlight' = FALSE /\ backendOwned' = TRUE /\ routingOwned' = TRUE
      /\ state' = "connected" /\ active' = Top.profile
      /\ IF degraded' THEN Top.profile \in AllExcept ELSE routes' = Top.profile /\ ~needsReapply'
  BY <1>1, AttemptTop, AcceptedRoutes DEF Connected
<1>4. refreshTimer' \in BOOLEAN
  <2>1. refreshTimer' = (refreshTimer \/ Top.profile \in ServerRules)
        \/ refreshTimer' = (Top.profile \in ServerRules) BY DEF Connected
  <2>2. (refreshTimer \/ Top.profile \in ServerRules) \in BOOLEAN OBVIOUS
  <2>3. (Top.profile \in ServerRules) \in BOOLEAN OBVIOUS
  <2> QED BY <2>1, <2>2, <2>3, Zenon
<1>5. Typed' BY <1>2, <1>3, <1>4, RoutingTypes DEF Typed, Profiles0, process, backend
<1> QED BY <1>1, <1>2, <1>3, <1>5, AttemptReturns DEF Story, Settled, RoutesHeld, SessionHeld, process, backend

\* The backend call of a connection without migration.
LEMMA LegacyBackendStep ==
    ASSUME IInv, LegacyBackend
    PROVE  IInv'
<1>1. /\ stack # <<>> /\ Top.pc = "l_backend" /\ Top.pc \in ConnectPcs /\ Top.pc \in StartPcs
      /\ UNCHANGED <<process, routingOwned, active, refreshTimer, routing>>
  BY DEF LegacyBackend, Running, ConnectPcs, StartPcs
<1>2. Typed /\ Top.profile \in Profiles /\ Top.profile \in Profiles0 /\ (Len(stack) = 1 => Story(Top))
  BY <1>1, AttemptTop DEF Profiles0
<1>3. CASE BackendUp(Top.profile) /\ backendOwned' = TRUE /\ Goto("l_routing") /\ UNCHANGED state
  <2>1. "l_routing" \in UpPcs /\ "l_routing" \in FramePcs BY DEF UpPcs, FramePcs
  <2>2. /\ inFlight' = inFlight /\ stack'[1].pc = "l_routing" /\ stack'[1].profile = Top.profile
    BY <1>1, <1>3, <2>1, AttemptTop
  <2>4. Len(stack) = 1 => Story(stack[1])'
    BY <1>1, <1>2, <1>3, <2>2 DEF Story, RoutesHeld, Attempt, BackendUp, StartPcs, process, routing
  <2> QED BY <1>1, <1>2, <1>3, <2>1, <2>2, <2>4, BackendTypes, AttemptGoes DEF Typed, process, routing
<1>4. CASE BackendNotUp(Top.profile) /\ LegacyFailed(state) /\ UNCHANGED backendOwned
  BY <1>1, <1>4, AttemptTop, AttemptReturns DEF LegacyFailed, Typed, process, routing, Story, Settled, RoutesHeld,
    SessionHeld, Attempt, BackendNotUp
<1> QED BY <1>3, <1>4 DEF LegacyBackend

\* Its routing call.
LEMMA LegacyRoutingStep ==
    ASSUME IInv, LegacyRouting
    PROVE  IInv'
<1>1. /\ stack # <<>> /\ Top.pc = "l_routing" /\ Top.pc \in ConnectPcs /\ Top.pc \in UpPcs
      /\ UNCHANGED <<process, backend>> BY DEF LegacyRouting, Running, ConnectPcs, UpPcs
<1>3. CASE (RoutesUp(Top.profile) \/ RoutesDegraded(Top.profile)) /\ Connected BY <1>1, <1>3, ConnectedStep
<1>4. CASE RoutesNotUp(Top.profile) /\ Goto("l_clean") /\ UNCHANGED belief
  BY <1>1, <1>4, AttemptTop, RoutingTypes, RoutesStayHeld, AttemptGoes DEF UpPcs, FramePcs, Typed, process, backend,
    belief, Story, Attempt, StartPcs, Profiles0
<1> QED BY <1>3, <1>4 DEF LegacyRouting

\* The backend is taken down after its routes failed.
LEMMA LegacyCleanupStep ==
    ASSUME IInv, LegacyCleanup
    PROVE  IInv'
<1>1. /\ stack # <<>> /\ Top.pc = "l_clean" /\ Top.pc \in ConnectPcs /\ Top.pc \in UpPcs
      /\ UNCHANGED <<process, routingOwned, active, refreshTimer, routing>>
      /\ \/ BackendDown(session) /\ backendOwned' = FALSE /\ LegacyFailed(state)
         \/ BackendNotDown(session) /\ LegacyFailed("cleanup_failed") /\ UNCHANGED backendOwned
  BY DEF LegacyCleanup, Running, ConnectPcs, UpPcs
<1>2. Typed /\ session \in Profiles0 /\ (Len(stack) = 1 => Story(Top)) BY <1>1, AttemptTop DEF Typed
<1>3. /\ Return /\ inFlight' = FALSE BY <1>1, AttemptTop DEF LegacyFailed
<1>4. session' \in Profiles0 /\ ifaces' \subseteq Profiles /\ dead' \in BOOLEAN BY <1>1, <1>2, BackendTypes
<1>5. CASE BackendDown(session) /\ backendOwned' = FALSE /\ LegacyFailed(state)
  <2>1. state' \in {state, "recovery_required"} BY <1>5 DEF LegacyFailed
  <2>2. Typed' BY <1>1, <1>2, <1>3, <1>4, <1>5, <2>1 DEF Typed, process, routing
  <2> QED
    BY <1>1, <1>2, <1>3, <1>5, <2>1, <2>2, AttemptReturns DEF Story, Settled, RoutesHeld, SessionHeld, Attempt,
      BackendDown, process, routing
<1>6. CASE BackendNotDown(session) /\ LegacyFailed("cleanup_failed") /\ UNCHANGED backendOwned
  <2>1. state' \in {"cleanup_failed", "recovery_required"} BY <1>6 DEF LegacyFailed
  <2>2. Typed' BY <1>1, <1>2, <1>3, <1>4, <1>6, <2>1 DEF Typed, process, routing
  <2> QED
    BY <1>1, <1>2, <1>3, <1>6, <2>1, <2>2, AttemptReturns DEF Story, Settled, RoutesHeld, SessionHeld, process,
      routing
<1> QED BY <1>1, <1>5, <1>6

\* The backend call of a migration candidate.
LEMMA MigrateBackendStep ==
    ASSUME IInv, MigrateBackend
    PROVE  IInv'
<1>1. /\ stack # <<>> /\ Top.pc = "m_backend" /\ Top.pc \in ConnectPcs /\ Top.pc \in StartPcs
      /\ UNCHANGED <<process, routingOwned, active, refreshTimer, routing>>
  BY DEF MigrateBackend, Running, ConnectPcs, StartPcs
<1>2. Typed /\ Top.profile \in Profiles /\ Top.profile \in Profiles0 /\ (Len(stack) = 1 => Story(Top))
  BY <1>1, AttemptTop DEF Profiles0
<1>3. CASE BackendUp(Top.profile) /\ backendOwned' = TRUE /\ Goto("m_routing") /\ UNCHANGED state
  <2>1. "m_routing" \in UpPcs /\ "m_routing" \in FramePcs BY DEF UpPcs, FramePcs
  <2>2. /\ inFlight' = inFlight /\ stack'[1].pc = "m_routing" /\ stack'[1].profile = Top.profile
    BY <1>1, <1>3, <2>1, AttemptTop
  <2>4. Len(stack) = 1 => Story(stack[1])'
    BY <1>1, <1>2, <1>3, <2>2 DEF Story, RoutesHeld, Attempt, BackendUp, StartPcs, process, routing
  <2> QED BY <1>1, <1>2, <1>3, <2>1, <2>2, <2>4, BackendTypes, AttemptGoes DEF Typed, process, routing
<1>4. CASE BackendNotUp(Top.profile) /\ Goto("m_abandon") /\ UNCHANGED <<backendOwned, state>>
  BY <1>1, <1>4, AttemptTop, AttemptGoes DEF StartPcs, FramePcs, Typed, process, routing, Story, RoutesHeld, Attempt,
    BackendNotUp, UpPcs, RoutePcs
<1>5. CASE /\ BackendNotUp(Top.profile) \/ BackendUp(Top.profile)
           /\ backendOwned' = (session' # None) /\ RecoverSession
  BY <1>1, <1>5, AttemptTop, <1>2, BackendTypes, AttemptReturns DEF RecoverSession, Typed, process, routing, Story,
    Settled, RoutesHeld, SessionHeld
<1> QED BY <1>3, <1>4, <1>5 DEF MigrateBackend

\* Its routing call.
LEMMA MigrateRoutingStep ==
    ASSUME IInv, MigrateRouting
    PROVE  IInv'
<1>1. /\ stack # <<>> /\ Top.pc = "m_routing" /\ Top.pc \in ConnectPcs /\ Top.pc \in UpPcs
      /\ UNCHANGED <<process, backend>> BY DEF MigrateRouting, Running, ConnectPcs, UpPcs
<1>2. Typed /\ Top.profile \in Profiles0 /\ (Len(stack) = 1 => Story(Top)) BY <1>1, AttemptTop DEF Profiles0
<1>3. CASE RoutesUp(Top.profile) /\ Connected BY <1>1, <1>3, ConnectedStep
<1>4. CASE /\ RoutesUp(Top.profile) \/ RoutesDegraded(Top.profile)
           /\ routingOwned' = TRUE /\ Goto("m_check")
           /\ UNCHANGED <<state, backendOwned, active, refreshTimer>>
  BY <1>1, <1>4, AttemptTop, <1>2, RoutingTypes, AttemptGoes DEF RoutePcs, FramePcs, Typed, process, backend,
    RoutesHeld, Story, Attempt, StartPcs, UpPcs
<1>5. CASE RoutesNotUp(Top.profile) /\ Goto("m_check") /\ UNCHANGED belief
  BY <1>1, <1>5, AttemptTop, <1>2, RoutingTypes, RoutesStayHeld, AttemptGoes DEF RoutePcs, FramePcs, Typed, process,
    backend, belief, Story, Attempt, StartPcs
<1> QED BY <1>3, <1>4, <1>5 DEF MigrateRouting

\* A candidate that failed is retired, or the session is left to recovery.
LEMMA MigrateCheckStep ==
    ASSUME IInv, MigrateCheck
    PROVE  IInv'
<1>1. /\ stack # <<>> /\ Top.pc = "m_check" /\ Top.pc \in ConnectPcs /\ Top.pc \in RoutePcs
      /\ UNCHANGED <<process, backendOwned, routingOwned, active, refreshTimer, backend, routing>>
  BY DEF MigrateCheck, Running, ConnectPcs, RoutePcs
<1>3. CASE RecoverSession
  BY <1>1, <1>3, AttemptTop, AttemptReturns DEF RecoverSession, Typed, process, backend, routing, Story, Settled,
    RoutesHeld, SessionHeld
<1>4. CASE routingOwned /\ Goto("m_routes") /\ UNCHANGED state
  BY <1>1, <1>4, AttemptTop, AttemptGoes DEF RoutePcs, FramePcs, Typed, process, backend, routing, Story, RoutesHeld,
    Attempt, StartPcs, UpPcs
<1>5. CASE ~routingOwned /\ Goto("m_clean") /\ UNCHANGED state
  BY <1>1, <1>5, AttemptTop, AttemptGoes DEF UpPcs, FramePcs, Typed, process, backend, routing, Story, RoutesHeld,
    Attempt, StartPcs
<1> QED BY <1>3, <1>4, <1>5 DEF MigrateCheck

\* The routes of a failed candidate go first.
LEMMA MigrateRoutesStep ==
    ASSUME IInv, MigrateRetireRoutes
    PROVE  IInv'
<1>1. /\ stack # <<>> /\ Top.pc = "m_routes" /\ Top.pc \in ConnectPcs /\ Top.pc \in RoutePcs
      /\ UNCHANGED <<process, backendOwned, active, refreshTimer, backend>>
  BY DEF MigrateRetireRoutes, Running, ConnectPcs, RoutePcs
<1>2. Typed /\ Top.profile \in Profiles0 /\ (Len(stack) = 1 => Story(Top)) BY <1>1, AttemptTop DEF Profiles0
<1>3. CASE RoutesDown /\ routingOwned' = FALSE /\ Goto("m_clean") /\ UNCHANGED state
  <2>1. "m_clean" \in UpPcs /\ "m_clean" \in FramePcs BY DEF UpPcs, FramePcs
  <2>2. /\ inFlight' = inFlight /\ stack'[1].pc = "m_clean" /\ stack'[1].profile = Top.profile
    BY <1>1, <1>3, <2>1, AttemptTop
  <2>3. Typed' BY <1>1, <1>2, <1>3, <2>2, RoutingTypes DEF Typed, process, backend
  <2> QED
    BY <1>1, <1>2, <1>3, <2>1, <2>2, <2>3, AttemptGoes DEF Story, RoutesHeld, Attempt, RoutesDown, StartPcs, process,
      backend
<1>4. CASE RoutesNotDown /\ RecoverSession /\ UNCHANGED routingOwned
  BY <1>1, <1>4, AttemptTop, RoutingTypes, RoutesStayHeld, AttemptReturns DEF RecoverSession, Typed, process, backend,
    Story, Settled, SessionHeld
<1> QED BY <1>3, <1>4 DEF MigrateRetireRoutes

\* Then its session.
LEMMA MigrateCleanupStep ==
    ASSUME IInv, MigrateCleanup
    PROVE  IInv'
<1>1. /\ stack # <<>> /\ Top.pc = "m_clean" /\ Top.pc \in ConnectPcs /\ Top.pc \in UpPcs
      /\ UNCHANGED <<process, routingOwned, active, refreshTimer, routing>>
  BY DEF MigrateCleanup, Running, ConnectPcs, UpPcs
<1>2. Typed /\ session \in Profiles0 /\ (Len(stack) = 1 => Story(Top)) BY <1>1, AttemptTop DEF Typed
<1>3. CASE BackendDown(session) /\ backendOwned' = FALSE /\ Goto("m_abandon") /\ UNCHANGED state
  <2>1. "m_abandon" \in StartPcs /\ "m_abandon" \in FramePcs BY DEF StartPcs, FramePcs
  <2>2. /\ inFlight' = inFlight /\ stack'[1].pc = "m_abandon" /\ stack'[1].profile = Top.profile
    BY <1>1, <1>3, <2>1, AttemptTop
  <2>3. Typed' BY <1>1, <1>2, <1>3, <2>2, BackendTypes DEF Typed, process, routing
  <2> QED
    BY <1>1, <1>2, <1>3, <2>1, <2>2, <2>3, AttemptGoes DEF Story, RoutesHeld, Attempt, BackendDown, UpPcs, RoutePcs,
      process, routing
<1>4. CASE BackendNotDown(session) /\ RecoverSession /\ UNCHANGED backendOwned
  BY <1>1, <1>4, AttemptTop, BackendTypes, AttemptReturns DEF RecoverSession, Typed, process, routing, Story, Settled,
    RoutesHeld, SessionHeld
<1> QED BY <1>3, <1>4 DEF MigrateCleanup

\* The legacy profile is connected instead.
LEMMA MigrateAbandonStep ==
    ASSUME IInv, MigrateAbandon
    PROVE  IInv'
<1>1. /\ stack # <<>> /\ Top.pc = "m_abandon" /\ Top.pc \in ConnectPcs /\ Top.pc \in StartPcs
      /\ UNCHANGED <<process, backendOwned, routingOwned, active, refreshTimer, backend, routing>>
  BY DEF MigrateAbandon, Running, ConnectPcs, StartPcs
<1>2. /\ Typed /\ stack \in Seq(Frames) /\ Top \in Frames /\ Top.op \in {"connect", "auto"}
      /\ (Len(stack) = 1 => Story(Top)) /\ Top.pc \notin StopPcs BY <1>1, AttemptTop
<1>3. CASE RecoverSession
  BY <1>1, <1>3, AttemptTop, AttemptReturns DEF RecoverSession, Typed, process, backend, routing, Story, Settled,
    RoutesHeld, SessionHeld
<1>4. CASE /\ stack' = <<[Top EXCEPT !.pc = "l_backend", !.legacy = TRUE]>> \o Tail(stack)
           /\ UNCHANGED <<inFlight, state>>
  <2> DEFINE f == [Top EXCEPT !.pc = "l_backend", !.legacy = TRUE]
  <2>1. /\ f \in Frames /\ f.pc = "l_backend" /\ f.op = Top.op /\ f.profile = Top.profile
        /\ f.scope = Top.scope BY <1>2 DEF Frames, FramePcs
  <2>2. stack' = <<f>> \o Tail(stack) BY <1>4
  <2> HIDE DEF f
  <2>3. /\ stack' \in Seq(Frames) /\ stack' # <<>> /\ Len(stack') = Len(stack) /\ stack'[1] = f
        /\ Len(stack) = 2 => stack'[2] = stack[2] BY <1>1, <1>2, <2>1, <2>2
  <2> QED
    BY <1>1, <1>2, <1>4, <2>1, <2>3, GoesOn DEF Typed, process, backend, routing, Story, RoutesHeld, Attempt, UpPcs,
      RoutePcs, FramePcs, StopPcs
<1> QED BY <1>3, <1>4 DEF MigrateAbandon

--------------------------------------------------------------------------------
(* Disconnect and refresh *)

\* The routes of a Disconnect go first; a failure keeps the session.
LEMMA DisconnectRoutingStep ==
    ASSUME IInv, DisconnectRouting
    PROVE  IInv'
<1>1. /\ stack # <<>> /\ Top.pc = "d_routing" /\ Top.pc \notin StopPcs /\ refreshTimer' = FALSE
      /\ UNCHANGED <<process, backendOwned, active, backend>> BY DEF DisconnectRouting, Running, StopPcs
<1>2. Typed /\ stack \in Seq(Frames) /\ None \in Profiles0 BY TypeParts DEF IInv, Profiles0
<1>3. Top \in Frames /\ Handler(Top) /\ (Len(stack) = 1 => Story(Top)) BY <1>1, TopHandler
<1>4. CASE /\ IF routingOwned THEN RoutesDown ELSE UNCHANGED routing
           /\ routingOwned' = FALSE /\ Goto("d_backend") /\ UNCHANGED state
  <2>1. "d_backend" \in FramePcs \ StopPcs /\ "d_backend" \notin ConnectPcs
    BY DEF FramePcs, StopPcs, ConnectPcs, StartPcs, UpPcs, RoutePcs
  <2>2. inFlight' = inFlight /\ stack'[1].pc = "d_backend" BY <1>1, <1>2, <1>4, <2>1, GotoTop
  <2>3. routes' \in Profiles0 /\ recovery' \in BOOLEAN /\ needsReapply' \in BOOLEAN /\ degraded' \in BOOLEAN
    BY <1>2, <1>4, RoutingTypes DEF Typed, routing
  <2>4. Typed' BY <1>1, <1>2, <1>4, <2>2, <2>3 DEF Typed, process, backend
  <2> QED
    BY <1>1, <1>3, <1>4, <2>1, <2>2, <2>4, Goes DEF Story, Settled, RoutesHeld, SessionHeld, RoutesDown, StartPcs,
      UpPcs, RoutePcs, process, backend, routing
<1>5. CASE /\ routingOwned /\ RoutesNotDown
           /\ state' = "cleanup_failed" /\ Return /\ UNCHANGED routingOwned
  <2>1. inFlight' = FALSE BY <1>3, <1>5 DEF Return, Handler
  <2>2. Typed' BY <1>1, <1>2, <1>5, <2>1, RoutingTypes DEF Typed, process, backend
  <2> QED BY <1>1, <1>3, <1>5, <2>2, Returns DEF Story, Settled, RoutesHeld, SessionHeld, process, backend
<1> QED BY <1>4, <1>5 DEF DisconnectRouting

\* The session of a Disconnect goes once its routes are gone.
LEMMA DisconnectBackendStep ==
    ASSUME IInv, DisconnectBackend
    PROVE  IInv'
<1>1. /\ stack # <<>> /\ Top.pc = "d_backend" /\ Top.pc \notin StopPcs /\ Return
      /\ UNCHANGED <<process, routingOwned, refreshTimer, routing>> BY DEF DisconnectBackend, Running, StopPcs
<1>2. Typed /\ stack \in Seq(Frames) /\ None \in Profiles0 /\ session \in Profiles0
  BY TypeParts DEF IInv, Profiles0, Typed
<1>3. Top \in Frames /\ Handler(Top) /\ (Len(stack) = 1 => Story(Top)) BY <1>1, TopHandler
<1>4. inFlight' = FALSE BY <1>1, <1>3 DEF Return, Handler
<1>5. CASE /\ IF backendOwned THEN BackendDown(session) ELSE UNCHANGED backend
           /\ backendOwned' = FALSE /\ state' = "disconnected" /\ active' = None
  <2>1. Typed' BY <1>1, <1>2, <1>4, <1>5, BackendTypes DEF Typed, process, backend, routing
  <2> QED
    BY <1>1, <1>3, <1>5, <2>1, Returns DEF Story, Settled, RoutesHeld, SessionHeld, BackendDown, process, backend,
      routing
<1>6. CASE /\ backendOwned /\ BackendNotDown(session)
           /\ state' = "cleanup_failed" /\ UNCHANGED <<backendOwned, active>>
  <2>1. Typed' BY <1>1, <1>2, <1>4, <1>6, BackendTypes DEF Typed, process, routing
  <2> QED BY <1>1, <1>3, <1>6, <2>1, Returns DEF Story, Settled, RoutesHeld, SessionHeld, process, routing
<1> QED BY <1>5, <1>6 DEF DisconnectBackend

\* A refresh keeps the session's routes, or hands them to recovery.
LEMMA RefreshStep ==
    ASSUME IInv, Refresh
    PROVE  IInv'
<1>1. /\ stack # <<>> /\ Top.pc = "refresh" /\ Top.pc \notin StopPcs /\ Return
      /\ UNCHANGED <<process, backendOwned, routingOwned, active, backend>> BY DEF Refresh, Running, StopPcs
<1>2. Typed /\ active \in Profiles0 BY TypeParts DEF IInv, Typed
<1>3. Top \in Frames /\ Handler(Top) /\ (Len(stack) = 1 => Story(Top)) BY <1>1, TopHandler
<1>4. inFlight' = FALSE BY <1>1, <1>3 DEF Return, Handler
<1>5. Len(stack) = 1 => Settled /\ up BY <1>1, <1>3 DEF Story
<1>6. CASE state # "connected" /\ refreshTimer' = FALSE /\ UNCHANGED <<state, routing>>
  <2>1. Typed' BY <1>1, <1>2, <1>4, <1>6 DEF Typed, process, backend, routing
  <2> QED BY <1>1, <1>5, <1>6, <2>1, Returns DEF Settled, RoutesHeld, SessionHeld, process, backend, routing
<1>7. CASE /\ state = "connected" /\ UNCHANGED <<state, refreshTimer>>
           /\ RoutesUp(active) \/ RoutesDegraded(active) \/ UNCHANGED routing
  <2>1. Typed' BY <1>1, <1>2, <1>4, <1>7, RoutingTypes DEF Typed, process, backend, routing
  <2> QED
    BY <1>1, <1>5, <1>7, <2>1, AcceptedRoutes, Returns DEF Settled, RoutesHeld, SessionHeld, process, backend, routing
<1>8. CASE /\ state = "connected" /\ RoutesNotUp(active)
           /\ state' = (IF recovery' THEN "recovery_required" ELSE state)
           /\ refreshTimer' = (refreshTimer /\ ~recovery')
  <2>1. routes' \in Profiles0 /\ recovery' \in BOOLEAN /\ needsReapply' \in BOOLEAN /\ degraded' \in BOOLEAN
    BY <1>2, <1>8, RoutingTypes
  <2>2. refreshTimer' \in BOOLEAN
    <3>1. (refreshTimer /\ ~recovery') \in BOOLEAN OBVIOUS
    <3> QED BY <1>8, <3>1, Zenon
  <2>3. state' \in {state, "recovery_required"} /\ (~recovery' => state' = state) BY <1>8
  <2>4. Typed' BY <1>1, <1>2, <1>4, <2>1, <2>2, <2>3 DEF Typed, process, backend
  <2>5. CASE recovery' BY <1>8, <2>5, <1>1, <1>5, <2>4, Returns DEF Settled, RoutesHeld, SessionHeld, process
  <2>6. CASE ~recovery'
    <3>1. UNCHANGED routing /\ state' = state BY <1>8, <2>3, <2>6 DEF RoutesNotUp
    <3> QED BY <1>1, <1>5, <1>8, <2>4, <3>1, Returns DEF Settled, RoutesHeld, SessionHeld, process, backend, routing
  <2> QED BY <2>5, <2>6
<1> QED BY <1>6, <1>7, <1>8 DEF Refresh

--------------------------------------------------------------------------------
(* stop() *)

\* stop() is the outermost frame, and no handler runs inside it when it moves.
LEMMA TopStopper ==
    ASSUME IInv, stack # <<>>, Top.pc \in StopPcs
    PROVE  /\ Stopper(Top) /\ Top \in Frames /\ Len(stack) = 1 /\ ~inFlight
           /\ Typed /\ stack \in Seq(Frames)
<1> QED BY TypeParts DEF IInv, Shape, Handler, Top

\* While stop() is all that runs, only its own frame must be in order.
LEMMA StopAlone ==
    ASSUME Typed', ~inFlight', NEW f \in Frames, Stopper(f), stack' = <<f>>
    PROVE  IInv'
<1> QED BY DEF IInv, Shape, Alone, Stopper, TypeOK, Typed, Frames

\* The last frame has nothing below it.
LEMMA LastFrame ==
    ASSUME NEW f, stack \in Seq(Frames), Len(stack) = 1
    PROVE  <<f>> \o Tail(stack) = <<f>>
<1>1. Tail(stack) \in Seq(Frames) /\ Len(Tail(stack)) = 0 OBVIOUS
<1>2. Tail(stack) = <<>> BY <1>1, EmptySeq
<1>3. <<f>> \o <<>> = <<f>> OBVIOUS
<1> QED BY <1>2, <1>3

\* The first frame of stop().
LEMMA StopFrames ==
    ASSUME NEW o \in {"stop", "destroy"}, routingOwned \in BOOLEAN
    PROVE  StopFrame(o) \in Frames /\ Stopper(StopFrame(o))
BY DEF StopFrame, Frame, Frames, Stopper, StopPcs, FramePcs, Ops, Profiles0

\* stop() begins between two handlers.
LEMMA StopStep ==
    ASSUME IInv, Stop
    PROVE  IInv'
<1>1. Typed /\ ~inFlight BY TypeParts DEF IInv, Shape, Stop
<1>3. Typed' /\ ~inFlight' /\ stack' = <<StopFrame("stop")>> BY <1>1 DEF Stop, Typed, process, backend, routing
<1> QED BY <1>1, <1>3, StopFrames, StopAlone DEF Typed

\* stop() takes the routes down, or gives up.
LEMMA StopRoutingStep ==
    ASSUME IInv, StopRouting
    PROVE  IInv'
<1>1. /\ stack # <<>> /\ Top.pc = "s_routing" /\ Top.pc \in StopPcs
      /\ UNCHANGED <<process, backendOwned, active, refreshTimer, backend>> /\ None \in Profiles0
  BY DEF StopRouting, Running, StopPcs, Profiles0
<1>2. /\ Stopper(Top) /\ Top \in Frames /\ Len(stack) = 1 /\ ~inFlight
      /\ Typed /\ stack \in Seq(Frames) BY <1>1, TopStopper
<1>3. CASE /\ IF Top.live THEN RoutesDown ELSE UNCHANGED routing
           /\ routingOwned' = FALSE
           /\ stack' = <<[Top EXCEPT !.pc = "s_backend", !.profile = session,
                                     !.live = backendOwned /\ session # None]>> \o Tail(stack)
           /\ UNCHANGED <<inFlight, state>>
  <2> DEFINE f == [Top EXCEPT !.pc = "s_backend", !.profile = session,
                              !.live = backendOwned /\ session # None]
  <2>1. f \in Frames /\ Stopper(f)
    <3>1. (backendOwned /\ session # None) \in BOOLEAN /\ session \in Profiles0 /\ "s_backend" \in FramePcs
      BY <1>2 DEF Typed, FramePcs
    <3> QED BY <1>2, <3>1 DEF Frames, Stopper, StopPcs
  <2>2. stack' = <<f>> \o Tail(stack) /\ inFlight' = inFlight BY <1>3
  <2> HIDE DEF f
  <2>4. routes' \in Profiles0 /\ recovery' \in BOOLEAN /\ needsReapply' \in BOOLEAN /\ degraded' \in BOOLEAN
    BY <1>2, <1>3, RoutingTypes DEF Typed, routing
  <2>5. Typed' BY <1>1, <1>2, <1>3, <2>4 DEF Typed, process, backend
  <2> QED BY <1>2, <2>1, <2>2, <2>5, LastFrame, StopAlone
<1>4. CASE /\ RoutesNotDown /\ state' = "cleanup_failed" /\ Goto("s_exit") /\ UNCHANGED routingOwned
  <2> DEFINE f == [Top EXCEPT !.pc = "s_exit"]
  <2>1. f \in Frames /\ Stopper(f) BY <1>2 DEF Frames, Stopper, StopPcs, FramePcs
  <2>2. stack' = <<f>> \o Tail(stack) /\ inFlight' = inFlight BY <1>4 DEF Goto
  <2> HIDE DEF f
  <2> QED BY <1>1, <1>2, <1>4, <2>1, <2>2, RoutingTypes, LastFrame, StopAlone DEF Typed, process, backend
<1> QED BY <1>3, <1>4 DEF StopRouting

\* stop() takes the session down, or gives up.
LEMMA StopBackendStep ==
    ASSUME IInv, StopBackend
    PROVE  IInv'
<1>1. /\ stack # <<>> /\ Top.pc = "s_backend" /\ Top.pc \in StopPcs /\ Goto("s_exit")
      /\ UNCHANGED <<process, routingOwned, refreshTimer, routing>> /\ None \in Profiles0
  BY DEF StopBackend, Running, StopPcs, Profiles0
<1>2. /\ Stopper(Top) /\ Top \in Frames /\ Len(stack) = 1 /\ ~inFlight
      /\ Typed /\ stack \in Seq(Frames) BY <1>1, TopStopper
<1> DEFINE f == [Top EXCEPT !.pc = "s_exit"]
<1>3. f \in Frames /\ Stopper(f) /\ Top.profile \in Profiles0 BY <1>2 DEF Frames, Stopper, StopPcs, FramePcs
<1>4. stack' = <<f>> \o Tail(stack) /\ inFlight' = inFlight BY <1>1 DEF Goto
<1> HIDE DEF f
<1>6. /\ session' \in Profiles0 /\ ifaces' \subseteq Profiles /\ dead' \in BOOLEAN
      /\ backendOwned' \in {FALSE, backendOwned} /\ active' \in {None, active}
      /\ state' \in {"disconnected", "cleanup_failed"}
  <2>1. CASE /\ IF Top.live THEN BackendDown(Top.profile) ELSE UNCHANGED backend
             /\ backendOwned' = FALSE /\ state' = "disconnected" /\ active' = None
    BY <1>2, <1>3, <2>1, BackendTypes DEF Typed, backend
  <2>2. CASE /\ BackendNotDown(Top.profile)
             /\ state' = "cleanup_failed" /\ UNCHANGED <<backendOwned, active>> BY <1>2, <1>3, <2>2, BackendTypes
  <2> QED BY <2>1, <2>2 DEF StopBackend
<1>7. Typed' BY <1>1, <1>2, <1>4, <1>6 DEF Typed, process, routing
<1> QED BY <1>2, <1>3, <1>4, <1>7, LastFrame, StopAlone

\* The process ends, after the destructor's own stop().
LEMMA StopExitStep ==
    ASSUME IInv, StopDereferences \/ StopExit
    PROVE  IInv'
<1>1. CASE Forget BY <1>1, ForgetStep DEF StopDereferences, StopExit
<1>2. CASE StopExit /\ ~Forget
  <2>1. /\ stack # <<>> /\ Top.pc \in StopPcs /\ UNCHANGED <<ifaces, routing>>
        /\ up' = FALSE /\ refreshTimer' = FALSE /\ stack' = <<StopFrame("destroy")>>
        /\ UNCHANGED <<quitting, autoPending, inFlight, state, backendOwned, routingOwned,
                       active, session, dead>> BY <1>2 DEF StopExit, Running, StopPcs
  <2>2. Typed /\ ~inFlight BY <2>1, TopStopper
  <2>4. Typed' /\ ~inFlight' BY <2>1, <2>2 DEF Typed, routing
  <2> QED BY <2>1, <2>4, StopFrames, StopAlone DEF Typed
<1> QED BY <1>1, <1>2 DEF StopDereferences

--------------------------------------------------------------------------------
(* The theorems *)

\* The daemon that has never run is in order.
LEMMA InitIInv == Init => IInv
<1> SUFFICES ASSUME Init PROVE IInv OBVIOUS
<1>1. stack = <<>> /\ Len(stack) = 0 /\ stack \in Seq(Frames) /\ ~up BY DEF Init
<1>2. TypeOK BY <1>1 DEF Init, TypeOK, Frames, Profiles0
<1> QED BY <1>2 DEF IInv, Init, Shape, Alone, Fresh

\* No step of a handler, a timer, a request or the environment breaks IInv.
LEMMA NextIInv == IInv /\ [Next]_vars => IInv'
<1> SUFFICES ASSUME IInv, [Next]_vars PROVE IInv' OBVIOUS
<1>1. CASE Start \/ Environment BY <1>1, EnvironmentStep
<1>2. CASE Stop BY <1>2, StopStep
<1>3. CASE Request BY <1>3, RequestStep
<1>4. CASE Timer BY <1>4, TimerStep
<1>5. CASE EnsureBackendHealthy \/ End BY <1>5, HealthStep
<1>6. CASE ConnectManagedProfile
  BY <1>6, AdmissionStep, LegacyBackendStep, LegacyRoutingStep, LegacyCleanupStep, MigrateBackendStep,
    MigrateRoutingStep, MigrateCheckStep, MigrateRoutesStep, MigrateCleanupStep, MigrateAbandonStep DEF
    ConnectManagedProfile
<1>7. CASE DisconnectRouting \/ DisconnectBackend \/ Refresh
  BY <1>7, DisconnectRoutingStep, DisconnectBackendStep, RefreshStep
<1>8. CASE StopSteps BY <1>8, StopRoutingStep, StopBackendStep, StopExitStep DEF StopSteps
<1>9. CASE UNCHANGED vars BY <1>9, TypeParts, StillStep DEF IInv, Typed, vars, process, belief, backend, routing
<1> QED BY <1>1, <1>2, <1>3, <1>4, <1>5, <1>6, <1>7, <1>8, <1>9 DEF Next, Step

\* The daemon's handlers and what they leave between them, in every reachable state.
LEMMA Inductive == Spec => []IInv
BY InitIInv, NextIInv, PTL DEF Spec

\* Every handler keeps the daemon, the backend and the controller typed.
THEOREM DaemonTyped == Spec => []TypeOK
<1>1. IInv => TypeOK BY DEF IInv
<1> QED BY <1>1, Inductive, PTL

\* Between two handlers no session and no routes are without an owner: no error
\* path of connectManagedProfile(), ensureBackendHealthy(), refreshManagedRoutes()
\* or a Disconnect loses them.
THEOREM NothingIsLost == Spec => []NothingLeaks
<1>1. IInv => NothingLeaks BY DEF IInv, NothingLeaks, Idle, Settled, RoutesHeld, SessionHeld
<1> QED BY <1>1, Inductive, PTL

\* Between two handlers, what status() reports is what the daemon owns.
THEOREM StatusHolds == Spec => []StatusIsHonest
<1>1. IInv => StatusIsHonest BY DEF IInv, StatusIsHonest, ConnectedIsReal, DisconnectedIsClean, Idle, Settled
<1> QED BY <1>1, Inductive, PTL

\* At most one handler holds the mutation scope, and stop() only ever has one
\* inside its waits: the bound on the depth of nested event loops plays no part.
THEOREM ScopeExcludes == Spec => []Shape
<1>1. IInv => Shape BY DEF IInv
<1> QED BY <1>1, Inductive, PTL

-----------------------------------------------------------------------------
(***************************************************************************)
(* The SSH transport.                                                      *)
(***************************************************************************)

SshCommands == {"line", "shell", "put", "mkdir", "cp", "cpTemporary", "cat", "shred", "run", "remove", "dump"}
Bodies == Contents \cup {Absent}
Chunks == {"out", "more", "err"}
ProcRecord ==
    [cmd : SshCommands \cup {"verify"}, content : Bodies, n : Nat, at : {"run", "end"},
     input : {"open", "cut", "whole"}, code : {"none", "zero", "one"}, prints : SUBSET Chunks, during : Nat]
\* A process that runs has no exit code.
ProcType == {p \in ProcRecord : p.at = "run" => p.code = "none"}
WireMessages == Chunks \cup {"zero", "one", "eof", "closed"}
LinkType ==
    [session : BOOLEAN, up : BOOLEAN, channel : Nat, wire : Seq(WireMessages), unread : SUBSET Chunks,
     eof : BOOLEAN, closed : BOOLEAN, status : {"none", "zero", "one"}, drained : SUBSET {"out", "err"},
     seen : BOOLEAN, got : SUBSET Chunks]

\* An upload is the last command of its operation.
PutLast(cmds) == \A k \in 1..Len(cmds) : cmds[k] = "put" => k = Len(cmds)
CommandRows == {cmds \in Seq(SshCommands) : PutLast(cmds)}
FilledRows == {cmds \in CommandRows : Len(cmds) > 0}
OperationType == [cmds : FilledRows, failing : {"ends", "kept", "ignored"}]

SshErrors == {"ok", "interrupted", "timeout", "pinError", "unresolved", "transport", "hostKeyMismatch", "denied",
              "internal", "checkFailed", "scpFailure"}
Connecting == {"pin", "resolve", "dial", "hostKey", "auth", "exec", "open"}
Executing == {"pump", "close", "ran"}
SshKinds == {"script", "shell", "file", "composite", "text", "append", "container", "read"}
SshJobType ==
    [kind : SshKinds \cup {"none"}, at : Connecting \cup Executing \cup {"idle", "next", "failed", "finish", "answered"},
     ops : Seq(OperationType), cmds : CommandRows, error : SshErrors, result : SshErrors, again : BOOLEAN,
     sent : BOOLEAN, upload : SshErrors, content : Bodies, oks : SUBSET Nat, n : Nat]
SshDiskType == [host : Bodies, file : SUBSET Bodies, exists : BOOLEAN, scratch : Bodies]

Ended(p) == p.at = "end" /\ p.code = "zero"
LastEnded(ps) == Len(ps) > 0 /\ Ended(ps[Len(ps)])

\* The process of the command c of the call j is the one started last.
MineLast(j, ps, c) ==
    Len(ps) > 0 /\ ps[Len(ps)].cmd = c /\ ps[Len(ps)].n = j.n /\ ps[Len(ps)].content = j.content

\* The channel belongs to the process started last, and only a process that
\* ended with status zero sends that status, or output.
Wired(l) == \/ "out" \in l.unread \/ "out" \in l.got \/ l.status = "zero"
            \/ \E k \in 1..Len(l.wire) : l.wire[k] \in {"out", "zero"}
LinkOK(l, ps) ==
    /\ l \in LinkType
    /\ l.channel # 0 => l.channel = Len(ps)
    /\ Wired(l) => LastEnded(ps)

\* Processes of the running call carry its content.
ProcsOK(j, ps) ==
    /\ ps \in Seq(ProcType)
    /\ \A i \in 1..Len(ps) : ps[i].n <= j.n /\ (ps[i].n = j.n /\ j.at # "idle" => ps[i].content = j.content)
    /\ \A i \in j.oks : i \in 1..Len(ps) /\ Ended(ps[i]) /\ ps[i].n = j.n

\* What is executed: the head of the row, or the comparison after an upload
\* whose receipt was lost.
CommandOf(j) == IF j.again THEN "verify" ELSE Head(j.cmds)

\* A command counts as successful when its process ended so, and an upload as
\* sent when its process was started.
RowOK(j, l, ps) ==
    /\ j.cmds # <<>> /\ j.ops # <<>>
    /\ j.again => j.cmds[1] = "put"
    /\ j.again /\ "out" \in l.got => j.at \in Executing /\ MineLast(j, ps, "verify")
    /\ ~j.again /\ j.sent => j.cmds[1] = "put" /\ j.at \in Executing /\ MineLast(j, ps, "put")
    /\ j.at = "pump" => l.channel # 0 /\ MineLast(j, ps, CommandOf(j))
    /\ j.at \in {"close", "ran"} /\ j.error = "ok" => MineLast(j, ps, CommandOf(j)) /\ LastEnded(ps)
    /\ j.at = "pump" \/ (j.at \in {"close", "ran"} /\ j.error = "ok") => (CommandOf(j) = "put" => j.sent)

\* The command that keeps the promise of a call.
Wanted(kind) ==
    IF kind \in {"file", "composite"} THEN "put" ELSE IF kind = "text" THEN "cp"
    ELSE IF kind = "append" THEN "cat" ELSE "none"
HasCommand(cmds, w) == \E k \in 1..Len(cmds) : cmds[k] = w
Needed(op, w) == op.failing = "ends" /\ HasCommand(op.cmds, w)
NeededFrom(ops, from, w) == \E k \in from..Len(ops) : Needed(ops[k], w)
PromiseKept(j, ps, w) == \E i \in j.oks : ps[i].cmd = w \/ (w = "put" /\ ps[i].cmd = "verify")

\* While the promise is not kept, an operation that would end the call still
\* has that command in front of it.
Ahead(j, w) ==
    \/ j.at = "next" /\ NeededFrom(j.ops, 1, w)
    \/ j.at \in Connecting \cup Executing /\ (NeededFrom(j.ops, 2, w) \/ (j.ops[1].failing = "ends" /\ HasCommand(j.cmds, w)))
    \/ /\ j.at \in {"failed", "finish"}
       /\ NeededFrom(j.ops, 2, w) \/ (j.ops[1].failing = "ends" /\ j.error # "ok")
SshProgress(j, ps) ==
    Wanted(j.kind) # "none" /\ j.result = "ok" /\ ~PromiseKept(j, ps, Wanted(j.kind)) => Ahead(j, Wanted(j.kind))

SshJobOK(j, l, ps) ==
    /\ j \in SshJobType
    /\ j.at \in Connecting \cup Executing => RowOK(j, l, ps)
    /\ j.at \in {"failed", "finish"} => j.ops # <<>>
    /\ j.at = "failed" => j.error # "ok"
    /\ j.kind = "composite" => \A k \in 1..Len(j.ops) : j.ops[k].failing = "ends"
    /\ (j.at = "idle") = (j.kind = "none")
    /\ SshProgress(j, ps)

\* The promise is kept once the process of its command ended: nothing but the
\* clean-up of a failed call, or an overtaking copy, takes it back.
CleanedUp(j) ==
    j.kind = "composite" /\ ((j.at = "finish" /\ j.error # "ok") \/ (j.at = "answered" /\ j.result # "ok"))
OvertakenBy(j, ps) ==
    \E i \in 1..Len(ps) : ps[i].cmd = "cp" /\ ps[i].code = "zero" /\ ps[i].n # j.n /\ ps[i].during = j.n
SshDiskOK(j, ps, d) ==
    /\ d \in SshDiskType
    /\ \A i \in 1..Len(ps) : Ended(ps[i]) /\ ps[i].n = j.n /\ j.at # "idle" =>
         /\ ps[i].cmd \in {"put", "verify"} /\ ~CleanedUp(j) => d.host = j.content
         /\ ps[i].cmd \in {"cp", "cat"} => j.content \in d.file \/ OvertakenBy(j, ps)

SshInv ==
    /\ LinkOK(link, procs) /\ ProcsOK(job, procs) /\ SshJobOK(job, link, procs)
    /\ SshDiskOK(job, procs, disk)

-----------------------------------------------------------------------------
(* What the calls consist of.                                              *)

\* A row of one command, or of two that end with an upload at most.
LEMMA RowOfOne ==
    ASSUME NEW c \in SshCommands PROVE <<c>> \in FilledRows /\ HasCommand(<<c>>, c)
<1> QED BY DEF FilledRows, CommandRows, PutLast, HasCommand

\* A row of two commands with no upload in it is a row of commands.
LEMMA RowOfTwo ==
    ASSUME NEW c \in SshCommands \ {"put"}, NEW e \in SshCommands
    PROVE  <<c, e>> \in FilledRows /\ HasCommand(<<c, e>>, e)
<1> QED BY DEF FilledRows, CommandRows, PutLast, HasCommand

\* A call of one operation.
LEMMA OneOperation ==
    ASSUME NEW cmds \in FilledRows, NEW f \in {"ends", "kept", "ignored"}, NEW w
    PROVE  LET s == <<Operation(cmds, f)>> IN
           /\ s \in Seq(OperationType) /\ Len(s) = 1 /\ s[1].failing = f
           /\ f = "ends" /\ HasCommand(cmds, w) => NeededFrom(s, 1, w)
<1> DEFINE o == Operation(cmds, f)
<1> HIDE DEF o
<1> QED BY DEF NeededFrom, Needed, Operation, OperationType

\* Calls one after the other.
LEMMA JoinedOperations ==
    ASSUME NEW s \in Seq(OperationType), NEW t \in Seq(OperationType), NEW w
    PROVE  /\ s \o t \in Seq(OperationType) /\ Len(s \o t) = Len(s) + Len(t)
           /\ NeededFrom(s, 1, w) => NeededFrom(s \o t, 1, w)
           /\ NeededFrom(t, 1, w) => NeededFrom(s \o t, 1, w)
<1>1. /\ s \o t \in Seq(OperationType) /\ Len(s \o t) = Len(s) + Len(t)
      /\ Len(s) \in Nat /\ Len(t) \in Nat OBVIOUS
<1>3. ASSUME NEW k \in 1..Len(t) PROVE (s \o t)[Len(s) + k] = t[k] OBVIOUS
<1>5. ASSUME NeededFrom(t, 1, w) PROVE NeededFrom(s \o t, 1, w) BY <1>5, <1>1, <1>3 DEF NeededFrom
<1> QED BY <1>1, <1>5 DEF NeededFrom

\* Four parts, of which the third contains what is wanted.
InTurn(a, b, c, d) == a \o b \o c \o d
\* The operations of a job are those of its four parts, in that order.
LEMMA FourParts ==
    ASSUME NEW a \in Seq(OperationType), NEW b \in Seq(OperationType), NEW c \in Seq(OperationType),
           NEW d \in Seq(OperationType), NEW w, Len(a) > 0, NeededFrom(c, 1, w)
    PROVE  /\ InTurn(a, b, c, d) \in Seq(OperationType) /\ Len(InTurn(a, b, c, d)) > 0
           /\ NeededFrom(InTurn(a, b, c, d), 1, w)
<1>1. PICK x : x = a \o b OBVIOUS
<1>2. x \in Seq(OperationType) /\ Len(x) = Len(a) + Len(b) BY <1>1
<1>3. PICK y : y = x \o c OBVIOUS
<1>4. y \in Seq(OperationType) /\ Len(y) = Len(x) + Len(c) /\ NeededFrom(y, 1, w) BY <1>2, <1>3, JoinedOperations
<1>5. PICK z : z = y \o d OBVIOUS
<1>6. z \in Seq(OperationType) /\ Len(z) = Len(y) + Len(d) /\ NeededFrom(z, 1, w) BY <1>4, <1>5, JoinedOperations
<1> QED BY <1>1, <1>3, <1>5, <1>6 DEF InTurn

\* What a call is made of, and that it contains the command it promises.
CallOK(kind, s) ==
    /\ s \in Seq(OperationType) /\ Len(s) > 0
    /\ Wanted(kind) # "none" => NeededFrom(s, 1, Wanted(kind))
    /\ kind = "composite" => \A k \in 1..Len(s) : s[k].failing = "ends"

\* The operations that upload a text are well formed and end with the upload.
LEMMA TextUpload ==
    /\ CallOK("text", uploadTextFileToContainer(FALSE)) /\ CallOK("append", uploadTextFileToContainer(TRUE))
<1> DEFINE a == uploadFileToHost
           b == runScript(<<"mkdir">>)
           d == <<Operation(<<"shred">>, "ignored")>>
<1>1. a \in Seq(OperationType) /\ Len(a) = 1 BY RowOfOne, OneOperation DEF uploadFileToHost, SshCommands
<1>2. b \in Seq(OperationType) /\ Len(b) = 1 BY RowOfOne, OneOperation DEF runScript, SshCommands
<1>3. d \in Seq(OperationType) /\ Len(d) = 1 BY RowOfOne, OneOperation DEF SshCommands
<1>4. UploadOverwrite \in Seq(OperationType) /\ Len(UploadOverwrite) = 1 /\ NeededFrom(UploadOverwrite, 1, "cp")
  BY RowOfOne, OneOperation DEF UploadOverwrite, SshCommands
<1>5. UploadAppend \in Seq(OperationType) /\ Len(UploadAppend) = 2 /\ NeededFrom(UploadAppend, 1, "cat")
  BY RowOfOne DEF Operation, OperationType, SshCommands, Needed, UploadAppend, NeededFrom
<1>6. /\ uploadTextFileToContainer(FALSE) = a \o b \o UploadOverwrite \o d
      /\ uploadTextFileToContainer(TRUE) = a \o b \o UploadAppend \o d BY DEF uploadTextFileToContainer
<1> HIDE DEF a, b, d
<1>7. PICK x, y : x = InTurn(a, b, UploadOverwrite, d) /\ y = InTurn(a, b, UploadAppend, d) OBVIOUS
<1>8. x \in Seq(OperationType) /\ Len(x) > 0 /\ NeededFrom(x, 1, "cp") BY <1>1, <1>2, <1>3, <1>4, <1>7, FourParts
<1>9. y \in Seq(OperationType) /\ Len(y) > 0 /\ NeededFrom(y, 1, "cat")
  BY <1>1, <1>2, <1>3, <1>5, <1>7, FourParts, SMTT(30)
<1>10. CallOK("text", x) /\ CallOK("append", y) BY <1>8, <1>9 DEF CallOK, Wanted
<1> QED BY <1>6, <1>7, <1>10 DEF InTurn

\* What every call of the session asks for is well formed and holds the command the call promises.
LEMMA CallsOK ==
    ASSUME NEW kind \in DOMAIN Calls PROVE kind \in SshKinds /\ CallOK(kind, Calls[kind])
<1>1. kind \in SshKinds BY DEF Calls, SshKinds
<1>2. CASE kind = "script"
  <2>1. Calls[kind] = <<Operation(<<"line", "line">>, "ends")>> BY <1>2 DEF Calls, runScript
  <2>2. <<"line", "line">> \in FilledRows BY RowOfTwo DEF SshCommands
  <2> QED BY <1>1, <1>2, <2>1, <2>2, OneOperation DEF CallOK, Wanted
<1>3. CASE kind = "shell"
  <2>1. Calls[kind] = <<Operation(<<"shell">>, "ends")>> BY <1>3 DEF Calls, runScriptInSingleShell
  <2> QED BY <1>1, <1>3, <2>1, RowOfOne, OneOperation DEF CallOK, Wanted, SshCommands
<1>4. CASE kind = "file"
  BY <1>4, RowOfOne, <1>1, OneOperation DEF Calls, uploadLocalFileToHost, SshCommands, CallOK, Wanted
<1>5. CASE kind = "composite"
  <2>2. <<"shell", "put">> \in FilledRows /\ HasCommand(<<"shell", "put">>, "put") BY RowOfTwo DEF SshCommands
  <2> QED BY <1>1, <1>5, <2>2, OneOperation DEF CallOK, Wanted, Calls, runScriptAndUploadFiles
<1>6. CASE kind \in {"text", "append"}
  <2>1. kind = "text" => Calls[kind] = uploadTextFileToContainer(FALSE) BY DEF Calls
  <2>2. kind = "append" => Calls[kind] = uploadTextFileToContainer(TRUE) BY DEF Calls
  <2> QED BY <1>1, <1>6, <2>1, <2>2, TextUpload
<1>7. CASE kind = "container"
  <2> DEFINE a == uploadTextFileToContainer(FALSE)
             b == <<Operation(<<"run">>, "kept"), Operation(<<"remove">>, "ignored")>>
  <2>1. Calls[kind] = a \o b BY <1>7 DEF Calls, runContainerScript
  <2>2. a \in Seq(OperationType) /\ Len(a) > 0 BY TextUpload DEF CallOK
  <2>3. b \in Seq(OperationType) /\ Len(b) = 2 BY RowOfOne DEF Operation, OperationType, SshCommands
  <2> HIDE DEF a, b
  <2> QED BY <1>1, <1>7, <2>1, <2>2, <2>3 DEF CallOK, Wanted
<1>8. CASE kind = "read"
  <2>1. Calls[kind] = <<Operation(<<"dump">>, "ends")>> BY <1>8 DEF Calls, getTextFileFromContainer, runScript
  <2> QED BY <1>1, <1>8, <2>1, RowOfOne, OneOperation DEF CallOK, Wanted, SshCommands
<1> QED BY <1>1, <1>2, <1>3, <1>4, <1>5, <1>6, <1>7, <1>8 DEF SshKinds

-----------------------------------------------------------------------------
(* What the invariant keeps when a part of the state changes.              *)

\* Processes go on, end, and are joined by new ones.
Extended(ps, qs) ==
    /\ qs \in Seq(ProcType) /\ Len(qs) >= Len(ps)
    /\ \A i \in 1..Len(ps) : /\ qs[i].cmd = ps[i].cmd /\ qs[i].n = ps[i].n /\ qs[i].content = ps[i].content
                             /\ Ended(ps[i]) => Ended(qs[i])
Advanced(ps, qs) == Extended(ps, qs) /\ Len(qs) = Len(ps)
Unmoved(ps, qs) ==
    /\ Advanced(ps, qs)
    /\ \A i \in 1..Len(ps) : qs[i].at = ps[i].at /\ qs[i].code = ps[i].code /\ qs[i].during = ps[i].during

\* A process whose input is cut is otherwise the same.
CutAt(ps, c) == [i \in DOMAIN ps |-> IF i = c THEN Cut(ps[i]) ELSE ps[i]]
\* Cutting the input of a process ends none and starts none.
LEMMA CutMovesNothing ==
    ASSUME NEW ps \in Seq(ProcType), NEW c PROVE Unmoved(ps, CutAt(ps, c))
<1>1. PICK qs : qs = CutAt(ps, c) OBVIOUS
<1>2. Len(ps) \in Nat /\ DOMAIN ps = 1..Len(ps) OBVIOUS
<1>4. ASSUME NEW p \in ProcType
      PROVE  /\ Cut(p) \in ProcType /\ Cut(p).cmd = p.cmd /\ Cut(p).n = p.n /\ Cut(p).content = p.content
             /\ Cut(p).at = p.at /\ Cut(p).code = p.code /\ Cut(p).during = p.during BY DEF Cut, ProcType, ProcRecord
<1>6. \A i \in 1..Len(ps) :
        /\ qs[i] \in ProcType /\ qs[i].cmd = ps[i].cmd /\ qs[i].n = ps[i].n /\ qs[i].content = ps[i].content
        /\ qs[i].at = ps[i].at /\ qs[i].code = ps[i].code /\ qs[i].during = ps[i].during BY <1>1, <1>4 DEF CutAt
<1> QED BY <1>1, <1>2, <1>6 DEF Unmoved, Advanced, Extended, Ended, CutAt

\* Processes that stay as they are have not moved.
LEMMA NothingMoves ==
    ASSUME NEW ps \in Seq(ProcType) PROVE Unmoved(ps, ps)
BY DEF Unmoved, Advanced, Extended

\* What the link says of its process stays true while that process goes on.
LEMMA LinkAdvances ==
    ASSUME NEW l, NEW ps \in Seq(ProcType), NEW qs, LinkOK(l, ps), Advanced(ps, qs) PROVE LinkOK(l, qs)
<1> QED BY DEF LinkOK, LastEnded, Advanced, Extended

\* A link on which less has arrived.
LEMMA LinkLoses ==
    ASSUME NEW l, NEW m \in LinkType, NEW ps, LinkOK(l, ps),
           m.channel = l.channel \/ m.channel = 0, Wired(m) => Wired(l)
    PROVE  LinkOK(m, ps)
BY DEF LinkOK

\* What is said of the job's processes stays true when others are appended.
LEMMA ProcsExtend ==
    ASSUME NEW j \in SshJobType, NEW ps, NEW qs, ProcsOK(j, ps), Extended(ps, qs),
           \A i \in 1..Len(qs) : i > Len(ps) => qs[i].n = j.n /\ qs[i].content = j.content
    PROVE  ProcsOK(j, qs)
<1>1. ps \in Seq(ProcType) /\ Len(ps) \in Nat /\ qs \in Seq(ProcType) /\ Len(qs) \in Nat /\ Len(qs) >= Len(ps)
  BY DEF ProcsOK, Extended
<1>3. ASSUME NEW i \in 1..Len(qs)
      PROVE  qs[i].n <= j.n /\ (qs[i].n = j.n /\ j.at # "idle" => qs[i].content = j.content)
  BY DEF ProcsOK, Extended, SshJobType
<1>4. ASSUME NEW i \in j.oks PROVE i \in 1..Len(qs) /\ Ended(qs[i]) /\ qs[i].n = j.n BY DEF ProcsOK, Extended
<1> QED BY <1>1, <1>3, <1>4 DEF ProcsOK

\* The call goes on: its number, its content and its successes stay.
Continues(j, k) ==
    /\ k \in SshJobType /\ k.n = j.n /\ k.content = j.content /\ k.kind = j.kind
    /\ j.at # "idle" /\ k.at # "idle"
\* The same, for a job that continues with the same commands.
LEMMA ProcsContinue ==
    ASSUME NEW j \in SshJobType, NEW k, NEW ps, ProcsOK(j, ps), Continues(j, k), k.oks = j.oks PROVE ProcsOK(k, ps)
BY DEF ProcsOK, Continues

\* What the disk shows of a job stays true while the job continues.
LEMMA DiskContinues ==
    ASSUME NEW j \in SshJobType, NEW k, NEW ps, NEW d, SshDiskOK(j, ps, d), Continues(j, k), CleanedUp(j) => CleanedUp(k)
    PROVE  SshDiskOK(k, ps, d)
<1> QED BY DEF SshDiskOK, Continues, OvertakenBy

\* The same, when no process ended.
LEMMA DiskUnmoved ==
    ASSUME NEW j, NEW ps \in Seq(ProcType), NEW qs, NEW d, SshDiskOK(j, ps, d), Unmoved(ps, qs) PROVE SshDiskOK(j, qs, d)
<1>2. \A i \in 1..Len(ps) : /\ qs[i].cmd = ps[i].cmd /\ qs[i].n = ps[i].n /\ qs[i].content = ps[i].content
                            /\ qs[i].at = ps[i].at /\ qs[i].code = ps[i].code /\ qs[i].during = ps[i].during
  BY DEF Unmoved, Advanced, Extended
<1> QED BY <1>2 DEF SshDiskOK, Ended, OvertakenBy, Unmoved, Advanced

\* The same call, with processes that went on and a link that carries the same.
LEMMA PromiseExtends ==
    ASSUME NEW j, NEW ps \in Seq(ProcType), NEW qs, NEW w, \A i \in j.oks : i \in 1..Len(ps), Extended(ps, qs),
           PromiseKept(j, ps, w)
    PROVE  PromiseKept(j, qs, w)
BY DEF PromiseKept, Extended

\* What is true of a job stays true while its processes go on.
LEMMA JobAdvances ==
    ASSUME NEW j, NEW l, NEW m, NEW ps, NEW qs, ProcsOK(j, ps), SshJobOK(j, l, ps), Advanced(ps, qs),
           "out" \in m.got => "out" \in l.got, m.channel = l.channel
    PROVE  SshJobOK(j, m, qs)
<1> QED BY PromiseExtends DEF SshJobOK, SshProgress, Advanced, RowOK, MineLast, Extended, LastEnded, ProcsOK

\* A step inside the row of commands.
LEMMA RowContinues ==
    ASSUME NEW j, NEW k, NEW l, NEW m, NEW ps, NEW qs, ProcsOK(j, ps), SshJobOK(j, l, ps), Extended(ps, qs),
           Continues(j, k), k.ops = j.ops, k.cmds = j.cmds, k.result = j.result, k.oks = j.oks,
           j.at \in Connecting \cup Executing, k.at \in Connecting \cup Executing, RowOK(k, m, qs)
    PROVE  SshJobOK(k, m, qs)
<1>2. \A w : PromiseKept(j, ps, w) => PromiseKept(k, qs, w)
  <2>1. \A w : PromiseKept(j, ps, w) => PromiseKept(j, qs, w) BY PromiseExtends DEF ProcsOK
  <2> QED BY <2>1 DEF PromiseKept
<1> QED BY <1>2 DEF SshJobOK, Continues, Connecting, Executing, SshProgress, Ahead

-----------------------------------------------------------------------------
(* Steps inside the row of commands.                                       *)

\* The initial states.
LEMMA SshInitHolds == SshInit => SshInv
<1> SUFFICES ASSUME SshInit PROVE SshInv OBVIOUS
<1> QED
  BY DEF SshInv, ProcsOK, LinkOK, Quiet, LinkType, Wired, SshProgress, Wanted, SshJobOK, Connecting, Executing,
    SshDiskOK, SshInit, SshDiskType, Bodies, CommandRows, PutLast, NoSshJob, SshJobType, SshErrors

\* The call k is j at another place, with another error.
MovedTo(j, k, at, e) ==
    /\ k \in SshJobType /\ k.at = at /\ k.error = e /\ k.kind = j.kind /\ k.ops = j.ops /\ k.cmds = j.cmds
    /\ k.result = j.result /\ k.again = j.again /\ k.sent = j.sent /\ k.upload = j.upload
    /\ k.content = j.content /\ k.oks = j.oks /\ k.n = j.n
SshPlaces == Connecting \cup Executing \cup {"idle", "next", "failed", "finish", "answered"}

\* A job that moves to another place with an error keeps what it owns.
LEMMA JobMoves ==
    ASSUME NEW j \in SshJobType, NEW at \in SshPlaces, NEW e \in SshErrors
    PROVE  /\ MovedTo(j, [j EXCEPT !.at = at, !.error = e], at, e)
           /\ MovedTo(j, [j EXCEPT !.at = at], at, j.error)
<1>1. [j EXCEPT !.at = at, !.error = e] \in SshJobType BY DEF SshJobType, SshPlaces
<1>2. [j EXCEPT !.at = at] \in SshJobType BY DEF SshJobType, SshPlaces
<1> QED BY <1>1, <1>2 DEF MovedTo

\* boundaryError() answers with an error of the transport.
LEMMA BoundaryIsName == ASSUME NEW phase PROVE boundaryError(phase) \in SshErrors
BY DEF boundaryError, boundaryState, SshErrors

\* A step of the row that starts no process.
LEMMA RowStep ==
    ASSUME SshInv, NEW at \in Connecting \cup Executing, NEW e, MovedTo(job, job', at, e),
           job.at \in Connecting \cup Executing, LinkOK(link', procs'), Unmoved(procs, procs'),
           RowOK(job', link', procs'), disk' = disk
    PROVE  SshInv'
<1>3. Extended(procs, procs') /\ Len(procs') = Len(procs) BY DEF Unmoved, Advanced
<1> QED
  BY <1>3, ProcsExtend, DiskContinues, DiskUnmoved, RowContinues DEF SshInv, MovedTo, CleanedUp, Connecting,
    Executing, Continues, SshJobOK, ProcsOK

\* A link on which nothing travels: only what was read before is known.
Bare(l, c, g) ==
    l \in LinkType /\ l.channel = c /\ l.wire = <<>> /\ l.unread = {} /\ l.status = "none" /\ l.got = g
Silent(l) == l \in LinkType /\ ~Wired(l) /\ "out" \notin l.got

\* The links the client makes out of a closed one.
LEMMA QuietLinks ==
    ASSUME NEW s \in BOOLEAN, NEW u \in BOOLEAN, NEW c \in Nat, NEW g \in SUBSET Chunks
    PROVE  /\ Bare(Quiet, 0, {})
           /\ Bare([Quiet EXCEPT !.session = s, !.up = u], 0, {})
           /\ Bare([Quiet EXCEPT !.session = s, !.up = u, !.channel = c], c, {})
           /\ Bare([Quiet EXCEPT !.session = s, !.up = u, !.got = g], 0, g)
           /\ Bare([Quiet EXCEPT !.got = g], 0, g)
<1>1. <<>> \in Seq(WireMessages) OBVIOUS
<1>2. PICK e : e = <<>> /\ e \in Seq(WireMessages) BY <1>1
<1>3. PICK q : q = Quiet OBVIOUS
<1>4. q \in LinkType /\ q.channel = 0 /\ q.wire = <<>> /\ q.unread = {} /\ q.status = "none" /\ q.got = {}
  BY <1>3 DEF Quiet, LinkType
<1>6. Bare([q EXCEPT !.session = s, !.up = u], 0, {}) BY <1>4 DEF Bare, LinkType
<1>7. Bare([q EXCEPT !.session = s, !.up = u, !.channel = c], c, {}) BY <1>4 DEF Bare, LinkType
<1>8. Bare([q EXCEPT !.session = s, !.up = u, !.got = g], 0, g) BY <1>4 DEF Bare, LinkType
<1>9. Bare([q EXCEPT !.got = g], 0, g) BY <1>4 DEF Bare, LinkType
<1> QED BY <1>3, <1>4, <1>6, <1>7, <1>8, <1>9 DEF Bare

\* A link that has just been opened has nothing to say.
LEMMA BareLink ==
    ASSUME NEW l, NEW c, NEW g, Bare(l, c, g)
    PROVE  (Wired(l) => "out" \in g) /\ (g = {} => Silent(l))
<1> QED BY DEF Bare, Silent, Wired

\* No more has a link with no channel.
LEMMA QuietIsSilent == Silent(Quiet) /\ Quiet.channel = 0
<1>1. Bare(Quiet, 0, {}) BY QuietLinks
<1> QED BY <1>1, BareLink DEF Bare

\* abortConnection() cuts the input of the process on the channel and silences the link.
LEMMA AbortMoves ==
    ASSUME SshInv, abortSession PROVE link' = Quiet /\ Unmoved(procs, procs')
BY CutMovesNothing DEF abortSession, CutAt, SshInv, ProcsOK

\* A connection, or a place before the command, that failed.
LEMMA RowFails ==
    ASSUME SshInv, job.at \in Connecting, NEW e \in SshErrors \ {"ok"}, SshFailed(e), disk' = disk,
           (link' = link /\ UNCHANGED procs) \/ abortSession
    PROVE  SshInv'
<1>1. job \in SshJobType /\ RowOK(job, link, procs) /\ procs \in Seq(ProcType) /\ LinkOK(link, procs)
  BY DEF SshInv, SshJobOK, ProcsOK
<1>2. MovedTo(job, job', "ran", e) BY <1>1, JobMoves DEF SshFailed, SshPlaces, Executing
<1> QED
  BY <1>1, <1>2, NothingMoves, AbortMoves, QuietIsSilent, RowStep DEF Executing, RowOK, MovedTo, Connecting, LinkOK,
    Silent

\* A place before the command that was passed.
LEMMA RowGoesOn ==
    ASSUME SshInv, job.at \in Connecting, NEW at \in Connecting, To(at), disk' = disk, UNCHANGED procs,
           link' = link \/ (Silent(link') /\ link'.channel = 0)
    PROVE  SshInv'
<1>1. job \in SshJobType /\ RowOK(job, link, procs) /\ procs \in Seq(ProcType) /\ LinkOK(link, procs)
  BY DEF SshInv, SshJobOK, ProcsOK
<1>2. MovedTo(job, job', at, job.error) BY <1>1, JobMoves DEF To, SshPlaces, SshJobType
<1> QED BY <1>1, <1>2, RowStep, NothingMoves DEF LinkOK, Silent, RowOK, MovedTo, Connecting, Executing

\* A phase of connectToHost() that the link survives keeps the invariant.
LEMMA PhaseHolds ==
    ASSUME SshInv, NEW at \in Connecting, NEW next \in Connecting, NEW error \in SshErrors \ {"ok"}, NEW connected,
           connected = link \/ (Silent(connected) /\ connected.channel = 0), Phase(at, next, error, connected)
    PROVE  SshInv'
<1>1. job \in SshJobType /\ job.at \in Connecting /\ disk' = disk BY DEF SshInv, SshJobOK, Phase
<1>3. ASSUME NEW e \in SshErrors \ {"ok"}, ConnectFailed(e) PROVE SshInv'
  BY <1>1, <1>3, RowFails DEF ConnectFailed, SshJobType
<1>4. CASE boundaryError("connect") # "ok" /\ ConnectFailed(boundaryError("connect")) BY <1>3, <1>4, BoundaryIsName
<1>5. CASE ConnectFailed(error) BY <1>3, <1>5
<1>6. CASE link' = connected /\ To(next) /\ UNCHANGED procs BY <1>1, <1>6, RowGoesOn
<1> QED BY <1>4, <1>5, <1>6 DEF Phase

\* connectToHost().
LEMMA ConnectHolds == ASSUME SshInv, connectToHost PROVE SshInv'
<1>2. CASE ResolvePin BY <1>2, PhaseHolds DEF ResolvePin, Connecting, SshErrors
<1>3. CASE resolveHostName BY <1>3, PhaseHolds DEF resolveHostName, Connecting, SshErrors
<1>4. CASE Dial
  <2>1. PICK c : c = [Quiet EXCEPT !.session = TRUE, !.up = TRUE] OBVIOUS
  <2>2. Phase("dial", "hostKey", "transport", c) BY <1>4, <2>1 DEF Dial
  <2>3. Bare(c, 0, {}) BY <2>1, QuietLinks
  <2> QED BY <2>2, <2>3, BareLink, PhaseHolds DEF Connecting, SshErrors, Bare
<1>5. CASE verifyServerHostKey BY <1>5, PhaseHolds DEF verifyServerHostKey, Connecting, SshErrors
<1>6. CASE Authenticate BY <1>6, PhaseHolds DEF Authenticate, Connecting, SshErrors
<1> QED BY <1>2, <1>3, <1>4, <1>5, <1>6 DEF connectToHost

\* The snapshot of the upload and the execution of a command.
LEMMA ExecuteHolds == ASSUME SshInv, SnapshotUpload \/ ExecuteCommand PROVE SshInv'
<1>1. job.at \in Connecting /\ disk' = disk /\ UNCHANGED <<link, procs>>
  BY DEF SnapshotUpload, ExecuteCommand, Connecting
<1>2. CASE To("open") BY <1>1, <1>2, RowGoesOn DEF Connecting
<1>3. CASE boundaryError("operation") # "ok" /\ SshFailed(boundaryError("operation"))
  BY <1>1, <1>3, RowFails, BoundaryIsName
<1>4. CASE SshFailed("internal") BY <1>1, <1>4, RowFails DEF SshErrors
<1> QED BY <1>2, <1>3, <1>4 DEF SnapshotUpload, ExecuteCommand

-----------------------------------------------------------------------------
(* The command runs.                                                       *)

\* The process started last is not touched by steps that move none.
LEMMA LastStays ==
    ASSUME NEW j, NEW ps \in Seq(ProcType), NEW qs, Unmoved(ps, qs)
    PROVE  (\A c : MineLast(j, ps, c) => MineLast(j, qs, c)) /\ (LastEnded(ps) => LastEnded(qs))
<1> QED BY DEF MineLast, Unmoved, Advanced, Extended, LastEnded

\* The end of a command, heard or not: as a success only when its process
\* ended so.
LEMMA RowEnds ==
    ASSUME SshInv, job.at \in Connecting \cup Executing, NEW at \in {"close", "ran"}, NEW e \in SshErrors,
           MovedTo(job, job', at, e), Unmoved(procs, procs'), LinkOK(link', procs'), disk' = disk,
           "out" \in link'.got => "out" \in link.got \/ job.at = "pump",
           e = "ok" => /\ MineLast(job, procs, CommandOf(job)) /\ LastEnded(procs)
                       /\ CommandOf(job) = "put" => job.sent
    PROVE  SshInv'
<1>1. job \in SshJobType /\ RowOK(job, link, procs) /\ procs \in Seq(ProcType) BY DEF SshInv, SshJobOK, ProcsOK
<1> QED BY <1>1, LastStays, RowStep DEF RowOK, MovedTo, CommandOf, MineLast, Executing

\* executeChannel requests the command: its process is the one started last.
LEMMA ChannelOpens ==
    ASSUME SshInv, job.at = "open", disk' = disk, procs' = Append(procs, SshStarted),
           link' = [Quiet EXCEPT !.session = TRUE, !.up = TRUE, !.channel = Len(procs) + 1],
           job' = [job EXCEPT !.at = "pump", !.sent = @ \/ Command = "put"]
    PROVE  SshInv'
<1>1. job \in SshJobType /\ RowOK(job, link, procs) /\ procs \in Seq(ProcType) /\ Len(procs) \in Nat
      /\ ProcsOK(job, procs) /\ SshJobOK(job, link, procs) /\ SshDiskOK(job, procs, disk)
  BY DEF SshInv, SshJobOK, ProcsOK, Connecting
<1>2. job.content \in Bodies /\ job.n \in Nat /\ job.cmds \in CommandRows /\ job.cmds # <<>>
  BY <1>1 DEF SshJobType, RowOK
<1>3. Command \in SshCommands \cup {"verify"} /\ Command = CommandOf(job) BY <1>2 DEF CommandRows, Command, CommandOf
<1>4. PICK p : p = SshStarted OBVIOUS
<1>5. /\ p \in ProcType /\ p.cmd = CommandOf(job) /\ p.content = job.content /\ p.n = job.n /\ p.at = "run"
      /\ p.code = "none" BY <1>2, <1>3, <1>4 DEF SshStarted, ProcType, ProcRecord
<1>6. PICK c \in Nat : c = Len(procs) + 1 OBVIOUS
<1>7. /\ procs' \in Seq(ProcType) /\ Len(procs') = c /\ procs'[c] = p
      /\ \A i \in 1..Len(procs) : procs'[i] = procs[i] BY <1>4, <1>1, <1>5, <1>6
<1>9. Extended(procs, procs') BY <1>7 DEF Extended
<1>10. PICK s \in BOOLEAN : s = (job.sent \/ Command = "put") BY <1>1 DEF SshJobType
<1>11. job' = [job EXCEPT !.at = "pump", !.sent = s] BY <1>10
<1>12. /\ job' \in SshJobType /\ job'.at = "pump" /\ job'.sent = s /\ job'.kind = job.kind /\ job'.ops = job.ops
       /\ job'.cmds = job.cmds /\ job'.result = job.result /\ job'.again = job.again
       /\ job'.content = job.content /\ job'.oks = job.oks /\ job'.n = job.n
  BY <1>1, <1>11 DEF SshJobType, Connecting, Executing
<1>13. Continues(job, job') BY <1>12 DEF Continues
<1>14. Bare(link', c, {}) BY <1>6, QuietLinks
<1>15. LinkOK(link', procs') BY <1>14, BareLink DEF LinkOK, Silent
<1>16. ProcsOK(job', procs')
  <2>1. ProcsOK(job', procs) BY <1>1, <1>12, <1>13, ProcsContinue
  <2>2. \A i \in 1..Len(procs') : i > Len(procs) => procs'[i].n = job'.n /\ procs'[i].content = job'.content
    BY <1>5, <1>7
  <2> QED BY <1>9, <1>12, <2>1, <2>2, ProcsExtend
<1>17. SshJobOK(job', link', procs')
  <2>2. ~(~job.again /\ job.sent) BY <1>1 DEF RowOK, Executing
  <2>3. ~job.again /\ s => CommandOf(job) = "put" BY <1>3, <1>10, <2>2
  <2>6. CommandOf(job) = "put" => s BY <1>3, <1>10
  <2>10. RowOK(job', link', procs') BY <1>1, <1>5, <1>7, <1>12, <2>3, <2>6 DEF RowOK, Executing, CommandOf, MineLast
  <2> QED BY <1>1, <1>9, <1>12, <1>13, <2>10, RowContinues, ZenonT(40) DEF Connecting, Executing
<1> QED BY <1>5, <1>7, <1>15, <1>16, <1>17 DEF SshInv, CleanedUp, OvertakenBy, Ended, SshDiskOK

\* The opening of the channel starts the remote process.
LEMMA OpenHolds == ASSUME SshInv, OpenChannel PROVE SshInv'
<1>1. job \in SshJobType /\ procs \in Seq(ProcType) /\ LinkOK(link, procs) BY DEF SshInv, SshJobOK, ProcsOK
<1>2. job.at = "open" /\ disk' = disk BY DEF OpenChannel
<1>3. ASSUME NEW e \in SshErrors \ {"ok"}, FinishChannel(e), UNCHANGED <<link, procs>> PROVE SshInv'
  <2>1. MovedTo(job, job', "close", e) BY <1>1, <1>3, JobMoves DEF FinishChannel, SshPlaces, Executing
  <2> QED BY <1>1, <1>2, <1>3, <2>1, NothingMoves, RowEnds DEF Connecting
<1>4. CASE boundaryError("open") # "ok" /\ FinishChannel(boundaryError("open")) /\ UNCHANGED <<link, procs>>
  BY <1>3, <1>4, BoundaryIsName
<1>5. CASE FinishChannel("transport") /\ UNCHANGED <<link, procs>> BY <1>3, <1>5 DEF SshErrors
<1>6. CASE procs' = Append(procs, SshStarted) BY <1>6, ChannelOpens DEF OpenChannel
<1> QED BY <1>4, <1>5, <1>6 DEF OpenChannel

\* What the pump reads was on the link before.
LEMMA PumpReads ==
    ASSUME NEW l, l = [ReadChunks EXCEPT !.seen = link.eof \/ link.closed], LinkOK(link, procs)
    PROVE  /\ LinkOK(l, procs) /\ l.channel = link.channel
           /\ exitState(l) = "success" => LastEnded(procs)
<1>1. link \in LinkType BY DEF LinkOK
<1>2. PICK d \in SUBSET {"out", "err"}, g \in SUBSET Chunks, u \in SUBSET Chunks, s \in BOOLEAN :
        /\ d = IF link.seen THEN {"out", "err"} \ StreamsWaiting(link.unread)
               ELSE link.drained \ StreamsWaiting(link.unread)
        /\ g = link.got \cup NextChunks(link.unread) /\ u = link.unread \ NextChunks(link.unread)
        /\ s = (link.eof \/ link.closed)
  <2>1. NextChunks(link.unread) \subseteq link.unread BY DEF NextChunks
  <2> QED BY <1>1, <2>1 DEF LinkType
<1>5. PICK r : r = [link EXCEPT !.got = g, !.unread = u, !.drained = d] OBVIOUS
<1>6. r \in LinkType /\ r.channel = link.channel /\ r.unread = u /\ r.got = g /\ r.status = link.status /\ r.wire = link.wire
  BY <1>1, <1>5 DEF LinkType
<1>8. l = [r EXCEPT !.seen = s] BY <1>2, <1>5 DEF ReadChunks
<1>9. l \in LinkType /\ l.channel = link.channel /\ l.unread = u /\ l.got = g /\ l.status = link.status /\ l.wire = link.wire
  BY <1>6, <1>8 DEF LinkType
<1> QED BY <1>2, <1>9 DEF LinkOK, Wired, exitState, NextChunks

\* The pump writes the input of the channel's process, and nothing else.
LEMMA InputMovesNothing ==
    ASSUME NEW ps \in Seq(ProcType), NEW c \in 1..Len(ps) PROVE Unmoved(ps, [ps EXCEPT ![c].input = "whole"])
<1>1. PICK p : p = [ps[c] EXCEPT !.input = "whole"] OBVIOUS
<1>2. ps[c] \in ProcType OBVIOUS
<1>3. /\ p \in ProcType /\ p.cmd = ps[c].cmd /\ p.n = ps[c].n /\ p.content = ps[c].content
      /\ p.at = ps[c].at /\ p.code = ps[c].code /\ p.during = ps[c].during BY <1>1, <1>2 DEF ProcType, ProcRecord
<1>4. PICK qs : qs = [ps EXCEPT ![c] = p] OBVIOUS
<1> QED BY <1>1, <1>3 DEF Unmoved, Advanced, Extended, Ended

\* A job that stays as it is continues.
LEMMA SameJob ==
    ASSUME NEW j \in SshJobType PROVE MovedTo(j, j, j.at, j.error)
BY DEF MovedTo

\* The loop that reads the channel's output.
LEMMA PumpHolds == ASSUME SshInv, Pump PROVE SshInv'
<1>1. job \in SshJobType /\ procs \in Seq(ProcType) /\ LinkOK(link, procs) BY DEF SshInv, SshJobOK, ProcsOK
<1>2. job.at = "pump" /\ disk' = disk /\ job.at \in Executing BY DEF Pump, Executing
<1>3. RowOK(job, link, procs) BY <1>2 DEF SshInv, SshJobOK
<1>4. /\ MineLast(job, procs, CommandOf(job)) /\ link.channel = Len(procs) /\ link.channel # 0
      /\ CommandOf(job) = "put" => job.sent BY <1>1, <1>2, <1>3 DEF RowOK, LinkOK
<1>5. ASSUME NEW e \in SshErrors, FinishChannel(e), UNCHANGED procs, LinkOK(link', procs),
             e = "ok" => LastEnded(procs)
      PROVE  SshInv'
  <2>1. MovedTo(job, job', "close", e) BY <1>1, <1>5, JobMoves DEF FinishChannel, SshPlaces, Executing
  <2> QED BY <1>1, <1>2, <1>4, <1>5, <2>1, NothingMoves, RowEnds
<1>6. CASE boundaryError("operation") # "ok" /\ FinishChannel(boundaryError("operation")) /\ UNCHANGED <<link, procs>>
  BY <1>1, <1>5, <1>6, BoundaryIsName
<1>7. CASE FinishChannel("transport") /\ UNCHANGED <<link, procs>> BY <1>1, <1>5, <1>7 DEF SshErrors
<1>8. CASE Pumped /\ UNCHANGED procs
  <2>1. PICK l : l = [ReadChunks EXCEPT !.seen = link.eof \/ link.closed] OBVIOUS
  <2>2. /\ link' = l
        /\ \/ UNCHANGED job
           \/ exitState(l) = "success" /\ FinishChannel("ok")
           \/ FinishChannel("checkFailed") BY <1>8, <2>1 DEF Pumped
  <2>3. LinkOK(l, procs) /\ l.channel = link.channel /\ (exitState(l) = "success" => LastEnded(procs))
    BY <1>1, <2>1, PumpReads
  <2>4. CASE UNCHANGED job
    BY <1>1, <2>4, SameJob, <1>2, <1>3, <1>8, <2>2, <2>3, NothingMoves, RowStep DEF RowOK, CommandOf
  <2>5. CASE exitState(l) = "success" /\ FinishChannel("ok") BY <1>5, <1>8, <2>2, <2>3, <2>5 DEF SshErrors
  <2>6. CASE FinishChannel("checkFailed") BY <1>5, <1>8, <2>2, <2>3, <2>6 DEF SshErrors
  <2> QED BY <2>2, <2>4, <2>5, <2>6
<1>9. CASE WriteInput /\ UNCHANGED <<link, job>>
  <2>1. link.channel \in 1..Len(procs) BY <1>4
  <2>2. Unmoved(procs, procs') BY <1>1, <1>9, <2>1, InputMovesNothing DEF WriteInput
  <2> QED BY <1>1, <1>2, <1>3, <1>9, <2>2, LastStays, SameJob, LinkAdvances, RowStep DEF Unmoved, RowOK
<1> QED BY <1>6, <1>7, <1>8, <1>9 DEF Pump

\* closeChannel() takes the exit status the server sent.
LEMMA CloseHolds == ASSUME SshInv, closeChannel PROVE SshInv'
<1>1. job \in SshJobType /\ procs \in Seq(ProcType) /\ LinkOK(link, procs) /\ link \in LinkType
  BY DEF SshInv, SshJobOK, ProcsOK, LinkOK
<1>4. link.session \in BOOLEAN /\ link.up \in BOOLEAN /\ link.got \in SUBSET Chunks /\ job.error \in SshErrors
  BY <1>1 DEF LinkType, SshJobType
<1>5. PICK e \in SshErrors : SshFailed(e) /\ (e = "ok" => job.error = "ok")
  BY BoundaryIsName, <1>4 DEF SshErrors, closeChannel
<1>6. /\ link' = [Quiet EXCEPT !.session = link.session, !.up = link.up, !.got = link.got]
         \/ link' = [Quiet EXCEPT !.got = link.got]
      /\ procs' = CutAt(procs, link.channel) BY DEF closeChannel, CutAt
<1>7. Unmoved(procs, procs') BY <1>1, <1>6, CutMovesNothing
<1>8. Bare(link', 0, link.got)
  <2>1. \A s \in BOOLEAN, u \in BOOLEAN, g \in SUBSET Chunks :
          Bare([Quiet EXCEPT !.session = s, !.up = u, !.got = g], 0, g) /\ Bare([Quiet EXCEPT !.got = g], 0, g)
    BY QuietLinks, 0 \in Nat, Zenon
  <2>2. CASE link' = [Quiet EXCEPT !.session = link.session, !.up = link.up, !.got = link.got]
    BY <1>4, <2>1, <2>2, Zenon
  <2>3. CASE link' = [Quiet EXCEPT !.got = link.got] BY <1>4, <2>1, <2>3, Zenon
  <2> QED BY <1>6, <2>2, <2>3
<1>9. LinkOK(link', procs')
  <2>1. Wired(link') => Wired(link) BY <1>8, BareLink DEF Wired
  <2> QED BY <1>1, <1>7, <1>8, <2>1, LinkLoses, LinkAdvances DEF Unmoved, Bare
<1>10. MovedTo(job, job', "ran", e) BY <1>1, <1>5, JobMoves DEF SshFailed, SshPlaces, Executing
<1> QED BY <1>5, <1>7, <1>8, <1>9, <1>10, RowEnds DEF RowOK, SshInv, SshJobOK, Bare, closeChannel, Executing

-----------------------------------------------------------------------------
(* What follows a command.                                                 *)

\* The rest of a row.
LEMMA RestOfRow ==
    ASSUME NEW cmds \in CommandRows, cmds # <<>>
    PROVE  /\ Tail(cmds) \in CommandRows /\ Head(cmds) = cmds[1] /\ Len(cmds) \in Nat \ {0}
           /\ Len(cmds) # 1 => Tail(cmds) # <<>> /\ cmds[1] # "put"
           /\ \A w : HasCommand(cmds, w) => cmds[1] = w \/ (Len(cmds) # 1 /\ HasCommand(Tail(cmds), w))
<1>1. cmds \in Seq(SshCommands) /\ PutLast(cmds) BY DEF CommandRows
<1>3. PICK t : t = Tail(cmds) OBVIOUS
<1>4. t \in Seq(SshCommands) /\ Len(t) = Len(cmds) - 1 /\ \A k \in 1..Len(t) : t[k] = cmds[k + 1] BY <1>1, <1>3
<1>5. PutLast(t) BY <1>4, <1>1 DEF PutLast
<1>6. ASSUME Len(cmds) # 1 PROVE t # <<>> BY <1>4, <1>6
<1>7. Len(cmds) # 1 => cmds[1] # "put"
  <2>1. 1 \in 1..Len(cmds) OBVIOUS
  <2> QED BY <1>1, <2>1 DEF PutLast
<1>8. ASSUME NEW w, HasCommand(cmds, w), cmds[1] # w PROVE Len(cmds) # 1 /\ HasCommand(t, w)
  <2>1. PICK k \in 1..Len(cmds) : cmds[k] = w BY <1>8 DEF HasCommand
  <2>2. k # 1 BY <1>8, <2>1
  <2>3. PICK i \in Int : i = k - 1 OBVIOUS
  <2>4. i \in 1..Len(t) /\ i + 1 = k BY <1>4, <2>2, <2>3
  <2>5. t[i] = w BY <1>4, <2>1, <2>4
  <2> QED BY <2>1, <2>4, <2>5 DEF HasCommand
<1> QED BY <1>3, <1>5, <1>6, <1>7, <1>8 DEF CommandRows

\* A command whose process ended with success is counted, and the row goes on.
LEMMA NextHolds ==
    ASSUME SshInv, job.at = "ran", NextCommand, UNCHANGED <<link, procs, disk>>,
           MineLast(job, procs, CommandOf(job)), LastEnded(procs), job.again \/ job.sent => job.cmds[1] = "put"
    PROVE  SshInv'
<1>1. job \in SshJobType /\ procs \in Seq(ProcType) /\ Len(procs) \in Nat /\ LinkOK(link, procs)
      /\ ProcsOK(job, procs) /\ SshJobOK(job, link, procs) /\ SshDiskOK(job, procs, disk)
  BY DEF SshInv, SshJobOK, ProcsOK
<1>2. RowOK(job, link, procs) /\ job.cmds # <<>> /\ job.ops # <<>> BY <1>1 DEF SshJobOK, Executing, RowOK
<1>4. PICK t : t = Tail(job.cmds) OBVIOUS
<1>5. /\ t \in CommandRows /\ Head(job.cmds) = job.cmds[1]
      /\ Len(job.cmds) # 1 => t # <<>> /\ job.cmds[1] # "put"
      /\ \A w : HasCommand(job.cmds, w) => job.cmds[1] = w \/ (Len(job.cmds) # 1 /\ HasCommand(t, w))
  BY <1>1, <1>2, <1>4, RestOfRow DEF SshJobType
<1>6. PICK o : o = job.oks \cup {Len(procs)} OBVIOUS
<1>7. o \in SUBSET Nat BY <1>1, <1>6 DEF SshJobType
<1>8. PICK at \in {"finish", "exec"} : at = IF Len(job.cmds) = 1 THEN "finish" ELSE "exec" OBVIOUS
<1>9. job' = [job EXCEPT !.cmds = t, !.error = "ok", !.again = FALSE, !.oks = o, !.at = at]
  BY <1>4, <1>6, <1>8 DEF NextCommand
<1>10. /\ job' \in SshJobType /\ job'.at = at /\ job'.sent = job.sent /\ job'.kind = job.kind /\ job'.ops = job.ops
       /\ job'.cmds = t /\ job'.result = job.result /\ job'.again = FALSE /\ job'.error = "ok"
       /\ job'.content = job.content /\ job'.oks = o /\ job'.n = job.n
  BY <1>1, <1>5, <1>7, <1>8, <1>9 DEF SshJobType, SshErrors, Connecting
<1> QED
  BY <1>5, <1>6, <1>8, <1>10, DiskContinues DEF SshInv, MineLast, LastEnded, ProcsOK, CleanedUp, Continues, SshJobOK,
    Connecting, Executing, SshProgress, PromiseKept, Ahead, CommandOf, RowOK

\* The row is given up.
LEMMA RowGivenUp ==
    ASSUME SshInv, job.at = "ran", NEW e \in SshErrors \ {"ok"}, MovedTo(job, job', "failed", e),
           UNCHANGED <<link, procs, disk>>
    PROVE  SshInv'
<1> QED
  BY DiskContinues, ProcsContinue DEF SshInv, MovedTo, SshJobOK, Connecting, Executing, RowOK, SshProgress, Ahead,
    PromiseKept, CleanedUp, Continues

\* The return of a command of a row.
LEMMA AfterCommandHolds == ASSUME SshInv, AfterCommand PROVE SshInv'
<1>1. /\ job.at = "ran" /\ job.cmds # <<>> /\ Command \notin {"put", "verify"} /\ UNCHANGED <<link, procs, disk>>
      /\ (job.error = "ok" /\ NextCommand) \/ (job.error # "ok" /\ To("failed")) BY DEF AfterCommand
<1>2. job \in SshJobType /\ RowOK(job, link, procs) BY <1>1 DEF SshInv, SshJobOK, Executing
<1>3. ~job.again /\ job.error \in SshErrors BY <1>1, <1>2 DEF Command, SshJobType
<1>4. CASE job.error = "ok" /\ NextCommand BY <1>1, <1>2, <1>4, NextHolds DEF RowOK
<1>5. CASE job.error # "ok" /\ To("failed")
  <2>1. MovedTo(job, job', "failed", job.error) BY <1>2, <1>3, <1>5, JobMoves DEF To, SshPlaces
  <2> QED BY <1>1, <1>3, <1>5, <2>1, RowGivenUp
<1> QED BY <1>1, <1>4, <1>5

\* The receipt of an upload is read from a process that ended with success.
LEMMA ReceiptMeansEnded ==
    ASSUME LinkOK(link, procs), UploadReceipt PROVE LastEnded(procs)
BY DEF LinkOK, UploadReceipt, Wired

\* The return of an upload.
LEMMA AfterUploadHolds == ASSUME SshInv, AfterUpload PROVE SshInv'
<1>1. job.at = "ran" /\ job.cmds # <<>> /\ Command = "put" /\ disk' = disk BY DEF AfterUpload
<1>2. /\ job \in SshJobType /\ RowOK(job, link, procs) /\ LinkOK(link, procs) /\ ProcsOK(job, procs)
      /\ SshJobOK(job, link, procs) /\ SshDiskOK(job, procs, disk) /\ procs \in Seq(ProcType)
  BY <1>1 DEF SshInv, SshJobOK, ProcsOK, Executing
<1>3. ~job.again /\ CommandOf(job) = "put" /\ job.error \in SshErrors /\ job.cmds \in CommandRows
  BY <1>1, <1>2 DEF Command, CommandOf, SshJobType
<1>4. job.cmds[1] = "put" BY <1>3 DEF CommandOf
<1>5. CASE /\ boundaryError("operation") # "ok" /\ UNCHANGED <<link, procs>>
           /\ job' = [job EXCEPT !.at = "failed", !.error = boundaryError("operation")]
  <2>1. MovedTo(job, job', "failed", boundaryError("operation")) BY <1>2, <1>5, BoundaryIsName, JobMoves DEF SshPlaces
  <2> QED BY <1>1, <1>5, <2>1, BoundaryIsName, RowGivenUp
<1>6. CASE job.sent /\ UploadReceipt /\ NextCommand /\ UNCHANGED <<link, procs>>
  BY <1>2, <1>3, <1>6, ReceiptMeansEnded, <1>1, NextHolds DEF RowOK
<1>7. CASE abortSession /\ job' = [job EXCEPT !.at = "pin", !.again = TRUE, !.upload = job.error]
  <2>1. link' = Quiet /\ Unmoved(procs, procs') BY <1>7, AbortMoves
  <2>2. /\ job' \in SshJobType /\ job'.at = "pin" /\ job'.again = TRUE /\ job'.kind = job.kind /\ job'.ops = job.ops
        /\ job'.cmds = job.cmds /\ job'.result = job.result /\ job'.content = job.content /\ job'.oks = job.oks
        /\ job'.n = job.n BY <1>2, <1>3, <1>7 DEF SshJobType, Connecting
  <2>3. Continues(job, job') BY <1>1, <2>2 DEF Continues
  <2> QED
    BY <1>1, <1>2, <1>4, <2>1, <2>2, <2>3, ProcsContinue, ProcsExtend, QuietIsSilent, RowContinues, DiskContinues,
      DiskUnmoved DEF SshInv, CleanedUp, Unmoved, Advanced, Connecting, Executing, RowOK, Silent, LinkOK
<1>8. CASE ~job.sent /\ To("failed") /\ UNCHANGED <<link, procs>>
  <2>2. MovedTo(job, job', "failed", job.error) BY <1>2, <1>3, <1>8, JobMoves DEF To, SshPlaces
  <2> QED BY <1>1, <1>2, <1>3, <1>8, <2>2, RowGivenUp DEF RowOK
<1> QED BY <1>5, <1>6, <1>7, <1>8 DEF AfterUpload

\* The return of the verification of an upload whose answer was lost.
LEMMA AfterReconcileHolds == ASSUME SshInv, AfterReconcile PROVE SshInv'
<1>1. job.at = "ran" /\ job.again /\ UNCHANGED <<link, procs, disk>> BY DEF AfterReconcile
<1>2. job \in SshJobType /\ RowOK(job, link, procs) /\ LinkOK(link, procs) BY <1>1 DEF SshInv, SshJobOK, Executing
<1>3. job.error \in SshErrors /\ job.upload \in SshErrors BY <1>2 DEF SshJobType
<1>4. CASE UploadReceipt /\ NextCommand
  BY <1>1, <1>2, <1>4, NextHolds, ReceiptMeansEnded DEF RowOK, CommandOf, UploadReceipt
<1>5. CASE \E e \in SshErrors \ {"ok"} : job' = [job EXCEPT !.at = "failed", !.error = e]
  <2>1. PICK e \in SshErrors \ {"ok"} : job' = [job EXCEPT !.at = "failed", !.error = e] BY <1>5
  <2>2. MovedTo(job, job', "failed", e) BY <1>2, <2>1, JobMoves DEF SshPlaces
  <2> QED BY <1>1, <2>2, RowGivenUp
<1>6. \/ UploadReceipt /\ NextCommand
      \/ \E e \in SshErrors \ {"ok"} : job' = [job EXCEPT !.at = "failed", !.error = e]
  <2>1. "scpFailure" \in SshErrors \ {"ok"} BY DEF SshErrors
  <2> QED BY <1>3, <2>1, BoundaryIsName DEF AfterReconcile
<1> QED BY <1>4, <1>5, <1>6

\* The uploads of a composite call that failed are removed; it will not say
\* that they are there.
LEMMA CleanUpHolds == ASSUME SshInv, CleanUpUpload PROVE SshInv'
<1>1. job.at = "failed" /\ To("finish") /\ UNCHANGED <<link, procs>> BY DEF CleanUpUpload
<1>2. /\ job \in SshJobType /\ LinkOK(link, procs) /\ ProcsOK(job, procs)
      /\ SshJobOK(job, link, procs) /\ SshDiskOK(job, procs, disk) BY DEF SshInv, SshJobOK
<1>3. MovedTo(job, job', "finish", job.error) /\ job.error # "ok" /\ job.ops # <<>> /\ job.kind # "none"
  BY <1>1, <1>2, JobMoves DEF To, SshPlaces, SshJobOK, SshErrors
<1>4. Continues(job, job') BY <1>1, <1>3 DEF Continues, MovedTo
<1>5. ProcsOK(job', procs) BY <1>2, <1>3, <1>4, ProcsContinue DEF MovedTo
<1>8. SshJobOK(job', link, procs)
  BY <1>1, <1>2, <1>3 DEF SshJobOK, MovedTo, Connecting, Executing, SshProgress, Ahead, PromiseKept
<1>9. SshDiskOK(job', procs, disk) BY <1>1, <1>2, <1>4, DiskContinues DEF CleanedUp
<1>10. CASE UNCHANGED disk BY <1>1, <1>5, <1>8, <1>9, <1>10 DEF SshInv
<1>11. CASE job.kind = "composite" /\ disk' = [disk EXCEPT !.host = Absent]
  BY <1>11, <1>3, <1>9, <1>1, <1>5, <1>8 DEF SshDiskOK, SshDiskType, Bodies, CleanedUp, MovedTo, SshInv
<1> QED BY <1>10, <1>11 DEF CleanUpUpload

-----------------------------------------------------------------------------
(* Operations and calls begin and end.                                     *)

\* What is left of a call after its first operation.
LEMMA RestOfCall ==
    ASSUME NEW ops \in Seq(OperationType), ops # <<>>
    PROVE  /\ Len(ops) \in Nat \ {0} /\ Head(ops) = ops[1] /\ ops[1] \in OperationType
           /\ Tail(ops) \in Seq(OperationType)
           /\ \A w : NeededFrom(ops, 1, w) => Needed(ops[1], w) \/ NeededFrom(ops, 2, w)
           /\ \A w : NeededFrom(ops, 2, w) => Len(ops) # 1 /\ NeededFrom(Tail(ops), 1, w)
           /\ (\A k \in 1..Len(ops) : ops[k].failing = "ends")
                => \A k \in 1..Len(Tail(ops)) : Tail(ops)[k].failing = "ends"
<1>2. PICK t : t = Tail(ops) OBVIOUS
<1>3. t \in Seq(OperationType) /\ Len(t) = Len(ops) - 1 /\ \A k \in 1..Len(t) : t[k] = ops[k + 1] BY <1>2
<1>4. ASSUME NEW w, NeededFrom(ops, 1, w) PROVE Needed(ops[1], w) \/ NeededFrom(ops, 2, w) BY <1>4 DEF NeededFrom
<1>5. ASSUME NEW w, NeededFrom(ops, 2, w) PROVE Len(ops) # 1 /\ NeededFrom(t, 1, w)
  <2>1. PICK k \in 2..Len(ops) : Needed(ops[k], w) BY <1>5 DEF NeededFrom
  <2>2. PICK i \in Int : i = k - 1 OBVIOUS
  <2>3. i \in 1..Len(t) /\ k = i + 1 /\ Len(ops) # 1 BY <1>3, <2>2
  <2> QED BY <1>3, <2>1, <2>3 DEF NeededFrom
<1> QED BY <1>2, <1>4, <1>5

\* What every step that closes the session keeps.
LEMMA SessionCloses ==
    ASSUME SshInv, abortSession, disk' = disk, Continues(job, job'), job'.oks = job.oks,
           CleanedUp(job) => CleanedUp(job'), job'.at \in Connecting \cup Executing => RowOK(job', Quiet, procs'),
           job'.at \notin {"failed", "finish"}, job'.kind = "composite" => \A k \in 1..Len(job'.ops) : job'.ops[k].failing = "ends",
           \A w : w # "none" /\ w = Wanted(job.kind) /\ ~PromiseKept(job, procs, w) /\ job'.result = "ok" => Ahead(job', w)
    PROVE  SshInv'
<1>1. /\ job \in SshJobType /\ ProcsOK(job, procs) /\ SshJobOK(job, link, procs) /\ SshDiskOK(job, procs, disk)
      /\ procs \in Seq(ProcType) BY DEF SshInv, SshJobOK, ProcsOK
<1>2. link' = Quiet /\ Unmoved(procs, procs') BY AbortMoves
<1>5. Extended(procs, procs') /\ \A i \in 1..Len(procs') : ~(i > Len(procs)) BY <1>2 DEF Unmoved, Advanced
<1>7. SshProgress(job', procs')
  <2>1. \A w : PromiseKept(job, procs, w) => PromiseKept(job', procs', w)
    <3>2. \A w : PromiseKept(job, procs, w) => PromiseKept(job, procs', w) BY <1>1, <1>5, PromiseExtends DEF ProcsOK
    <3> QED BY <3>2 DEF PromiseKept
  <2> QED BY <2>1 DEF SshProgress, Continues
<1> QED
  BY <1>1, <1>2, <1>5, <1>7, ProcsContinue, ProcsExtend, DiskContinues, DiskUnmoved, QuietIsSilent DEF SshInv, Silent,
    LinkOK, Continues, SshJobOK

\* The next operation of the job.
LEMMA BeginHolds == ASSUME SshInv, beginOperation PROVE SshInv'
<1>1. job.at = "next" /\ job.ops # <<>> /\ abortSession /\ disk' = disk BY DEF beginOperation
<1>2. job \in SshJobType /\ job.ops \in Seq(OperationType) /\ SshJobOK(job, link, procs)
  BY DEF SshInv, SshJobOK, SshJobType
<1>3. PICK cmds : cmds = Head(job.ops).cmds OBVIOUS
<1>4. cmds \in CommandRows /\ cmds # <<>> /\ cmds = job.ops[1].cmds
  BY <1>1, <1>2, <1>3, RestOfCall DEF OperationType, FilledRows
<1>5. job' = [job EXCEPT !.at = "pin", !.cmds = cmds, !.error = "ok", !.again = FALSE, !.sent = FALSE, !.upload = "ok"]
  BY <1>3 DEF beginOperation
<1>6. /\ job' \in SshJobType /\ job'.at = "pin" /\ job'.cmds = cmds /\ job'.again = FALSE /\ job'.sent = FALSE
      /\ job'.kind = job.kind /\ job'.ops = job.ops /\ job'.result = job.result /\ job'.content = job.content
      /\ job'.oks = job.oks /\ job'.n = job.n BY <1>2, <1>4, <1>5 DEF SshJobType, SshErrors, Connecting
<1>9. ASSUME NEW w, w # "none", w = Wanted(job.kind), ~PromiseKept(job, procs, w), job.result = "ok" PROVE Ahead(job', w)
  BY <1>2, <1>9, <1>1, RestOfCall, <1>4, <1>6 DEF SshJobOK, SshProgress, Ahead, Connecting, Executing, Needed
<1> QED BY <1>1, <1>2, <1>4, <1>6, <1>9, SessionCloses DEF Continues, RowOK, SshJobOK, CleanedUp

\* The answer to the caller: all that the call promised has ended with success.
LEMMA FinishHolds == ASSUME SshInv, finishOperation PROVE SshInv'
<1>1. job.at = "finish" /\ abortSession /\ disk' = disk BY DEF finishOperation
<1>2. job \in SshJobType /\ job.ops \in Seq(OperationType) /\ job.ops # <<>> /\ SshJobOK(job, link, procs) /\ job.error \in SshErrors
  BY <1>1 DEF SshInv, SshJobOK, SshJobType
<1>3. PICK e \in SshErrors : e = IF job.error = "ok" THEN boundaryError("operation") ELSE job.error
  BY <1>2, BoundaryIsName
<1>4. PICK f : f = job.ops[1].failing OBVIOUS
<1>5. PICK over \in BOOLEAN : over = (e # "ok" /\ f = "ends") OBVIOUS
<1>6. PICK ops : ops = IF over THEN <<>> ELSE Tail(job.ops) OBVIOUS
<1>7. PICK r \in SshErrors : r = IF f = "ignored" \/ e = "ok" THEN job.result ELSE e BY <1>2 DEF SshJobType
<1>8. PICK at \in {"answered", "next"} : at = IF over \/ Len(job.ops) = 1 THEN "answered" ELSE "next" OBVIOUS
<1>9. job' = [job EXCEPT !.ops = ops, !.cmds = <<>>, !.result = r, !.at = at]
  BY <1>2, <1>3, <1>4, <1>5, <1>6, <1>7, <1>8, RestOfCall DEF finishOperation
<1>10. ops \in Seq(OperationType) /\ <<>> \in CommandRows BY <1>2, <1>6 DEF CommandRows, PutLast
<1>11. /\ job' \in SshJobType /\ job'.at = at /\ job'.ops = ops /\ job'.result = r
       /\ job'.kind = job.kind /\ job'.content = job.content /\ job'.oks = job.oks /\ job'.n = job.n
  BY <1>2, <1>8, <1>9, <1>10 DEF SshJobType
<1>13. ASSUME NEW w, w # "none", w = Wanted(job.kind), ~PromiseKept(job, procs, w), r = "ok" PROVE Ahead(job', w)
  <2>1. job.result = "ok" /\ ~over BY <1>5, <1>7, <1>13
  <2>2. Ahead(job, w) BY <1>2, <1>13, <2>1 DEF SshJobOK, SshProgress
  <2>3. NeededFrom(job.ops, 2, w) BY <1>1, <1>3, <1>4, <1>5, <2>1, <2>2 DEF Ahead, Connecting, Executing
  <2> QED BY <1>2, <1>6, <1>8, <1>11, <2>1, <2>3, RestOfCall DEF Ahead
<1>15. CleanedUp(job) => CleanedUp(job')
  <2>1. ASSUME CleanedUp(job) PROVE CleanedUp(job')
    <3>1. job.kind = "composite" /\ job.error # "ok" BY <1>1, <2>1 DEF CleanedUp
    <3>2. f = "ends" BY <1>2, <1>4, <3>1 DEF SshJobOK
    <3> QED BY <1>3, <1>5, <1>7, <1>8, <1>11, <3>1, <3>2 DEF CleanedUp
  <2> QED BY <2>1
<1> QED BY <1>1, <1>2, <1>6, <1>11, <1>13, <1>15, SessionCloses DEF Continues, SshJobOK, Connecting, Executing

\* A call of the session.
LEMMA CallHolds == ASSUME SshInv, CallSession PROVE SshInv'
<1>1. job.at = "idle" /\ UNCHANGED <<link, procs>> /\ disk' = [disk EXCEPT !.host = Absent, !.scratch = Absent]
  BY DEF CallSession
<1>2. /\ job \in SshJobType /\ LinkOK(link, procs) /\ ProcsOK(job, procs) /\ SshDiskOK(job, procs, disk)
      /\ disk \in SshDiskType /\ procs \in Seq(ProcType) BY DEF SshInv, SshJobOK, SshDiskOK, ProcsOK
<1>3. PICK kind \in DOMAIN Calls, c \in Contents :
        job' = [NoSshJob EXCEPT !.kind = kind, !.at = "next", !.ops = Calls[kind], !.content = c, !.n = job.n + 1]
  BY DEF CallSession
<1>4. PICK ops : ops = Calls[kind] OBVIOUS
<1>5. PICK n \in Nat : n = job.n + 1 BY <1>2 DEF SshJobType
<1>6. kind \in SshKinds /\ CallOK(kind, ops) BY <1>4, CallsOK
<1>7. c \in Bodies /\ ops \in Seq(OperationType) BY <1>6 DEF Bodies, CallOK
<1>8. job' = [NoSshJob EXCEPT !.kind = kind, !.at = "next", !.ops = ops, !.content = c, !.n = n] BY <1>3, <1>4, <1>5
<1>9. /\ job' \in SshJobType /\ job'.kind = kind /\ job'.at = "next" /\ job'.ops = ops /\ job'.oks = {} /\ job'.n = n
  <2>2. <<>> \in CommandRows BY DEF CommandRows, PutLast
  <2> QED BY <1>6, <1>7, <1>8, <2>2 DEF NoSshJob, SshJobType, SshErrors
<1>10. \A i \in 1..Len(procs) : procs[i].n < n BY <1>2, <1>5 DEF ProcsOK, ProcType, ProcRecord, SshJobType
<1>14. disk' \in SshDiskType BY <1>1, <1>2 DEF SshDiskType, Bodies
<1> QED
  BY <1>1, <1>6, <1>9, <1>10, <1>14 DEF SshInv, ProcsOK, CallOK, Ahead, SshProgress, SshJobOK, Connecting, Executing,
    SshKinds, SshDiskOK, ProcType, ProcRecord

\* The caller takes the answer.
LEMMA AnswerHolds == ASSUME SshInv, TakeAnswer PROVE SshInv'
<1>2. /\ job \in SshJobType /\ LinkOK(link, procs) /\ ProcsOK(job, procs) /\ SshDiskOK(job, procs, disk)
  BY DEF SshInv, SshJobOK
<1>3. PICK n \in Nat : n = job.n BY <1>2 DEF SshJobType
<1>4. job' = [NoSshJob EXCEPT !.n = n] BY <1>3 DEF TakeAnswer
<1>5. job' \in SshJobType /\ job'.kind = "none" /\ job'.at = "idle" /\ job'.oks = {} /\ job'.n = n
  <2>1. <<>> \in Seq(SshCommands) /\ <<>> \in Seq(OperationType) /\ Len(<<>>) = 0 OBVIOUS
  <2>2. <<>> \in CommandRows BY DEF CommandRows, PutLast
  <2> QED BY <1>4, <2>1, <2>2 DEF NoSshJob, SshJobType, SshErrors, Bodies
<1> QED BY <1>5 DEF SshInv, TakeAnswer, ProcsOK, SshProgress, Wanted, SshJobOK, Connecting, Executing, SshDiskOK

-----------------------------------------------------------------------------
(* The server and the connection.                                          *)

\* A step that leaves the job alone and moves no process.
LEMMA EnvironmentHolds ==
    ASSUME SshInv, cancelCurrentOperation \/ TimePasses \/ ContainerRemoved PROVE SshInv'
<1>1. UNCHANGED <<link, job, procs>> /\ (disk' = disk \/ disk' = [disk EXCEPT !.exists = FALSE])
  BY DEF cancelCurrentOperation, TimePasses, ContainerRemoved
<1>2. disk' \in SshDiskType /\ disk'.host = disk.host /\ disk'.file = disk.file
  BY <1>1 DEF SshInv, SshDiskOK, SshDiskType
<1> QED BY <1>1, <1>2 DEF SshInv, SshDiskOK

\* The connection drops.
LEMMA DropHolds == ASSUME SshInv, ConnectionDrops PROVE SshInv'
<1>1. /\ link' = [link EXCEPT !.up = FALSE, !.wire = <<>>] /\ procs' = CutAt(procs, link.channel)
      /\ UNCHANGED <<job, disk>> BY DEF ConnectionDrops, CutAt
<1>2. /\ job \in SshJobType /\ LinkOK(link, procs) /\ link \in LinkType /\ ProcsOK(job, procs)
      /\ SshJobOK(job, link, procs) /\ SshDiskOK(job, procs, disk) /\ procs \in Seq(ProcType)
  BY DEF SshInv, SshJobOK, LinkOK, ProcsOK
<1>3. Unmoved(procs, procs') BY <1>1, <1>2, CutMovesNothing
<1>4. PICK e : e = <<>> /\ e \in Seq(WireMessages) /\ Len(e) = 0
  <2>1. <<>> \in Seq(WireMessages) /\ Len(<<>>) = 0 OBVIOUS
  <2> QED BY <2>1
<1>5. /\ link' \in LinkType /\ link'.channel = link.channel /\ link'.got = link.got /\ link'.unread = link.unread
      /\ link'.status = link.status /\ link'.wire = e BY <1>1, <1>2, <1>4 DEF LinkType
<1>7. LinkOK(link', procs') BY <1>2, <1>3, <1>4, <1>5, LinkLoses, LinkAdvances DEF Unmoved, Wired
<1>8. SshJobOK(job, link', procs') BY <1>2, <1>3, <1>5, JobAdvances DEF Unmoved
<1> QED BY <1>1, <1>2, <1>3, <1>7, <1>8, DiskUnmoved, ProcsExtend DEF SshInv, Unmoved, Advanced

\* A message of the server arrives.
LEMMA ReceiveHolds == ASSUME SshInv, Receive PROVE SshInv'
<1>1. link.wire # <<>> /\ UNCHANGED <<job, procs, disk>> BY DEF Receive
<1>2. /\ LinkOK(link, procs) /\ link \in LinkType /\ ProcsOK(job, procs) /\ SshJobOK(job, link, procs)
      /\ SshDiskOK(job, procs, disk) /\ procs \in Seq(ProcType) /\ link.wire \in Seq(WireMessages)
  BY DEF SshInv, LinkOK, LinkType, ProcsOK
<1>3. PICK m \in WireMessages : m = Head(link.wire) /\ m = link.wire[1] BY <1>1, <1>2
<1>4. PICK w : w = Tail(link.wire) OBVIOUS
<1>5. /\ w \in Seq(WireMessages) /\ Len(w) = Len(link.wire) - 1 /\ Len(link.wire) \in Nat /\ Len(link.wire) >= 1
      /\ \A k \in 1..Len(w) : w[k] = link.wire[k + 1] BY <1>1, <1>2, <1>4
<1>6. PICK rest : rest = [link EXCEPT !.wire = w] OBVIOUS
<1>7. /\ rest \in LinkType /\ rest.channel = link.channel /\ rest.got = link.got /\ rest.unread = link.unread
      /\ rest.status = link.status /\ rest.wire = w BY <1>2, <1>5, <1>6 DEF LinkType
<1>9. /\ link' \in LinkType /\ link'.channel = link.channel /\ link'.got = link.got /\ link'.wire = w
      /\ link'.unread = link.unread \/ link'.unread = link.unread \cup {m}
      /\ link'.status = link.status \/ link'.status = m
  <2>1. CASE m \in Chunks /\ link' = [rest EXCEPT !.unread = @ \cup {m}] BY <1>7, <2>1 DEF LinkType
  <2>2. CASE link' = [rest EXCEPT !.eof = TRUE] BY <1>7, <2>2 DEF LinkType
  <2>3. CASE link' = [rest EXCEPT !.closed = TRUE] BY <1>7, <2>3 DEF LinkType
  <2>4. CASE m \in {"zero", "one"} /\ link' = [rest EXCEPT !.status = m] BY <1>7, <2>4 DEF LinkType
  <2> QED BY <1>3, <1>4, <1>6, <2>1, <2>2, <2>3, <2>4 DEF Receive, WireMessages, Chunks
<1>12. Wired(link') => Wired(link) BY <1>3, <1>5, <1>9 DEF Wired
<1> QED BY <1>1, <1>2, <1>9, <1>12, JobAdvances, NothingMoves, LinkLoses DEF SshInv, Unmoved

\* Output comes before everything else, and all of it comes.
InOrder(w) == \A a \in 1..Len(w), b \in 1..Len(w) : a < b /\ w[b] \in Chunks => w[a] \in Chunks
Within(x, w) == \E k \in 1..Len(w) : w[k] = x

\* What a process that ended sends.
LEMMA MessagesSent ==
    ASSUME NEW code \in {"none", "zero", "one"}, NEW prints,
           IF code = "zero" THEN prints \in {{"out"}, Chunks} ELSE prints = {}, NEW m \in Messages(prints, code)
    PROVE  /\ m \in Seq(WireMessages) /\ (code # "zero" => \A k \in 1..Len(m) : m[k] \notin {"out", "zero"})
           /\ InOrder(m) /\ \A x \in prints : Within(x, m)
<1>1. PICK d \in {<<>>, <<"out">>, <<"out", "more", "err">>},
           t \in {<<"eof", "closed">>, <<code, "eof", "closed">>, <<"eof", code, "closed">>} :
        /\ m = d \o t /\ (code # "zero" => d = <<>>) /\ (t = <<"eof", "closed">> \/ code # "none")
        /\ d = IF prints = {} THEN <<>> ELSE IF prints = {"out"} THEN <<"out">> ELSE <<"out", "more", "err">>
  BY DEF Messages, Chunks
<1>2. d \in Seq(Chunks) /\ \A x \in prints : Within(x, d)
  <2>2. CASE d = <<"out">>
    <3>2. prints \subseteq {"out"}
      <4>1. <<"out", "more", "err">> # <<"out">> OBVIOUS
      <4> QED BY <1>1, <2>2, <4>1
    <3> QED BY <2>2, <3>2 DEF Within, Chunks
  <2>3. CASE d = <<"out", "more", "err">> BY <2>3 DEF Chunks, Within
  <2> QED BY <1>1, <2>2, <2>3
<1>3. t \in Seq(WireMessages) /\ \A k \in 1..Len(t) : t[k] \notin Chunks /\ (code # "zero" => t[k] # "zero")
  <2>1. CASE t = <<"eof", "closed">> BY <2>1 DEF WireMessages, Chunks
  <2>2. CASE t = <<"zero", "eof", "closed">> /\ code = "zero" BY <2>2 DEF WireMessages, Chunks
  <2>3. CASE t = <<"one", "eof", "closed">> /\ code = "one" BY <2>3 DEF WireMessages, Chunks
  <2>4. CASE t = <<"eof", "zero", "closed">> /\ code = "zero" BY <2>4 DEF WireMessages, Chunks
  <2>5. CASE t = <<"eof", "one", "closed">> /\ code = "one" BY <2>5 DEF WireMessages, Chunks
  <2> QED BY <1>1, <2>1, <2>2, <2>3, <2>4, <2>5
<1>4. /\ m \in Seq(WireMessages) /\ Len(m) = Len(d) + Len(t) /\ Len(d) \in Nat /\ Len(t) \in Nat
      /\ \A k \in 1..Len(d) : m[k] = d[k] /\ d[k] \in Chunks
      /\ \A k \in 1..Len(t) : m[Len(d) + k] = t[k]
  <2>1. d \in Seq(WireMessages) BY <1>2 DEF WireMessages
  <2> QED BY <1>1, <1>2, <1>3, <2>1
<1>5. \A k \in 1..Len(m) : k \in 1..Len(d) \/ \E i \in 1..Len(t) : k = Len(d) + i /\ m[k] = t[i]
  <2> TAKE k \in 1..Len(m)
  <2>1. CASE k > Len(d)
    <3> DEFINE i == k - Len(d)
    <3>2. i \in 1..Len(t) /\ k = Len(d) + i BY <1>4, <2>1
    <3> QED BY <1>4, <3>2
  <2> QED BY <2>1
<1>6. InOrder(m)
  <2>1. \A k \in 1..Len(m) : m[k] \in Chunks <=> k \in 1..Len(d)
    <3>1. ASSUME NEW k \in 1..Len(m), m[k] \in Chunks, k \notin 1..Len(d) PROVE FALSE
      <4>1. PICK i \in 1..Len(t) : m[k] = t[i] BY <1>5, <3>1
      <4> QED BY <1>3, <3>1, <4>1
    <3> QED BY <1>4, <3>1
  <2> QED BY <2>1 DEF InOrder
<1>8. code # "zero" => \A k \in 1..Len(m) : m[k] \notin {"out", "zero"} BY <1>1 DEF Chunks
<1> QED BY <1>2, <1>4, <1>6, <1>8 DEF Within

\* What the end of a process changes on the disk.
LEMMA EffectIs ==
    ASSUME NEW p \in ProcType, disk \in SshDiskType
    PROVE  /\ Effect(p) \in SshDiskType
           /\ Effect(p).host = IF p.cmd = "put" /\ p.n = job.n THEN p.content ELSE disk.host
           /\ Effect(p).file = IF p.cmd = "cp" THEN {p.content}
                               ELSE IF p.cmd = "cat" THEN disk.file \cup {p.content} ELSE disk.file
<1>1. p.content \in Bodies BY DEF ProcType, ProcRecord
<1>2. CASE p.cmd = "put" /\ p.n = job.n BY <1>1 DEF Effect, SshDiskType
<1>3. CASE p.cmd = "cp" BY <1>1 DEF Effect, SshDiskType
<1>4. CASE p.cmd = "cpTemporary" BY <1>1 DEF Effect, SshDiskType
<1>5. CASE p.cmd = "cat" BY <1>1 DEF Effect, SshDiskType
<1>6. CASE ~(p.cmd = "put" /\ p.n = job.n) /\ p.cmd \notin {"cp", "cpTemporary", "cat"} BY <1>6 DEF Effect
<1> QED BY <1>2, <1>3, <1>4, <1>5, <1>6

\* A process that ended: what it is now.
EndedAs(p, q, code, n) ==
    /\ q \in ProcType /\ q.cmd = p.cmd /\ q.n = p.n /\ q.content = p.content
    /\ q.at = "end" /\ q.code = code /\ q.during = n

EndsAt(ps, i, q, code, n) == EndedAs(ps[i], q, code, n) /\ ~Ended(ps[i])
WithEnded(ps, i, q) == [ps EXCEPT ![i] = q]
EndedOnly(ps, qs, i, q) == Advanced(ps, qs) /\ qs[i] = q /\ \A k \in 1..Len(ps) : k # i => qs[k] = ps[k]
\* A process that ends is the only one to move.
LEMMA EndMoves ==
    ASSUME NEW ps \in Seq(ProcType), NEW i \in 1..Len(ps), NEW q, NEW code, NEW n, EndsAt(ps, i, q, code, n)
    PROVE  EndedOnly(ps, WithEnded(ps, i, q), i, q)
<1> DEFINE qs == WithEnded(ps, i, q)
<1> HIDE DEF qs
<1> QED BY DEF EndedOnly, Advanced, Extended, EndsAt, EndedAs, WithEnded

\* A process of the running call leaves what the call wants; one of an earlier
\* call can only overtake it.
LEMMA DiskAfterEnd ==
    ASSUME NEW ps \in Seq(ProcType), NEW i \in 1..Len(ps), NEW q, NEW qs, NEW code, NEW d,
           EndedAs(ps[i], q, code, job.n), ps[i].at = "run",
           ProcsOK(job, ps), SshDiskOK(job, ps, disk), qs[i] = q, Len(qs) = Len(ps),
           \A k \in 1..Len(ps) : k # i => qs[k] = ps[k],
           code = "zero" => d = Effect(ps[i]) /\ Possible(ps[i]),
           code # "zero" => d = disk \/ (d = Effect(ps[i]) /\ ps[i].cmd = "put")
    PROVE  SshDiskOK(job, qs, d)
<1>1. PICK p \in ProcType : p = ps[i] OBVIOUS
<1>2. disk \in SshDiskType /\ Len(ps) \in Nat BY DEF SshDiskOK
<1>3. /\ Effect(p) \in SshDiskType
      /\ Effect(p).host = IF p.cmd = "put" /\ p.n = job.n THEN p.content ELSE disk.host
      /\ Effect(p).file = IF p.cmd = "cp" THEN {p.content}
                          ELSE IF p.cmd = "cat" THEN disk.file \cup {p.content} ELSE disk.file BY <1>2, EffectIs
<1>9. ASSUME NEW k \in 1..Len(qs), Ended(qs[k]), qs[k].n = job.n, job.at # "idle"
      PROVE  /\ qs[k].cmd \in {"put", "verify"} /\ ~CleanedUp(job) => d.host = job.content
             /\ qs[k].cmd \in {"cp", "cat"} => job.content \in d.file \/ OvertakenBy(job, qs)
  BY <1>1, <1>3, <1>9 DEF Ended, EndedAs, Possible, SshDiskOK, ProcsOK, OvertakenBy, ProcType
<1> QED BY <1>1, <1>3, <1>9 DEF SshDiskOK

\* A process ends with a code, having printed what it prints.
EndsSo(i, code, prints) ==
    /\ procs[i].at = "run" /\ (IF code = "zero" THEN prints \in {{"out"}, Chunks} ELSE prints = {})
    /\ code = "zero" => disk' = Effect(procs[i]) /\ Possible(procs[i])
    /\ code # "zero" => disk' = disk \/ (disk' = Effect(procs[i]) /\ procs[i].cmd = "put")
    /\ procs' = [procs EXCEPT ![i].at = "end", ![i].code = code, ![i].prints = prints, ![i].during = job.n]
    /\ \E m \in Messages(prints, code) : Hears(i, m)
    /\ UNCHANGED job
\* How a process of the server ends.
LEMMA RemoteEndsSo ==
    ASSUME SshInv, RemoteEnds
    PROVE  \E i \in 1..Len(procs), code \in {"none", "zero", "one"}, prints \in SUBSET Chunks : EndsSo(i, code, prints)
<1>1. DOMAIN procs = 1..Len(procs) OBVIOUS
<1>2. PICK i \in DOMAIN procs, outcome \in {"done", "refused", "killed", "unsynced"} :
    LET p == procs[i]
        code == CASE outcome = "done" -> "zero" [] outcome = "killed" -> "none" [] OTHER -> "one"
        prints == IF outcome = "done" THEN Output(p.cmd) ELSE {}
    IN  /\ p.at = "run" /\ p.input # "open"
        /\ outcome = "done" => Possible(p)
        /\ outcome = "refused" => ~Possible(p) \/ p.cmd \in {"line", "shell", "run"}
        /\ outcome = "unsynced" => Possible(p) /\ p.cmd = "put"
        /\ outcome = "killed" => trouble.drops < MaxDrops
        /\ trouble' = IF outcome = "killed" THEN [trouble EXCEPT !.drops = @ + 1] ELSE trouble
        /\ disk' = IF outcome \in {"done", "unsynced"} THEN Effect(p) ELSE disk
        /\ procs' = [procs EXCEPT ![i].at = "end", ![i].code = code, ![i].prints = prints,
                                 ![i].during = job.n]
        /\ \E m \in Messages(prints, code) : Hears(i, m)
        /\ UNCHANGED <<operation, job>> BY Zenon DEF RemoteEnds
<1>3. PICK code : code = CASE outcome = "done" -> "zero" [] outcome = "killed" -> "none" [] OTHER -> "one" OBVIOUS
<1>4. PICK prints : prints = IF outcome = "done" THEN Output(procs[i].cmd) ELSE {} OBVIOUS
<1>5. /\ code \in {"none", "zero", "one"} /\ prints \in SUBSET Chunks /\ (code = "zero" <=> outcome = "done")
      /\ IF code = "zero" THEN prints \in {{"out"}, Chunks} ELSE prints = {} BY <1>3, <1>4 DEF Output, Chunks
<1>6. /\ procs' = [procs EXCEPT ![i].at = "end", ![i].code = code, ![i].prints = prints, ![i].during = job.n]
      /\ \E m \in Messages(prints, code) : Hears(i, m) BY <1>2, <1>3, <1>4
<1> QED BY <1>1, <1>2, <1>5, <1>6 DEF EndsSo

\* A process of the server ends, and changes the disk as its command says.
LEMMA RemoteHolds == ASSUME SshInv, RemoteEnds PROVE SshInv'
<1>1. /\ job \in SshJobType /\ LinkOK(link, procs) /\ link \in LinkType /\ ProcsOK(job, procs)
      /\ SshJobOK(job, link, procs) /\ SshDiskOK(job, procs, disk) /\ procs \in Seq(ProcType) /\ job.n \in Nat
  BY DEF SshInv, SshJobOK, LinkOK, ProcsOK, SshJobType
<1>2. PICK i \in 1..Len(procs), code \in {"none", "zero", "one"}, prints \in SUBSET Chunks : EndsSo(i, code, prints)
  BY RemoteEndsSo
<1>14. /\ procs[i].at = "run" /\ (IF code = "zero" THEN prints \in {{"out"}, Chunks} ELSE prints = {})
       /\ code = "zero" => disk' = Effect(procs[i]) /\ Possible(procs[i])
       /\ code # "zero" => disk' = disk \/ (disk' = Effect(procs[i]) /\ procs[i].cmd = "put")
       /\ procs' = [procs EXCEPT ![i].at = "end", ![i].code = code, ![i].prints = prints, ![i].during = job.n]
       /\ \E m \in Messages(prints, code) : Hears(i, m)
       /\ UNCHANGED job BY <1>2 DEF EndsSo
<1>3. PICK p \in ProcType : p = procs[i] BY <1>1
<1>4. PICK q : q = [p EXCEPT !.at = "end", !.code = code, !.prints = prints, !.during = job.n] OBVIOUS
<1>5. EndedAs(p, q, code, job.n) BY <1>1, <1>4 DEF EndedAs, ProcType, ProcRecord
<1>6. procs' = [procs EXCEPT ![i] = q] BY <1>1, <1>14, <1>3, <1>4
<1>8. Advanced(procs, procs') /\ procs'[i] = q /\ \A k \in 1..Len(procs) : k # i => procs'[k] = procs[k]
  <2>1. EndsAt(procs, i, q, code, job.n) BY <1>14, <1>3, <1>5 DEF EndsAt, Ended
  <2>5. EndedOnly(procs, WithEnded(procs, i, q), i, q) BY <1>1, <2>1, EndMoves
  <2> QED BY <1>6, <2>5 DEF EndedOnly, WithEnded
<1>9. SshDiskOK(job, procs', disk') BY <1>1, <1>14, <1>3, <1>5, <1>8, DiskAfterEnd DEF Advanced
<1>10. ProcsOK(job, procs') BY <1>1, <1>8, ProcsExtend DEF Advanced
<1>11. LinkOK(link, procs') BY <1>1, <1>8, LinkAdvances
<1>12. LinkOK(link', procs') /\ link'.got = link.got /\ link'.channel = link.channel
  <2>1. CASE link' = link BY <1>11, <2>1
  <2>2. CASE i = link.channel /\ \E m \in Messages(prints, code) : link' = [link EXCEPT !.wire = m]
    <3>1. PICK m \in Messages(prints, code) : link' = [link EXCEPT !.wire = m] BY <2>2
    <3>2. m \in Seq(WireMessages) /\ (code # "zero" => \A k \in 1..Len(m) : m[k] \notin {"out", "zero"})
      BY <1>14, MessagesSent
    <3>3. /\ link' \in LinkType /\ link'.channel = link.channel /\ link'.got = link.got /\ link'.unread = link.unread
          /\ link'.status = link.status /\ link'.wire = m BY <1>1, <3>1, <3>2 DEF LinkType
    <3>4. CASE code = "zero"
      <4>2. LastEnded(procs') BY <1>1, <1>14, <2>2, <3>4 DEF LastEnded, Ended, EndedAs, LinkOK
      <4> QED BY <1>11, <3>3, <4>2 DEF LinkOK
    <3>5. CASE code # "zero" BY <3>2, <3>3, <3>5, <1>11, LinkLoses DEF Wired
    <3> QED BY <3>4, <3>5
  <2> QED BY <1>14, <2>1, <2>2 DEF Hears
<1> QED BY <1>14, <1>8, <1>9, <1>10, <1>12, JobAdvances DEF SshInv

\* Every step of the transport.
LEMMA SshStepHolds == ASSUME SshInv, SshStep PROVE SshInv'
BY ConnectHolds, ExecuteHolds, OpenHolds, PumpHolds, CloseHolds, AfterCommandHolds, AfterUploadHolds,
  AfterReconcileHolds, CleanUpHolds, BeginHolds, FinishHolds, CallHolds, AnswerHolds, EnvironmentHolds, DropHolds,
  ReceiveHolds, RemoteHolds DEF SshStep, ClientSide, ServerSide

-----------------------------------------------------------------------------
(* What was read.                                                          *)

\* While the connection is up, the output of the channel's process has been
\* read, waits to be read or is on the wire, none of it behind the end of the
\* channel; a drained stream has none that waits.
Flowing(l, ps) ==
    l.channel # 0 /\ l.up =>
      /\ ps[l.channel].at = "run" => l.wire = <<>> /\ ~l.eof /\ ~l.closed
      /\ InOrder(l.wire) /\ (l.eof \/ l.closed => \A k \in 1..Len(l.wire) : l.wire[k] \notin Chunks)
      /\ (l.seen => l.eof \/ l.closed) /\ (l.drained # {} => l.seen)
      /\ l.drained \cap StreamsWaiting(l.unread) = {}
      /\ \A x \in ps[l.channel].prints : x \in l.got \/ x \in l.unread \/ Within(x, l.wire)
\* A command taken for a success had all its output read.
ReadOut(j, l, ps) ==
    j.at \in {"close", "ran"} /\ j.error = "ok" => ps[Len(ps)].prints \subseteq l.got
HeardInv == Flowing(link, procs) /\ ReadOut(job, link, procs)

\* A step that takes no command for a success keeps what was read when it keeps
\* the link and its process, or leaves no channel.
LEMMA HeardStays ==
    ASSUME HeardInv, job'.at \notin {"close", "ran"} \/ job'.error # "ok",
           UNCHANGED <<link, procs>> \/ link'.channel = 0
    PROVE  HeardInv'
BY DEF HeardInv, Flowing, ReadOut

\* A turn of the pump reads what waits; it reports success only when nothing does.
LEMMA PumpHears ==
    ASSUME SshInv, HeardInv, job.at = "pump", link.up, Pumped, UNCHANGED procs
    PROVE  HeardInv'
<1>1. /\ link \in LinkType /\ job \in SshJobType /\ link.channel # 0 /\ link.channel = Len(procs)
  BY DEF SshInv, LinkOK, SshJobOK, RowOK, Executing
<1>2. PICK l : l = [ReadChunks EXCEPT !.seen = link.eof \/ link.closed] OBVIOUS
<1>3. /\ link' = l
      /\ \/ UNCHANGED job
         \/ exitState(l) = "success" /\ FinishChannel("ok")
         \/ FinishChannel("checkFailed") BY <1>2 DEF Pumped
<1>4. /\ l.up = link.up /\ l.channel = link.channel /\ l.eof = link.eof /\ l.closed = link.closed /\ l.wire = link.wire
      /\ l.got = link.got \cup NextChunks(link.unread) /\ l.unread = link.unread \ NextChunks(link.unread)
      /\ l.seen = (link.eof \/ link.closed)
      /\ l.drained = IF link.seen THEN {"out", "err"} \ StreamsWaiting(link.unread)
                     ELSE link.drained \ StreamsWaiting(link.unread) BY <1>1, <1>2 DEF ReadChunks, LinkType
<1>6. Flowing(l, procs)
  <2>1. l.drained \cap StreamsWaiting(l.unread) = {} BY <1>4 DEF StreamsWaiting
  <2>2. l.drained # {} => l.seen BY <1>1, <1>4 DEF HeardInv, Flowing
  <2>3. \A x \in procs[l.channel].prints : x \in l.got \/ x \in l.unread \/ Within(x, l.wire)
    BY <1>1, <1>4 DEF HeardInv, Flowing
  <2> QED BY <1>1, <1>4, <2>1, <2>2, <2>3 DEF HeardInv, Flowing
<1>7. ASSUME exitState(l) = "success" PROVE procs[Len(procs)].prints \subseteq l.got
  <2>1. (l.eof \/ l.closed) /\ l.drained = {"out", "err"} BY <1>7 DEF exitState
  <2>3. StreamsWaiting(l.unread) = {} BY <1>1, <1>4, <1>6, <2>1 DEF Flowing, StreamsWaiting
  <2>4. l.unread = {} BY <1>1, <1>4, <2>3 DEF StreamsWaiting, Chunks, LinkType
  <2>6. procs[Len(procs)] \in ProcType BY <1>1 DEF SshInv, ProcsOK
  <2> QED BY <1>1, <1>4, <1>6, <2>1, <2>4, <2>6 DEF Flowing, ProcType, ProcRecord, Within
<1>8. job' = job \/ (job'.at = "close" /\ job'.error = "ok" /\ exitState(l) = "success") \/ job'.error = "checkFailed"
  BY <1>1, <1>3 DEF FinishChannel, SshJobType
<1> QED BY <1>3, <1>6, <1>7, <1>8 DEF HeardInv, ReadOut

\* Cutting or writing the input of a process changes nothing it prints.
LEMMA InputPrintsNothing ==
    ASSUME NEW ps \in Seq(ProcType), NEW c
    PROVE  \A i \in 1..Len(ps) : CutAt(ps, c)[i].prints = ps[i].prints /\ CutAt(ps, c)[i].at = ps[i].at
BY DEF CutAt, Cut

\* The same processes, with the same output, on a link that has read as much.
LEMMA HeardFromSame ==
    ASSUME SshInv, HeardInv, Len(procs') = Len(procs), link'.got = link.got,
           \A i \in 1..Len(procs) : procs'[i].prints = procs[i].prints /\ procs'[i].at = procs[i].at,
           job' = job \/ (job.at = "close" /\ job.error = job'.error) \/ job'.error # "ok",
           link' = link \/ ~link'.up \/ link'.channel = 0
    PROVE  HeardInv'
<1>1. procs \in Seq(ProcType) /\ Len(procs) \in Nat /\ link \in LinkType /\ (link.channel # 0 => link.channel \in 1..Len(procs))
  BY DEF SshInv, ProcsOK, LinkOK
<1> QED BY <1>1 DEF HeardInv, Flowing, ReadOut

\* Connecting leaves no channel, or the one there was.
LEMMA ConnectHears == ASSUME SshInv, HeardInv, connectToHost PROVE HeardInv'
<1>2. ASSUME NEW at, NEW next \in Connecting, NEW error, error # "ok", NEW connected,
             connected = link \/ connected.channel = 0, Phase(at, next, error, connected)
      PROVE  HeardInv'
  <2>1. ASSUME NEW e, e # "ok", ConnectFailed(e) PROVE HeardInv'
    BY <2>1, HeardStays, QuietIsSilent DEF ConnectFailed, abortSession, SshFailed
  <2>2. ASSUME link' = connected, To(next), UNCHANGED procs PROVE HeardInv'
    BY <2>2, <1>2, HeardStays DEF To, Connecting
  <2> QED BY <1>2, <2>1, <2>2 DEF Phase
<1>3. CASE Dial
  <2>1. PICK c : c = [Quiet EXCEPT !.session = TRUE, !.up = TRUE] OBVIOUS
  <2>2. Phase("dial", "hostKey", "transport", c) BY <1>3, <2>1 DEF Dial
  <2>3. Bare(c, 0, {}) BY <2>1, QuietLinks
  <2> QED BY <1>2, <2>2, <2>3 DEF Connecting, Bare
<1>4. CASE ResolvePin \/ resolveHostName \/ verifyServerHostKey \/ Authenticate
  BY <1>2, <1>4 DEF ResolvePin, resolveHostName, verifyServerHostKey, Authenticate, Connecting
<1> QED BY <1>3, <1>4 DEF connectToHost

\* Between the commands, and between the operations, none is taken for a success.
LEMMA RowHears ==
    ASSUME SshInv, HeardInv,
           \/ SnapshotUpload \/ ExecuteCommand \/ AfterCommand \/ AfterUpload \/ AfterReconcile \/ CleanUpUpload
           \/ beginOperation \/ finishOperation \/ CallSession \/ TakeAnswer
    PROVE  HeardInv'
<1>1. job \in SshJobType BY DEF SshInv, SshJobOK
<1>2. CASE SnapshotUpload \/ ExecuteCommand
  BY <1>1, <1>2, HeardStays DEF SnapshotUpload, ExecuteCommand, SshFailed, To, SshJobType
<1>3. CASE AfterCommand \/ AfterUpload \/ AfterReconcile \/ CleanUpUpload
  BY <1>1, <1>3, HeardStays, QuietIsSilent DEF AfterCommand, AfterUpload, AfterReconcile, CleanUpUpload, NextCommand,
    To, abortSession, SshJobType
<1>4. CASE beginOperation \/ finishOperation
  BY <1>1, <1>4, HeardStays, QuietIsSilent DEF beginOperation, finishOperation, abortSession, SshJobType
<1>5. CASE CallSession \/ TakeAnswer BY <1>5, HeardStays DEF CallSession, TakeAnswer, NoSshJob
<1> QED BY <1>2, <1>3, <1>4, <1>5

\* A channel opens for a process that has printed nothing.
LEMMA OpenHears == ASSUME SshInv, HeardInv, OpenChannel PROVE HeardInv'
<1>2. CASE UNCHANGED <<link, procs>> /\ \E e : e # "ok" /\ FinishChannel(e) BY <1>2, HeardStays DEF FinishChannel
<1>3. CASE /\ procs' = Append(procs, SshStarted)
           /\ link' = [Quiet EXCEPT !.session = TRUE, !.up = TRUE, !.channel = Len(procs) + 1]
           /\ job' = [job EXCEPT !.at = "pump", !.sent = @ \/ Command = "put"]
  BY <1>3 DEF SshStarted, Quiet, HeardInv, Flowing, ReadOut, InOrder
<1> QED BY <1>2, <1>3 DEF OpenChannel

\* The pump, and the closing of the channel after it.
LEMMA ChannelHears == ASSUME SshInv, HeardInv, Pump \/ closeChannel PROVE HeardInv'
<1>1. job \in SshJobType /\ procs \in Seq(ProcType) /\ Len(procs) \in Nat /\ link \in LinkType
  BY DEF SshInv, SshJobOK, ProcsOK, LinkOK
<1>2. CASE UNCHANGED <<link, procs>> /\ \E e : e # "ok" /\ FinishChannel(e) BY <1>2, HeardStays DEF FinishChannel
<1>3. CASE job.at = "pump" /\ link.up /\ Pumped /\ UNCHANGED procs BY <1>3, PumpHears
<1>4. CASE WriteInput /\ UNCHANGED <<link, job>> BY <1>4, HeardFromSame DEF WriteInput
<1>5. CASE closeChannel
  <2>1. /\ link' = [Quiet EXCEPT !.session = link.session, !.up = link.up, !.got = link.got]
           \/ link' = [Quiet EXCEPT !.got = link.got]
        /\ procs' = CutAt(procs, link.channel) /\ job.at = "close" BY <1>5 DEF closeChannel, CutAt
  <2>2. link'.channel = 0 /\ link'.got = link.got BY <2>1 DEF Quiet
  <2> QED BY <1>1, <1>5, <2>1, <2>2, InputPrintsNothing, HeardFromSame DEF closeChannel, SshFailed
<1> QED BY <1>2, <1>3, <1>4, <1>5 DEF Pump

\* The connection drops, or a message is taken off the wire.
LEMMA WireHears == ASSUME SshInv, HeardInv, ConnectionDrops \/ Receive PROVE HeardInv'
<1>1. /\ procs \in Seq(ProcType) /\ Len(procs) \in Nat /\ link \in LinkType /\ link.wire \in Seq(WireMessages)
  BY DEF SshInv, ProcsOK, LinkOK, LinkType
<1>2. CASE ConnectionDrops
  <2>1. /\ link' = [link EXCEPT !.up = FALSE, !.wire = <<>>] /\ procs' = CutAt(procs, link.channel)
        /\ UNCHANGED job BY <1>2 DEF ConnectionDrops, CutAt
  <2> QED BY <1>1, <2>1, CutMovesNothing, InputPrintsNothing, HeardFromSame DEF Unmoved, Advanced
<1>3. CASE Receive
  <2>1. link.wire # <<>> /\ link.up /\ UNCHANGED <<job, procs>> BY <1>3 DEF Receive
  <2>2. PICK m \in WireMessages : m = Head(link.wire) /\ m = link.wire[1] BY <1>1, <2>1
  <2>3. PICK w : w = Tail(link.wire) OBVIOUS
  <2>4. /\ w \in Seq(WireMessages) /\ Len(w) = Len(link.wire) - 1 /\ Len(link.wire) \in Nat /\ Len(link.wire) >= 1
        /\ \A k \in 1..Len(w) : w[k] = link.wire[k + 1] /\ k + 1 \in 1..Len(link.wire) BY <1>1, <2>1, <2>3
  <2>5. PICK rest : rest = [link EXCEPT !.wire = w] OBVIOUS
  <2>6. /\ rest.channel = link.channel /\ rest.up = link.up /\ rest.got = link.got /\ rest.unread = link.unread
        /\ rest.eof = link.eof /\ rest.closed = link.closed /\ rest.wire = w /\ rest.seen = link.seen
        /\ rest.drained = link.drained /\ rest \in LinkType BY <1>1, <2>4, <2>5 DEF LinkType
  <2>7. /\ link'.channel = link.channel /\ link'.up = link.up /\ link'.got = link.got /\ link'.wire = w
        /\ link'.seen = link.seen /\ link'.drained = link.drained
        /\ link'.unread = IF m \in Chunks THEN link.unread \cup {m} ELSE link.unread
        /\ (link'.eof \/ link'.closed) = (link.eof \/ link.closed \/ m \in {"eof", "closed"})
    <3>1. CASE m \in Chunks /\ link' = [rest EXCEPT !.unread = @ \cup {m}] BY <2>6, <3>1 DEF Chunks
    <3>2. CASE m = "eof" /\ link' = [rest EXCEPT !.eof = TRUE] BY <2>6, <3>2 DEF Chunks
    <3>3. CASE m = "closed" /\ link' = [rest EXCEPT !.closed = TRUE] BY <2>6, <3>3 DEF Chunks
    <3>4. CASE m \in {"zero", "one"} /\ link' = [rest EXCEPT !.status = m] BY <2>6, <3>4 DEF Chunks
    <3> QED BY <1>3, <2>2, <2>3, <2>5, <3>1, <3>2, <3>3, <3>4 DEF Receive, WireMessages, Chunks
  <2>8. Flowing(link', procs)
    <3>1. SUFFICES ASSUME link.channel # 0 PROVE Flowing(link', procs) BY <2>7 DEF Flowing
    <3>2. /\ procs[link.channel].at # "run"
          /\ InOrder(link.wire) /\ (link.eof \/ link.closed => \A k \in 1..Len(link.wire) : link.wire[k] \notin Chunks)
          /\ (link.seen => link.eof \/ link.closed) /\ (link.drained # {} => link.seen)
          /\ link.drained \cap StreamsWaiting(link.unread) = {}
          /\ \A x \in procs[link.channel].prints : x \in link.got \/ x \in link.unread \/ Within(x, link.wire)
      BY <2>1, <3>1 DEF HeardInv, Flowing
    <3>3. InOrder(w) BY <2>4, <3>2 DEF InOrder
    <3>6. \A x : Within(x, link.wire) => x = m \/ Within(x, w)
      <4> SUFFICES ASSUME NEW k \in 1..Len(link.wire), k # 1 PROVE Within(link.wire[k], w) BY <2>2 DEF Within
      <4> DEFINE i == k - 1
      <4>1. i \in 1..Len(w) /\ k = i + 1 BY <2>4
      <4> QED BY <2>4, <4>1 DEF Within
    <3>7. procs[link.channel].prints \subseteq Chunks BY <1>1, <3>1 DEF SshInv, LinkOK, ProcType, ProcRecord
    <3>8. m \in Chunks => link.drained = {} BY <2>4, <2>2, <3>2
    <3> QED BY <2>1, <2>2, <2>4, <2>7, <3>2, <3>3, <3>6, <3>7, <3>8 DEF Flowing, Chunks, InOrder
  <2> QED BY <2>1, <2>7, <2>8 DEF HeardInv, ReadOut
<1> QED BY <1>2, <1>3

\* A process that ends sends all it prints; one that was taken for a success has ended before.
LEMMA RemoteHears == ASSUME SshInv, HeardInv, RemoteEnds PROVE HeardInv'
<1>1. procs \in Seq(ProcType) /\ Len(procs) \in Nat /\ link \in LinkType /\ (link.channel # 0 => link.channel \in 1..Len(procs))
  BY DEF SshInv, ProcsOK, LinkOK
<1>2. PICK i \in 1..Len(procs), code \in {"none", "zero", "one"}, prints \in SUBSET Chunks : EndsSo(i, code, prints)
  BY RemoteEndsSo
<1>3. UNCHANGED job /\ procs[i].at = "run" BY <1>2 DEF EndsSo
<1>4. Len(procs') = Len(procs) /\ procs'[i].prints = prints /\ procs'[i].at = "end" /\ \A k \in 1..Len(procs) : k # i => procs'[k] = procs[k]
  BY <1>2 DEF EndsSo
<1>5. PICK m \in Messages(prints, code) : Hears(i, m) BY <1>2 DEF EndsSo
<1>6. m \in Seq(WireMessages) /\ InOrder(m) /\ \A x \in prints : Within(x, m) BY <1>2, <1>5, MessagesSent DEF EndsSo
<1>7. ReadOut(job, link, procs')
  BY <1>3, <1>4 DEF SshInv, SshJobOK, RowOK, Executing, HeardInv, ReadOut, LastEnded, Ended
<1>8. CASE i = link.channel /\ link.up BY <1>5, <1>8, <1>3, <1>4, <1>6, <1>7 DEF Hears, HeardInv, Flowing, ReadOut
<1>9. CASE ~(i = link.channel /\ link.up) BY <1>5, <1>9, <1>1, <1>3, <1>4, <1>7 DEF Hears, HeardInv, Flowing
<1> QED BY <1>8, <1>9

\* Every step of the transport keeps what was read.
LEMMA HeardStepHolds == ASSUME SshInv, HeardInv, SshStep PROVE HeardInv'
<1>1. CASE cancelCurrentOperation \/ TimePasses \/ ContainerRemoved
  BY <1>1 DEF cancelCurrentOperation, TimePasses, ContainerRemoved, HeardInv
<1> QED
  BY <1>1, ConnectHears, RowHears, OpenHears, ChannelHears, WireHears, RemoteHears DEF SshStep, ClientSide, ServerSide

\* A call answered with success has every process it counts ended with status
\* zero, among them the one that keeps its promise.
LEMMA AnsweredSo == SshInv /\ HeardInv => AnsweredIsDone
<1>1. SUFFICES ASSUME SshInv, job.at = "answered", job.result = "ok"
               PROVE  Promised /\ \A i \in job.oks : procs[i].at = "end" /\ procs[i].code = "zero"
  BY DEF AnsweredIsDone, HeardInv, ReadOut
<1>2. ProcsOK(job, procs) /\ SshJobOK(job, link, procs) /\ SshDiskOK(job, procs, disk) BY <1>1 DEF SshInv
<1> QED
  BY <1>1, <1>2 DEF Ended, Ahead, Connecting, Executing, SshJobOK, SshProgress, CleanedUp, PromiseKept, Wanted,
    SshDiskOK, Promised, OvertakenBy, Overtaken, ProcsOK

\* SshSession and libssh::Client: a call that answers success has done what it
\* promises, and a command reported as successful had its whole output read,
\* for any number of calls, contents, lost connections and cancellations.
THEOREM AnswersAreDone == SshSpec => []AnsweredIsDone
<1>1. SshInv /\ [SshStep]_sshVars => SshInv' BY SshStepHolds DEF sshVars, SshInv, PromiseKept, Ahead
<1>2. SshInv /\ HeardInv /\ [SshStep]_sshVars => HeardInv' BY HeardStepHolds DEF sshVars, HeardInv
<1>3. SshInit => HeardInv BY QuietIsSilent DEF SshInit, HeardInv, Flowing, ReadOut, NoSshJob
<1> QED BY <1>1, <1>2, <1>3, SshInitHolds, AnsweredSo, PTL DEF SshSpec

=============================================================================
