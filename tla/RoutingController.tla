------------------------- MODULE RoutingController -------------------------
(***************************************************************************)
(* The routing controller of the headless daemon                           *)
(* (headless/headlessRoutingController.cpp) over the route reconciler.     *)
(*                                                                         *)
(* connect(), refresh() and disconnect() are sequences of reconciler       *)
(* transactions and saves of the controller's own receipt; each one is a   *)
(* step here, so that a link can vanish or the process can die between     *)
(* two of them, or inside one.  "job" holds the locals of the call in      *)
(* progress: its profile, the snapshots it may have to restore and the     *)
(* code it will return.                                                    *)
(*                                                                         *)
(* The daemon around it is its discipline only: one session, a link that   *)
(* the backend brings up before connect() and takes down after             *)
(* disconnect() or a failed connect(), and a start that refuses leftovers. *)
(***************************************************************************)
EXTENDS RouteReconciler

CONSTANTS Profiles,       \* records [id, mode, iface, forward, rules, dns, critical]
          NoProfile,      \* no profile
          Revisions,      \* revisions of the server's policy, 1 .. n
          PolicyRoutes,   \* the routes of each revision
          MaxCrashes,     \* deaths of the process in a behaviour
          MaxLosses       \* links that vanish under a session in a behaviour

ASSUME ControllerConstants ==
  /\ Revisions \subseteq Nat \ {0}
  /\ PolicyRoutes \in [Revisions -> SUBSET Prefixes]
  /\ MaxCrashes \in Nat /\ MaxLosses \in Nat
  /\ \A p \in Profiles : p.iface \in Ifaces /\ p.forward \subseteq Prefixes
                         /\ p.critical \subseteq Prefixes

VARIABLES ctl,      \* the controller's fields
          cdisk,    \* its receipt and its recovery marker
          job,      \* the call in progress
          session,  \* the profile the daemon counts as connected
          running,  \* the daemon is up
          last,     \* the call that returned last: [op, code, p]
          crashes, losses

controllerVars == <<host, mem, disk, faults, ctl, cdisk, job, session, running, last,
                    crashes, losses>>

Blank == [valid |-> TRUE, profile |-> NoProfile, iface |-> NoIf, policy |-> 0,
          degraded |-> FALSE, reapply |-> FALSE]

Idle == [pc |-> "idle"]

State == [host |-> host, mem |-> mem, disk |-> disk, faults |-> faults,
          ctl |-> ctl, cdisk |-> cdisk]

(* What a daemon that did not mark its table yet may have left on a host:  *)
(* a full tunnel with its receipt, found by the first start.               *)
Legacy(i) == [host |-> [CleanHost EXCEPT !.up = {i}, !.table = [f \in Families |-> i],
                                         !.full = Families, !.marked = FALSE],
              receipt |-> [NoReceipt EXCEPT !.mode = "all-except", !.iface = i]]

Init == /\ \/ /\ host = CleanHost /\ running = TRUE
              /\ disk = [receipt |-> NoReceipt, intent |-> FALSE, marker |-> FALSE]
           \/ \E i \in Ifaces :
                /\ host = Legacy(i).host /\ running = FALSE
                /\ disk = [receipt |-> Legacy(i).receipt, intent |-> FALSE, marker |-> FALSE]
        /\ mem = Fresh /\ faults = MaxFaults
        /\ ctl = Blank /\ cdisk = [receipt |-> <<>>, marker |-> FALSE]
        /\ job = Idle /\ session = NoProfile
        /\ last = [op |-> "none", code |-> "ok", p |-> NoProfile]
        /\ crashes = 0 /\ losses = 0

-----------------------------------------------------------------------------
(* The controller's receipt. *)

CtlSave(s) == Try(s, [s EXCEPT !.cdisk.receipt = <<s.ctl>>,
                               !.cdisk.marker = @ /\ ~s.ctl.valid])

CtlMarkRecovery(s) ==
  Bind(MarkRecoveryRequired([s EXCEPT !.ctl.valid = FALSE]),
       LAMBDA u : Bind(CtlSave(u),
         LAMBDA o : IF o.ok /\ (u.disk.marker \/ u.disk.receipt.mode = "recovery_required")
                    THEN {o.s}
                    ELSE {t.s : t \in Try(o.s, [o.s EXCEPT !.cdisk.marker = TRUE])}))

(* What the receipt must agree with in the reconciler's. *)
Consistent(c, m) ==
  /\ c.valid
  /\ c.degraded \/ c.policy # 0 \/ m.reapply => c.profile # NoProfile /\ c.iface # NoIf
  /\ m.reapply => ~c.degraded /\ m.mode = "all-except" /\ m.iface = c.iface
  /\ IF c.policy # 0 THEN m.iface = c.iface
     ELSE IF c.degraded
          THEN m.mode = "only-forward" /\ m.iface = (IF m.routes = {} THEN NoIf ELSE c.iface)
     ELSE IF m.mode = "all-except" THEN c.profile # NoProfile /\ m.iface = c.iface
     ELSE c.iface = NoIf /\ m.iface = NoIf /\ m.routes = {}

(* The receipt is a cache of needsReapply: the reconciler's value replaces *)
(* it, and the receipt is saved again when it said otherwise.              *)
CtlLoad(s) ==
  LET rejected(t) == {[t EXCEPT !.ctl = [Blank EXCEPT !.valid = FALSE]]}
  IN IF s.cdisk.marker \/ ~s.mem.valid THEN rejected(s)
     ELSE IF s.cdisk.receipt = <<>> THEN {[s EXCEPT !.ctl = Blank]}
     ELSE LET c == s.cdisk.receipt[1]
              t == [s EXCEPT !.ctl = [c EXCEPT !.reapply = s.mem.reapply]]
          IN IF ~Consistent(c, s.mem) THEN rejected(s)
             ELSE IF c.reapply = s.mem.reapply THEN {t}
             ELSE Bind(CtlSave(t), LAMBDA o : IF o.ok THEN {o.s} ELSE rejected(o.s))

-----------------------------------------------------------------------------
(* Steps and returns. *)

Goto(s, j) == /\ Becomes(s) /\ ctl' = s.ctl /\ cdisk' = s.cdisk /\ job' = j
              /\ UNCHANGED <<session, running, last, crashes, losses>>

To(s, pc) == Goto(s, [job EXCEPT !.pc = pc])

(* A connect() that failed and a disconnect() that succeeded are followed  *)
(* by the backend taking the link down.                                    *)
Return(s, code) ==
  LET connected == code = "ok" \/ (code = "routing_degraded" /\ s.ctl.valid /\ s.mem.valid)
      off == CASE job.op = "connect" -> ~connected
               [] job.op = "disconnect" -> code = "ok"
               [] OTHER -> FALSE
  IN /\ Becomes(s) /\ ctl' = s.ctl /\ cdisk' = s.cdisk
     /\ job' = (IF off THEN [pc |-> "down", i |-> job.p.iface] ELSE Idle)
     /\ last' = [op |-> job.op, code |-> code, p |-> job.p]
     /\ session' = (IF off THEN NoProfile ELSE IF job.op = "connect" THEN job.p ELSE session)
     /\ UNCHANGED <<running, crashes, losses>>

BackendDown ==
  /\ job.pc = "down"
  /\ Goto([State EXCEPT !.host = LinkGone(@, job.i)], Idle)

Unrecoverable(s) == \E t \in CtlMarkRecovery(s) : Return(t, "recovery_required")

Fallback(s, via) == Goto(s, [job EXCEPT !.pc = "fb_routes", !.via = via])

FailAllExcept(s) == IF s.mem.valid THEN Fallback(s, "fail") ELSE Return(s, "recovery_required")

RestoreBootstrap(s, code) == Goto(s, [job EXCEPT !.pc = "rs_routes", !.code = code])

(* What fetchAndApply() does when applyRoutes() returned "code". *)
ApplyFailed(s, code) ==
  IF job.phase = "plain" THEN Return(s, code)
  ELSE IF job.p.mode = "all-except" /\ code \notin {"recovery_required", "routing_degraded"}
       THEN FailAllExcept(s)
  ELSE IF job.phase = "boot" THEN RestoreBootstrap(s, code)
  ELSE IF code # "routing_degraded" /\ job.boot THEN RestoreBootstrap(s, code)
  ELSE Return(s, code)

ApplyUnrecoverable(s) == \E t \in CtlMarkRecovery(s) : ApplyFailed(t, "recovery_required")

-----------------------------------------------------------------------------
(* The entry points. *)

Job(op, p, pc, phase) ==
  [op |-> op, p |-> p, pc |-> pc, phase |-> phase,
   boot |-> \/ ctl.reapply \/ ctl.profile # p.id
            \/ mem.mode # p.mode \/ mem.iface # p.iface,
   prev |-> mem, base |-> mem, was |-> ctl, rev |-> 0, ok |-> TRUE, code |-> "ok",
   via |-> "apply"]

Entry(op, p) ==
  LET j == Job(op, p, "routes", "boot")
  IN IF p.rules THEN (IF j.boot THEN j ELSE [j EXCEPT !.pc = "fetch"])
     ELSE IF p.forward = {} /\ op = "connect" THEN Job(op, p, "only_dns", "plain")
     ELSE Job(op, p, "routes", "plain")

Refuses(p) == ~ctl.valid \/ ~mem.valid \/ (p.mode = "all-except" /\ ~p.rules)

(* The backend has brought the link up before connect() is called. *)
Connect(p) ==
  /\ running /\ job = Idle /\ session = NoProfile /\ host.up = {}
  /\ ~Refuses(p)
  /\ host' = [host EXCEPT !.up = {p.iface}]
  /\ job' = Entry("connect", p)
  /\ UNCHANGED <<mem, disk, faults, ctl, cdisk, session, running, last, crashes, losses>>

ConnectRefused(p) ==
  /\ running /\ job = Idle /\ session = NoProfile /\ host.up = {}
  /\ Refuses(p)
  /\ last' = [op |-> "connect", p |-> p,
              code |-> IF ctl.valid /\ mem.valid THEN "server_policy_required"
                       ELSE "recovery_required"]
  /\ UNCHANGED <<host, mem, disk, faults, ctl, cdisk, job, session, running, crashes, losses>>

(* The daemon leaves the state "connected" when a call asks for recovery   *)
(* or a disconnect() fails.                                                *)
Connected == /\ running /\ job = Idle /\ session # NoProfile
             /\ last.op # "disconnect" /\ last.code # "recovery_required"

(* The daily timer; the daemon has checked that the session is alive. *)
Refresh ==
  /\ Connected /\ session.iface \in host.up /\ session.rules
  /\ IF ctl.valid /\ ctl.profile = session.id
     THEN job' = Entry("refresh", session) /\ UNCHANGED last
     ELSE /\ last' = [op |-> "refresh", p |-> session,
                      code |-> IF ctl.valid THEN "profile_not_active" ELSE "recovery_required"]
          /\ UNCHANGED job
  /\ UNCHANGED <<host, mem, disk, faults, ctl, cdisk, session, running, crashes, losses>>

(* A request, or the health check that found the link gone. *)
Disconnect ==
  /\ running /\ job = Idle /\ session # NoProfile
  /\ ctl.valid /\ mem.valid
  /\ job' = Job("disconnect", session, "dc_dns", "plain")
  /\ UNCHANGED <<host, mem, disk, faults, ctl, cdisk, session, running, last, crashes, losses>>

-----------------------------------------------------------------------------
(* applyRoutes(). *)

Bypass(p, srv) == (p.critical \cup srv) \ p.forward

(* The reconnect after an offline start re-installs the retained list; a   *)
(* receipt of another shape is offline_lkg_invalid.                        *)
Target(s) ==
  LET p == job.p
      srv == IF job.phase = "final" THEN PolicyRoutes[job.rev] ELSE {}
      lkg == job.phase = "boot" /\ job.was.reapply
      crit == p.critical \ p.forward
  IN IF p.mode = "only-forward" THEN Apply(s, p.iface, p.forward \cup srv)
     ELSE IF ~lkg THEN ApplyAllExcept(s, p.iface, Bypass(p, srv), crit)
     ELSE IF s.mem.mode = "all-except" /\ s.mem.iface = p.iface /\ s.mem.reapply
          THEN ApplyAllExcept(s, p.iface, s.mem.bypass \cup crit, s.mem.critical \cup crit)
     ELSE Done("failed", {s})

ApplyRoutes ==
  /\ job.pc = "routes"
  /\ \E r \in Target(State) :
       CASE r.code = "ok" -> Goto(r.s, [job EXCEPT !.pc = "dns", !.prev = mem])
         [] r.code = "postcondition" /\ job.p.mode = "all-except" -> Fallback(r.s, "apply")
         [] OTHER -> ApplyFailed(r.s, r.code)

(* A profile without DNS retires the binding of the one before it. *)
DnsOf(s, owned) == IF job.p.dns THEN ConfigureDns(s, job.p.iface)
                   ELSE IF owned # NoIf THEN ClearDns(s, owned) ELSE Done("ok", {s})

ApplyDns ==
  /\ job.pc = "dns"
  /\ \E r \in DnsOf(State, job.prev.dns) :
       IF r.code = "ok" THEN To(r.s, "save")
       ELSE Goto(r.s, [job EXCEPT !.pc = "undo_routes", !.code = r.code])

Reinstate(s, m) ==
  IF m.mode = "all-except" THEN ApplyAllExcept(s, m.iface, m.bypass, m.critical)
  ELSE IF m.routes # {} THEN Apply(s, m.iface, m.routes) ELSE Clear(s)

UndoRoutesSkipped ==
  job.pc = "undo_routes" /\ Goto(State, [job EXCEPT !.pc = "undo_dns"])

UndoRoutes ==
  /\ job.pc = "undo_routes"
  /\ \E r \in Reinstate(State, job.prev) :
       Goto(r.s, [job EXCEPT !.pc = "undo_dns", !.ok = r.code = "ok"])

UndoDns ==
  /\ job.pc = "undo_dns"
  /\ \E r \in IF job.prev.dns = NoIf THEN ClearDns(State, mem.dns)
              ELSE ConfigureDns(State, job.prev.dns) :
       IF job.ok /\ r.code = "ok" THEN ApplyFailed(r.s, job.code) ELSE ApplyUnrecoverable(r.s)

SaveApplied ==
  /\ job.pc = "save"
  /\ \E o \in CtlSave([State EXCEPT !.ctl.profile = job.p.id, !.ctl.iface = job.p.iface,
                                    !.ctl.degraded = FALSE, !.ctl.reapply = FALSE]) :
       IF ~o.ok THEN ApplyUnrecoverable(o.s)
       ELSE CASE job.phase = "boot" /\ job.was.reapply -> To(o.s, "keep")
              [] job.phase = "boot" -> To(o.s, "fetch")
              [] OTHER -> To(o.s, "record")

(* The marker survives the bootstrap until the policy has been applied. *)
KeepReapply ==
  /\ job.pc = "keep"
  /\ \E o \in CtlSave([State EXCEPT !.ctl.reapply = TRUE]) :
       IF o.ok THEN To(o.s, "fetch") ELSE Unrecoverable(o.s)

(* The request, its checks and the resolution of its names: an older       *)
(* revision than the one on record is refused like an unreachable server.  *)
FetchPolicy ==
  /\ job.pc = "fetch"
  /\ \E rev \in Revisions :
       rev >= ctl.policy
       /\ Goto(State, [job EXCEPT !.pc = "routes", !.phase = "final", !.rev = rev])

FetchFails ==
  /\ job.pc = "fetch"
  /\ IF job.p.mode = "all-except" THEN FailAllExcept(State)
     ELSE IF job.boot THEN RestoreBootstrap(State, "policy_failed")
     ELSE Return(State, "policy_failed")

(* The policy is recorded only after its routes are committed. *)
RecordPolicy ==
  /\ job.pc = "record"
  /\ \E o \in CtlSave([State EXCEPT !.ctl.policy = job.rev]) :
       IF o.ok THEN Return(o.s, "ok") ELSE Unrecoverable(o.s)

(* connect() of a profile with neither routes nor rules. *)
OnlyDns ==
  /\ job.pc = "only_dns"
  /\ \E r \in DnsOf(State, mem.dns) :
       IF r.code # "ok" THEN Return(r.s, r.code)
       ELSE \E o \in CtlSave([r.s EXCEPT !.ctl = [Blank EXCEPT !.profile = job.p.id]]) :
              IF o.ok THEN Return(o.s, "ok") ELSE Unrecoverable(o.s)

-----------------------------------------------------------------------------
(* fallbackToOnlyForward(). *)

FallbackDone(s, code) == IF job.via = "apply" THEN ApplyFailed(s, code) ELSE Return(s, code)

FallbackLost(s) == \E t \in CtlMarkRecovery(s) : FallbackDone(t, "recovery_required")

FallbackRoutes ==
  /\ job.pc = "fb_routes"
  /\ \E r \in Apply(State, job.p.iface, job.p.forward) :
       IF r.code = "ok" /\ r.s.mem.valid THEN To(r.s, "fb_dns") ELSE FallbackLost(r.s)

FallbackDns ==
  /\ job.pc = "fb_dns"
  /\ \E r \in DnsOf(State, mem.dns) :
       IF /\ r.code = "ok" /\ r.s.mem.valid /\ r.s.mem.mode = "only-forward"
          /\ r.s.mem.iface = (IF job.p.forward = {} THEN NoIf ELSE job.p.iface)
       THEN To(r.s, "fb_save") ELSE FallbackLost(r.s)

FallbackSave ==
  /\ job.pc = "fb_save"
  /\ \E o \in CtlSave([State EXCEPT !.ctl = [Blank EXCEPT !.valid = ctl.valid,
                          !.profile = job.p.id, !.iface = job.p.iface, !.degraded = TRUE]]) :
       IF o.ok THEN FallbackDone(o.s, "routing_degraded") ELSE FallbackLost(o.s)

-----------------------------------------------------------------------------
(* restoreBootstrap(): routes, resolver, then the controller's fields, all *)
(* but the degraded flag.                                                  *)

RestoreRoutingSkipped == job.pc = "rs_routes" /\ To(State, "rs_dns")

RestoreRouting ==
  /\ job.pc = "rs_routes"
  /\ \E r \in IF job.base.mode = "all-except" \/ job.base.iface # NoIf
              THEN Reinstate(State, job.base) ELSE Clear(State) :
       IF r.code = "ok" THEN To(r.s, "rs_dns")
       ELSE Goto(r.s, [job EXCEPT !.pc = "rs_save", !.ok = FALSE])

RestoreDns ==
  /\ job.pc = "rs_dns"
  /\ \E r \in IF job.base.dns = NoIf THEN ClearDns(State, mem.dns)
              ELSE ConfigureDns(State, job.base.dns) :
       Goto(r.s, [job EXCEPT !.pc = "rs_save", !.ok = r.code = "ok"])

RestoreController ==
  LET t == [State EXCEPT !.ctl = [job.was EXCEPT !.degraded = ctl.degraded, !.valid = ctl.valid]]
  IN /\ job.pc = "rs_save"
     /\ IF ~job.ok THEN Unrecoverable(t)
        ELSE \E o \in CtlSave(t) : IF o.ok THEN Return(o.s, job.code) ELSE Unrecoverable(o.s)

-----------------------------------------------------------------------------
(* disconnect(). *)

DisconnectDns ==
  /\ job.pc = "dc_dns"
  /\ \E r \in ClearDns(State, mem.dns) :
       IF r.code = "ok" THEN To(r.s, "dc_routes") ELSE Return(r.s, r.code)

DisconnectRoutes ==
  /\ job.pc = "dc_routes"
  /\ \E r \in Clear(State) : IF r.code = "ok" THEN To(r.s, "dc_save") ELSE Return(r.s, r.code)

DisconnectSave ==
  /\ job.pc = "dc_save"
  /\ \E o \in CtlSave([State EXCEPT !.ctl = Blank]) :
       IF o.ok THEN Return(o.s, "ok") ELSE Unrecoverable(o.s)

-----------------------------------------------------------------------------
(* The host and the process. *)

(* A tunnel dies under its session. *)
LinkLost ==
  /\ losses < MaxLosses /\ losses' = losses + 1
  /\ \E i \in host.up : host' = LinkGone(host, i)
  /\ UNCHANGED <<mem, disk, faults, ctl, cdisk, job, session, running, last, crashes>>

Dead == /\ crashes < MaxCrashes /\ crashes' = crashes + 1
        /\ running /\ running' = FALSE
        /\ job' = Idle /\ session' = NoProfile /\ ctl' = Blank /\ mem' = Fresh
        /\ UNCHANGED <<cdisk, faults, last, losses>>

(* Death between two durable operations. *)
Crash == Dead /\ UNCHANGED <<host, disk>>

(* Death inside the route transaction in progress: the intent is on disk,  *)
(* the kernel has what some prefix of the commands left, and the receipt   *)
(* may or may not have been replaced.                                      *)
CrashInTransaction ==
  /\ job.pc \in {"routes", "fb_routes", "rs_routes", "dc_routes"}
  /\ \E o \in BeginMutation(State) :
     \E r \in CASE job.pc = "routes" -> Target(State)
                [] job.pc = "fb_routes" -> Apply(State, job.p.iface, job.p.forward)
                [] job.pc = "rs_routes" -> Reinstate(State, job.base)
                [] job.pc = "dc_routes" -> Clear(State) :
       /\ o.ok /\ host' = r.s.host
       /\ \E rec \in {disk.receipt, r.s.disk.receipt} :
            disk' = [receipt |-> rec, intent |-> o.s.disk.intent, marker |-> r.s.disk.marker]
  /\ Dead

(* start(): leftovers other than a reconnectable full tunnel, or a link    *)
(* that is still up, make it refuse.                                       *)
Restart ==
  /\ ~running
  /\ \E s \in LoadState(State) : \E t \in CtlLoad(s) :
       LET empty == /\ t.ctl.profile = NoProfile /\ t.ctl.policy = 0
                    /\ t.mem.mode # "all-except" /\ t.mem.routes = {} /\ t.mem.dns = NoIf
           up == t.mem.valid /\ t.ctl.valid /\ host.up = {} /\ (empty \/ t.ctl.reapply)
       IN /\ Becomes([t EXCEPT !.mem = IF up THEN @ ELSE Fresh])
          /\ ctl' = (IF up THEN t.ctl ELSE Blank) /\ cdisk' = t.cdisk
          /\ running' = up
  /\ UNCHANGED <<job, session, last, crashes, losses>>

(* After a crash the machine is rebooted: links and routes are gone, and   *)
(* with them the policy rules.                                             *)
Reboot ==
  /\ ~running /\ host # CleanHost /\ host' = CleanHost
  /\ UNCHANGED <<mem, disk, faults, ctl, cdisk, job, session, running, last, crashes, losses>>

(* The operator removes what is left and the receipts. *)
Recover ==
  /\ \/ ~running /\ (disk.intent \/ disk.marker \/ cdisk.marker \/ disk.receipt.mode # "none"
                     \/ cdisk.receipt # <<>>)
     \/ job = Idle /\ ~(ctl.valid /\ mem.valid)
  /\ host' = CleanHost /\ mem' = Fresh /\ ctl' = Blank /\ job' = Idle
  /\ disk' = [receipt |-> NoReceipt, intent |-> FALSE, marker |-> FALSE]
  /\ cdisk' = [receipt |-> <<>>, marker |-> FALSE]
  /\ session' = NoProfile /\ running' = TRUE
  /\ UNCHANGED <<faults, last, crashes, losses>>

Steps == \/ ApplyRoutes \/ ApplyDns \/ UndoRoutes \/ UndoDns \/ SaveApplied \/ KeepReapply
         \/ FetchPolicy \/ FetchFails \/ RecordPolicy \/ OnlyDns
         \/ FallbackRoutes \/ FallbackDns \/ FallbackSave
         \/ RestoreRouting \/ RestoreDns \/ RestoreController
         \/ DisconnectDns \/ DisconnectRoutes \/ DisconnectSave \/ BackendDown

Next == \/ \E p \in Profiles : Connect(p) \/ ConnectRefused(p)
        \/ Refresh \/ Disconnect \/ Steps
        \/ LinkLost \/ Crash \/ CrashInTransaction \/ Restart \/ Reboot \/ Recover

Spec == Init /\ [][Next]_controllerVars

-----------------------------------------------------------------------------
(* Properties. *)

(* A receipt that the next start would believe accounts for every managed  *)
(* object in the kernel, whatever failed and wherever the process died:    *)
(* beginMutation() and finishTransaction() around each transaction         *)
(* (linuxRouteReconciler.cpp) and the marker of markRecoveryRequired().    *)
ReceiptAccountsForKernel ==
  ~Distrusted(disk) => InForce(host) \subseteq Promised(disk.receipt)

(* Between calls a connected session whose routing is not degraded has the *)
(* kernel state its profile and the policy on record ask for: a failed     *)
(* refresh leaves the previous set and never a mixture                     *)
(* (fetchAndApply(), applyRoutes()).  A profile with neither routes nor    *)
(* rules is left out: its connect() does not touch routes, not even those  *)
(* of a full tunnel that was waiting to be reconnected.                    *)
SessionRoutes ==
  LET p == session
      srv == IF ctl.policy = 0 THEN {} ELSE PolicyRoutes[ctl.policy]
  IN (/\ Connected /\ session.iface \in host.up
      /\ p.rules \/ p.forward # {}
      /\ ctl.valid /\ mem.valid /\ ~ctl.degraded) =>
        InForce(host) =
          (IF p.mode = "only-forward" THEN {<<"main", r, p.iface>> : r \in p.forward \cup srv}
           ELSE {<<"table", f, p.iface>> : f \in Families}
                \cup {<<"full", f, NoIf>> : f \in Families}
                \cup {<<"bypass", r, NoIf>> : r \in Bypass(p, srv)})

(* With no session, nothing is left in the kernel or the resolver except   *)
(* the rules of a full tunnel that waits to be reconnected: a connect()    *)
(* that failed half way has undone its bootstrap (restoreBootstrap()).     *)
NothingLeftBehind ==
  (running /\ job = Idle /\ session = NoProfile /\ ctl.valid /\ mem.valid /\ ~ctl.reapply) =>
     InForce(host) = {} /\ \A i \in Ifaces : host.dns[i] = {}

(* The reconciler and its controller implement the atomic transactions of  *)
(* RouteTransaction.                                                       *)
Atomic == INSTANCE RouteTransaction WITH
  promised <- IF running /\ mem.valid THEN Promised(mem) ELSE {},
  inForce <- InForce(host),
  trusted <- running /\ mem.valid,
  links <- host.up, Links <- Ifaces,
  Objects <- {"main"} \X Prefixes \X Ifaces \cup {"table"} \X Families \X Ifaces
             \cup {"full"} \X Families \X {NoIf} \cup {"bypass"} \X Prefixes \X {NoIf}

AtomicTransactions == Atomic!Spec

(* A call that reports routing_degraded has left the only-forward fallback *)
(* in place ("profile remains connected in only-forward mode").            *)
DegradedIsRetained ==
  (running /\ job = Idle /\ last.code = "routing_degraded" /\ session = last.p
   /\ session.iface \in host.up) =>
      {<<"main", r, session.iface>> : r \in session.forward} \subseteq InForce(host)
=============================================================================
