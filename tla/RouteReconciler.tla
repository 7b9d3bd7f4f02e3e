-------------------------- MODULE RouteReconciler --------------------------
(***************************************************************************)
(* The Linux route reconciler of the headless daemon                       *)
(* (headless/linuxRouteReconciler.cpp): it owns the managed routes of the  *)
(* main table, the four split-default routes of table 51821, the policy    *)
(* rules that send traffic to that table or past it, and the resolver      *)
(* binding of the VPN link.                                                *)
(*                                                                         *)
(* Every mutation is a transaction: an intent file is written, ip and      *)
(* resolvectl commands run, a receipt is saved, the intent is retired.  A  *)
(* command, a probe or a save that fails makes the code undo what it did;  *)
(* an undo that fails ends in recovery_required.  A transaction is an      *)
(* operator from a state to the set of its outcomes [code, s]; "s" holds   *)
(* the kernel (host), the object's fields (mem), its files (disk) and the  *)
(* failures still to come (faults).                                        *)
(*                                                                         *)
(* Left out: rule priorities (a free slot is always found), text parsing   *)
(* of ip output, the 120 s batch deadline (a failure like any other).      *)
(***************************************************************************)
EXTENDS Integers, FiniteSets

CONSTANTS Ifaces,      \* VPN link names
          NoIf,        \* the empty name
          Prefixes,    \* IPv4 prefixes: managed routes and bypass selectors
          MaxFaults    \* commands, probes and saves that fail in a behaviour

ASSUME RouteConstants == NoIf \notin Ifaces /\ MaxFaults \in Nat

(* The two address families: each has its half-space routes and its rule. *)
Families == {"v4", "v6"}

Bind(S, F(_)) == UNION {F(x) : x \in S}

-----------------------------------------------------------------------------
(* Commands and files: everything may fail, and a failure changes nothing. *)

Fail(s) == IF s.faults = 0 THEN {} ELSE {[s EXCEPT !.faults = @ - 1]}

Try(s, t) == {[ok |-> TRUE, s |-> t]} \cup {[ok |-> FALSE, s |-> u] : u \in Fail(s)}

Done(code, S) == {[code |-> code, s |-> t] : t \in S}

Receipt(m) == [mode |-> m.mode, iface |-> m.iface, routes |-> m.routes,
               bypass |-> m.bypass, critical |-> m.critical, dns |-> m.dns,
               reapply |-> m.reapply]

NoReceipt == [mode |-> "none", iface |-> NoIf, routes |-> {}, bypass |-> {},
              critical |-> {}, dns |-> NoIf, reapply |-> FALSE]

SaveState(s) == Try(s, [s EXCEPT !.disk.receipt = Receipt(s.mem)])

BeginMutationUnlogged(s) == {[ok |-> ~s.disk.intent, s |-> s]}

BeginMutation(s) == IF s.disk.intent THEN {[ok |-> FALSE, s |-> s]}
                    ELSE Try(s, [s EXCEPT !.disk.intent = TRUE])

ClearTransactionIntent(s) == IF ~s.disk.intent THEN {[ok |-> TRUE, s |-> s]}
                             ELSE Try(s, [s EXCEPT !.disk.intent = FALSE])

(* The object refuses further work at once; the receipt, or a marker file  *)
(* beside it, makes the next start refuse as well.                         *)
MarkRecoveryRequired(s) ==
  Bind(SaveState([s EXCEPT !.mem.valid = FALSE, !.mem.mode = "recovery_required"]),
       LAMBDA o : IF o.ok THEN {[o.s EXCEPT !.disk.marker = FALSE]}
                  ELSE {p.s : p \in Try(o.s, [o.s EXCEPT !.disk.marker = TRUE])})

Recovery(s) == Done("recovery_required", MarkRecoveryRequired(s))

(* A failed save where the code only invalidates the object in memory. *)
Invalidate(s) == {[code |-> "recovery_required",
                   s |-> [s EXCEPT !.mem.valid = FALSE, !.mem.mode = "recovery_required"]]}

(* A transaction that needs recovery keeps its intent. *)
FinishTransaction(r) ==
  IF r.code = "recovery_required" THEN {r}
  ELSE Bind(ClearTransactionIntent(r.s),
            LAMBDA o : IF o.ok THEN {[r EXCEPT !.s = o.s]} ELSE Recovery(o.s))

Finish(R) == Bind(R, FinishTransaction)

(* finishMutation() after a commit, with what the caller does when the      *)
(* intent cannot be retired.                                                *)
FinishMutation(s, Lost(_)) ==
  Bind(ClearTransactionIntent(s),
       LAMBDA o : IF o.ok THEN Done("ok", {o.s}) ELSE Lost(o.s))

-----------------------------------------------------------------------------
(* Routes of the main table.  One managed route per prefix: "ip route      *)
(* replace" at the same metric takes the prefix over from another link.    *)

SetMain(s, R, i) == [s EXCEPT !.host.main = [r \in Prefixes |-> IF r \in R THEN i ELSE @[r]]]

(* The loop over "ip route replace": stops at the first failure. *)
ReplaceRoutes(s, i, R) ==
  (IF i \in s.host.up \/ R = {} THEN {[ok |-> TRUE, s |-> SetMain(s, R, i), done |-> R]}
   ELSE {[ok |-> FALSE, s |-> s, done |-> {}]})
  \cup {[ok |-> FALSE, s |-> SetMain(u, D, i), done |-> D] :
          u \in Fail(s), D \in IF i \in s.host.up THEN SUBSET R \ {R} ELSE {{}}}

(* A prefix that another link holds makes the removal ambiguous: it stops. *)
RemoveRoutes(s, i, R) ==
  LET mine   == {r \in R : s.host.main[r] = i}
      others == {r \in R : s.host.main[r] \in Ifaces \ {i}}
      Stopped(t) == {[ok |-> FALSE, s |-> SetMain(t, D, NoIf), gone |-> D] : D \in SUBSET mine}
  IN IF R = {} THEN {[ok |-> TRUE, s |-> s, gone |-> {}]}
     ELSE IF i = NoIf THEN {[ok |-> FALSE, s |-> s, gone |-> {}]}
     ELSE (IF others = {} THEN {[ok |-> TRUE, s |-> SetMain(s, mine, NoIf), gone |-> mine]}
                          ELSE Stopped(s))
          \cup Bind(Fail(s), Stopped)

RestoreRoutesForgotten(s, i, R) == {[ok |-> TRUE, s |-> s]}

RestoreRoutes(s, i, R) ==
  LET taken == \E r \in R : s.host.main[r] \in Ifaces \ {i}
  IN IF R # {} /\ (i = NoIf \/ taken) THEN {[ok |-> FALSE, s |-> s]}
     ELSE {[ok |-> o.ok, s |-> o.s] : o \in ReplaceRoutes(s, i, R)}

-----------------------------------------------------------------------------
(* The full tunnel: table 51821, the two full rules and the bypass rules.  *)

(* Batches of rules: a failed batch may have applied any part of itself.   *)
DeleteRules(s, R) ==
  IF R = {} THEN {[ok |-> TRUE, s |-> s]}
  ELSE {[ok |-> TRUE, s |-> [s EXCEPT !.host.bypass = @ \ R]]}
       \cup {[ok |-> FALSE, s |-> [u EXCEPT !.host.bypass = @ \ D]] :
               u \in Fail(s), D \in SUBSET R \ {R}}

Owned(h) == {f \in Families : h.table[f] # NoIf}

(* persistedPriorityIsExact and the table checks: what the kernel holds is *)
(* what the receipt says, or nothing where there is no receipt.            *)
Attributable(s, i) ==
  LET had == s.mem.mode = "all-except"
  IN /\ s.host.marked
     /\ ~had => Owned(s.host) = {}
     /\ had => /\ s.host.bypass = s.mem.bypass
               /\ s.host.full # {}
               /\ \A f \in Owned(s.host) : s.host.table[f] = s.mem.iface
               /\ s.mem.iface # i => Owned(s.host) = Families

(* The states in which a step of the installation may fail, in the code's  *)
(* order: critical bypasses, the IPv4 rule, the IPv6 rule, the others.     *)
PartlyInstalled(s, new, critical) ==
  LET With(B, F) == [s EXCEPT !.host.bypass = @ \cup B, !.host.full = @ \cup F]
      first == new \cap critical
  IN {With(B, {}) : B \in SUBSET first}
     \cup {With(first, F) : F \in {{}, {"v4"}}}
     \cup {With(first \cup B, Families) : B \in SUBSET (new \ critical)}

(* The plan of an installation: the kernel and the receipt it starts from, *)
(* the target, the rules to retire and to add, the split routes it ends.   *)
FullPlan(s, i, B, C) ==
  LET had == s.mem.mode = "all-except"
  IN [h |-> s.host, iface |-> s.mem.iface, i |-> i, B |-> B, C |-> C,
      stale |-> IF had THEN s.mem.bypass \ B ELSE {},
      new |-> IF had THEN B \ s.host.bypass ELSE B,
      split |-> IF had THEN {} ELSE s.mem.routes]

SetTable(t, F, i) == [t EXCEPT !.host.table = [f \in Families |-> IF f \in F THEN i ELSE @[f]]]

(* rollback(): the added rules and routes leave, the retired ones return. *)
FullRollback(c, t) == Try(t, [t EXCEPT !.host.table = c.h.table,
                                       !.host.full = @ \cap c.h.full,
                                       !.host.bypass = (@ \ c.new) \cup c.stale])

FullUndo(c, t) == Bind(FullRollback(c, t), LAMBDA o : IF o.ok THEN Done("failed", {o.s})
                                                      ELSE Recovery(o.s))

FullUndoSplit(c, t, gone) ==
  Bind(RestoreRoutes(t, c.iface, gone),
       LAMBDA a : Bind(FullRollback(c, a.s), LAMBDA b : {[ok |-> a.ok /\ b.ok, s |-> b.s]}))

FullPublish(c, t, gone) ==
  Bind(SaveState([t EXCEPT !.mem.mode = "all-except", !.mem.iface = c.i,
                           !.mem.routes = {}, !.mem.bypass = c.B, !.mem.critical = c.C,
                           !.mem.reapply = FALSE]),
       LAMBDA o : IF o.ok THEN Done("ok", {o.s})
                  ELSE Bind(FullUndoSplit(c, o.s, gone), LAMBDA u : Recovery(u.s)))

(* The kernel read back after the commands: table, rules and priorities    *)
(* are those of the plan.                                                  *)
FullPostcondition(c, h) == /\ \A f \in Families : h.table[f] = c.i
                           /\ h.full = Families
                           /\ c.B \subseteq h.bypass

(* The readback differs or cannot be had: undo, read back again, save, or  *)
(* recover.                                                                *)
FullMismatch(c, t, gone) ==
  Bind(FullUndoSplit(c, t, gone),
       LAMBDA u : IF ~u.ok THEN Recovery(u.s)
                  ELSE Bind(SaveState(u.s),
                            LAMBDA o : IF o.ok THEN Done("postcondition", {o.s})
                                       ELSE Recovery(o.s)))

FullRetireSplit(c, t) ==
  Bind(RemoveRoutes(t, c.iface, c.split),
       LAMBDA o : IF o.ok THEN (IF FullPostcondition(c, o.s.host) THEN FullPublish(c, o.s, o.gone)
                                ELSE FullMismatch(c, o.s, o.gone))
                               \cup Bind(Fail(o.s), LAMBDA u : FullMismatch(c, u, o.gone))
                  ELSE Bind(FullUndoSplit(c, o.s, o.gone),
                            LAMBDA u : IF u.ok THEN Done("failed", {u.s})
                                       ELSE Recovery(u.s)))

FullRules(c, t) ==
  FullRetireSplit(c, [t EXCEPT !.host.bypass = @ \cup c.new, !.host.full = Families])
  \cup Bind(PartlyInstalled(t, c.new, c.C),
            LAMBDA p : Bind(Fail(p), LAMBDA u : FullUndo(c, u)))

FullRoutes(c, t) ==
  (IF c.i \in c.h.up THEN FullRules(c, SetTable(t, Families, c.i)) ELSE FullUndo(c, t))
  \cup Bind({SetTable(t, F, c.i) : F \in IF c.i \in c.h.up THEN SUBSET Families \ {Families}
                                         ELSE {{}}},
            LAMBDA p : Bind(Fail(p), LAMBDA u : FullUndo(c, u)))

ApplyFullTunnel(s, i, B, C) ==
  LET c == FullPlan(s, i, B, C)
  IN IF ~Attributable(s, i) THEN Done("failed", {s})
     ELSE Done("failed", Fail(s))
          \cup Bind(DeleteRules(s, c.stale),
                    LAMBDA o : IF o.ok THEN FullRoutes(c, o.s) ELSE Recovery(o.s))

Cleared(m) == [m EXCEPT !.mode = "only-forward", !.iface = NoIf, !.routes = {},
                        !.bypass = {}, !.critical = {}]

(* restoreOwnedTable() and restoreRemovedRules() *)
UndoClear(h, t) ==
  Bind(Try(t, [t EXCEPT !.host.table = h.table, !.host.full = h.full, !.host.bypass = h.bypass]),
       LAMBDA o : IF o.ok THEN Done("failed", {o.s}) ELSE Recovery(o.s))

ClearSave(t) ==
  Bind(SaveState([t EXCEPT !.mem = [Cleared(@) EXCEPT !.reapply = FALSE]]),
       LAMBDA o : IF o.ok THEN Done("ok", {o.s}) ELSE Invalidate(o.s))

(* The bypass rules are gone, the full rules F and the table outside G not. *)
ClearedUpTo(s, F, G) == SetTable([s EXCEPT !.host.bypass = {}, !.host.full = F], G, NoIf)

PartlyCleared(s) == {ClearedUpTo(s, F, G) : F \in SUBSET s.host.full, G \in SUBSET Families}

(* Rules without a table cannot be attributed, so they are not touched;    *)
(* a receipt with neither rules nor table is stale and is retired.         *)
ClearFullTunnel(s) ==
  LET h == s.host
  IN IF s.mem.iface = NoIf THEN Done("failed", {s})
     ELSE IF Owned(h) = {}
          THEN (IF h.full # {} \/ h.bypass \cap s.mem.bypass # {}
                THEN Done("failed", {s}) ELSE ClearSave(s))
               \cup Done("failed", Fail(s))
     ELSE IF \/ ~h.marked
             \/ \E f \in Owned(h) : h.table[f] # s.mem.iface
             \/ h.full = {} \/ h.bypass # s.mem.bypass
          THEN Done("failed", {s})
     ELSE Done("failed", Fail(s))
          \cup Bind(DeleteRules(s, s.mem.bypass),
                    LAMBDA o : IF o.ok
                               THEN ClearSave([o.s EXCEPT !.host.full = {},
                                                 !.host.table = [f \in Families |-> NoIf]])
                               ELSE UndoClear(h, o.s))
          \cup Bind(PartlyCleared(s), LAMBDA p : Bind(Fail(p), LAMBDA u : UndoClear(h, u)))

-----------------------------------------------------------------------------
(* The public operations. *)

Refused(s) == {[code |-> "recovery_required", s |-> s]}

(* A lock, a probe or a precondition that fails before the intent. *)
Preflight(s, Body(_)) ==
  Done("failed", Fail(s))
  \cup Bind(BeginMutation(s), LAMBDA o : IF o.ok THEN Body(o.s) ELSE Refused(o.s))

(* A transaction that committed retires its intent, or needs recovery. *)
Conclude(R) ==
  Bind(R, LAMBDA r : IF r.code = "ok" THEN FinishMutation(r.s, Recovery) ELSE FinishTransaction(r))

ClearFull(t) == Conclude(ClearFullTunnel(t))

ClearEmpty(s) == Bind(SaveState([s EXCEPT !.mem = Cleared(@)]),
                      LAMBDA o : IF o.ok THEN Done("ok", {o.s}) ELSE Invalidate(o.s))

ClearSplit(t) ==
  LET was == t.mem
  IN Bind(RemoveRoutes(t, was.iface, was.routes),
          LAMBDA o :
            IF o.ok
            THEN Bind(SaveState([o.s EXCEPT !.mem = Cleared(@)]),
                      LAMBDA v : IF v.ok THEN FinishMutation(v.s, Recovery)
                                 ELSE Bind(RestoreRoutes([v.s EXCEPT !.mem = was], was.iface, was.routes),
                                           LAMBDA u : Recovery(u.s)))
            ELSE Bind(RestoreRoutes(o.s, was.iface, o.gone),
                      LAMBDA u : IF u.ok THEN Finish(Done("failed", {u.s})) ELSE Recovery(u.s)))

ClearOwned(s) == IF s.mem.mode = "all-except" THEN Preflight(s, ClearFull)
                 ELSE IF s.mem.routes = {} THEN ClearEmpty(s)
                 ELSE Preflight(s, ClearSplit)

Clear(s) == IF s.mem.valid THEN ClearOwned(s) ELSE Refused(s)

(* The memory of a committed only-forward set. *)
OnlyForward(m, i, R) == [m EXCEPT !.iface = i, !.mode = "only-forward", !.routes = R,
                                  !.bypass = {}, !.critical = {}]

(* restorePrevious(): back to the fields "was" the call began with, from   *)
(* routes added on link i and routes gone from the old one.                *)
ApplyUndo(was, i, t, added, gone) ==
  Bind(RemoveRoutes(t, i, added),
       LAMBDA a : {[ok |-> a.ok /\ b.ok, s |-> b.s] : b \in
          IF was.mode = "all-except"
          THEN {[ok |-> r.code = "ok", s |-> r.s] :
                  r \in ApplyFullTunnel(a.s, was.iface, was.bypass, was.critical)}
          ELSE RestoreRoutes(a.s, was.iface, gone)})

ApplyAbort(was, i, t, added, gone) ==
  Bind(ApplyUndo(was, i, t, added, gone),
       LAMBDA u : IF u.ok THEN Finish(Done("failed", {u.s})) ELSE Recovery(u.s))

ApplyBack(was, i, t, added, gone) ==
  Bind(ApplyUndo(was, i, t, added, gone), LAMBDA u : Recovery(u.s))

ApplyCommit(was, i, R, t, added, gone) ==
  Bind(SaveState([t EXCEPT !.mem = OnlyForward(@, i, R)]),
       LAMBDA o : IF o.ok THEN FinishMutation(o.s, LAMBDA u : ApplyBack(was, i, u, added, gone))
                  ELSE ApplyBack(was, i, o.s, added, gone))

ApplyInstall(was, i, R, t) ==
  LET Added(D) == {r \in D : t.mem.iface # i \/ r \notin t.mem.routes}
      old == IF t.mem.iface = i THEN t.mem.routes \ R ELSE t.mem.routes
  IN Bind(ReplaceRoutes(t, i, R),
          LAMBDA o :
            IF ~o.ok THEN ApplyAbort(was, i, o.s, Added(o.done), {})
            ELSE Bind(RemoveRoutes(o.s, t.mem.iface, old),
                      LAMBDA v : IF v.ok THEN ApplyCommit(was, i, R, v.s, Added(R), v.gone)
                                 ELSE ApplyAbort(was, i, v.s, Added(R), v.gone)))

ApplySwitch(i, R, t) ==
  IF t.mem.mode # "all-except" THEN ApplyInstall(t.mem, i, R, t)
  ELSE Bind(ClearFullTunnel(t),
            LAMBDA r : IF r.code = "ok" THEN ApplyInstall(t.mem, i, R, r.s)
                       ELSE FinishTransaction(r))

(* Only-forward: the new routes are added before the old ones are retired. *)
Apply(s, i, R) ==
  IF ~s.mem.valid THEN Refused(s)
  ELSE IF R = {} THEN Clear(s)
  ELSE IF \E r \in R : s.host.main[r] \notin {NoIf, i, s.mem.iface} THEN Done("failed", {s})
  ELSE Preflight(s, LAMBDA t : ApplySwitch(i, R, t))

ApplyAllExcept(s, i, B, C) ==
  IF ~s.mem.valid THEN Refused(s)
  ELSE Preflight(s, LAMBDA t : Conclude(ApplyFullTunnel(t, i, B, C)))

SetDns(s, i, v) == [s EXCEPT !.host.dns = [j \in Ifaces |-> IF j = i THEN v ELSE @[j]]]

Bound == {"dns", "domain"}

(* resolvectl answers only for a link that exists. *)
Resolvectl(s, i, v) == IF i \in s.host.up THEN Try(s, SetDns(s, i, v))
                       ELSE {[ok |-> FALSE, s |-> s]}

(* restorePreviousDns() *)
DnsRestore(i, prev, t) ==
  Bind(IF i # prev THEN Resolvectl(t, i, {}) ELSE {[ok |-> TRUE, s |-> t]},
       LAMBDA a : IF prev = NoIf THEN {a}
                  ELSE {[ok |-> a.ok /\ b.ok, s |-> b.s] : b \in Resolvectl(a.s, prev, Bound)})

DnsAbort(i, prev, t) ==
  Bind(DnsRestore(i, prev, t), LAMBDA o : IF o.ok THEN Finish(Done("failed", {o.s}))
                                          ELSE Recovery(o.s))

DnsPublish(i, prev, t) ==
  Bind(SaveState([t EXCEPT !.mem.dns = i]),
       LAMBDA o : IF o.ok THEN FinishMutation(o.s, Recovery)
                  ELSE Bind(DnsRestore(i, prev, [o.s EXCEPT !.mem.dns = prev]),
                            LAMBDA u : Recovery(u.s)))

DnsRetire(i, prev, t) ==
  Bind(IF prev \notin {NoIf, i} THEN Resolvectl(t, prev, {}) ELSE {[ok |-> TRUE, s |-> t]},
       LAMBDA o : IF o.ok THEN DnsPublish(i, prev, o.s)
                               \cup Bind(Fail(o.s), LAMBDA u : DnsAbort(i, prev, u))
                  ELSE DnsAbort(i, prev, o.s))

DnsBind(i, prev, t) ==
  Bind(Resolvectl(t, i, t.host.dns[i] \cup {"dns"}),
       LAMBDA o : IF ~o.ok THEN Finish(Done("failed", {o.s}))
                  ELSE Bind(Resolvectl(o.s, i, Bound),
                            LAMBDA v : IF v.ok THEN DnsRetire(i, prev, v.s)
                                       ELSE DnsAbort(i, prev, v.s)))

ConfigureDns(s, i) ==
  IF ~s.mem.valid THEN Refused(s) ELSE Preflight(s, LAMBDA t : DnsBind(i, s.mem.dns, t))

DnsForget(t) == SaveState([t EXCEPT !.mem.dns = NoIf])

(* The readback fails, or the binding is gone from the receipt as well. *)
DnsReverted(prev, t) ==
  Finish(Done("failed", Fail(t)))
  \cup Bind(DnsForget(t),
            LAMBDA o : IF o.ok THEN FinishMutation(o.s, Recovery)
                       ELSE Bind(IF prev = NoIf THEN {o}
                                 ELSE Resolvectl([o.s EXCEPT !.mem.dns = prev], prev, Bound),
                                 LAMBDA u : Recovery(u.s)))

(* A revert that fails on a link that is gone is a binding that is gone as *)
(* well.                                                                   *)
DnsRevert(i, prev, t) ==
  IF i \notin t.host.up
  THEN Bind(DnsForget(t), LAMBDA o : IF o.ok THEN FinishMutation(o.s, Recovery)
                                     ELSE Invalidate(o.s))
  ELSE Bind(Resolvectl(t, i, {}), LAMBDA o : IF o.ok THEN DnsReverted(prev, o.s)
                                             ELSE Finish(Done("failed", {o.s})))

(* "arg" is the link to revert, NoIf for the one of the receipt. *)
ClearDns(s, arg) ==
  LET prev == s.mem.dns
      i == IF arg = NoIf THEN prev ELSE arg
  IN IF ~s.mem.valid THEN Refused(s)
     ELSE IF prev # NoIf /\ i # prev THEN Done("failed", {s})
     ELSE IF i = NoIf THEN Bind(DnsForget(s), LAMBDA o : IF o.ok THEN Done("ok", {o.s})
                                                         ELSE Invalidate(o.s))
     ELSE Preflight(s, LAMBDA t : DnsRevert(i, prev, t))

-----------------------------------------------------------------------------
(* Start-up: the receipt is believed only when the kernel agrees with it.  *)

Managed(h) == {r \in Prefixes : h.main[r] \in Ifaces}

Fresh == [valid |-> TRUE, mode |-> "only-forward", iface |-> NoIf, routes |-> {},
          bypass |-> {}, critical |-> {}, dns |-> NoIf, reapply |-> FALSE]

Rejected(s) == {[s EXCEPT !.mem = [Fresh EXCEPT !.valid = FALSE, !.mode = "recovery_required"]]}

Broken(S) == {[ok |-> FALSE, s |-> t] : t \in S}

(* The rewrite of the table, route by route, inside its intent. *)
RewriteTable(t) ==
  Bind(ClearTransactionIntent([t EXCEPT !.host.marked = TRUE]),
       LAMBDA v : IF v.ok THEN {v} ELSE Broken(MarkRecoveryRequired(v.s)))
  \cup Broken(Fail(t))
  \cup Broken(Bind(Fail(t), LAMBDA u : Bind(Fail(u), MarkRecoveryRequired)))

(* A table written before routes carried the owner's protocol mark is      *)
(* rewritten.                                                              *)
MigrateLegacyTable(s) ==
  IF s.host.marked THEN {[ok |-> TRUE, s |-> s]}
  ELSE Bind(BeginMutation(s), LAMBDA o : IF o.ok THEN RewriteTable(o.s) ELSE {o})

(* The link of a full tunnel is gone, and with it the table; the rules are *)
(* still there.  A later connect() may put the tunnel back.                *)
Offline(rec, h) == rec.mode = "all-except" /\ Owned(h) = {} /\ rec.iface \notin h.up

KernelAgrees(rec, h) ==
  CASE rec.mode = "none" -> Owned(h) = {} /\ h.full = {} /\ Managed(h) = {}
    [] rec.mode = "only-forward" ->
         /\ Owned(h) = {} /\ h.full = {}
         /\ Managed(h) = rec.routes
         /\ \A r \in rec.routes : h.main[r] = rec.iface
    [] rec.mode = "all-except" ->
         /\ Offline(rec, h) \/ \A f \in Families : h.table[f] = rec.iface
         /\ h.full = Families
         /\ h.bypass = rec.bypass
    [] OTHER -> FALSE

DnsAgrees(rec, h) ==
  rec.dns # NoIf => /\ rec.iface \in {NoIf, rec.dns}
                    /\ h.dns[rec.dns] # {} \/ (Offline(rec, h) /\ rec.dns = rec.iface)

Loaded(rec, offline) ==
  [valid |-> TRUE, mode |-> IF rec.mode = "none" THEN "only-forward" ELSE rec.mode,
   iface |-> rec.iface, routes |-> rec.routes, bypass |-> rec.bypass,
   critical |-> rec.critical, dns |-> rec.dns, reapply |-> offline]

(* A receipt that is believed is saved again when it said otherwise of     *)
(* needsReapply.                                                           *)
Accept(t) ==
  LET rec == t.disk.receipt
      offline == Offline(rec, t.host)
      u == [t EXCEPT !.mem = Loaded(rec, offline)]
  IN IF rec.mode = "none" \/ rec.reapply = offline THEN {u}
     ELSE Bind(SaveState(u), LAMBDA o : IF o.ok THEN {o.s} ELSE Rejected(o.s))

LoadState(s) ==
  IF \/ s.disk.marker \/ s.disk.intent
     \/ ~KernelAgrees(s.disk.receipt, s.host) \/ ~DnsAgrees(s.disk.receipt, s.host) THEN Rejected(s)
  ELSE Bind(MigrateLegacyTable(s), LAMBDA o : IF o.ok THEN Accept(o.s) ELSE Rejected(o.s))
       \cup Bind(Fail(s), Rejected)

-----------------------------------------------------------------------------
(* The host around the reconciler. *)

VARIABLES host,    \* the kernel: links up, main, table, full, bypass, dns, marked
          mem,     \* the reconciler's fields
          disk,    \* receipt, intent and recovery marker
          faults   \* failures still to come

Becomes(s) == /\ host' = s.host /\ mem' = s.mem
              /\ disk' = s.disk /\ faults' = s.faults

CleanHost == [up |-> {}, main |-> [r \in Prefixes |-> NoIf],
              table |-> [f \in Families |-> NoIf], full |-> {}, bypass |-> {},
              dns |-> [i \in Ifaces |-> {}], marked |-> TRUE]

(* Routes, table entries and the resolver binding die with their link;     *)
(* policy rules do not.                                                    *)
LinkGone(h, i) ==
  [h EXCEPT !.up = @ \ {i},
            !.main = [r \in Prefixes |-> IF @[r] = i THEN NoIf ELSE @[r]],
            !.table = [f \in Families |-> IF @[f] = i THEN NoIf ELSE @[f]],
            !.dns = [j \in Ifaces |-> IF j = i THEN {} ELSE @[j]],
            !.marked = @ \/ \E f \in Families : h.table[f] = i]

(* What the kernel enforces, and what a receipt or the object says of it.  *)
InForce(h) == {<<"main", r, h.main[r]>> : r \in Managed(h)}
              \cup {<<"table", f, h.table[f]>> : f \in Owned(h)}
              \cup {<<"full", f, NoIf>> : f \in h.full}
              \cup {<<"bypass", r, NoIf>> : r \in h.bypass}

Promised(m) ==
  IF m.mode = "all-except"
  THEN {<<"table", f, m.iface>> : f \in Families} \cup {<<"full", f, NoIf>> : f \in Families}
       \cup {<<"bypass", r, NoIf>> : r \in m.bypass}
  ELSE {<<"main", r, m.iface>> : r \in m.routes}

(* The next start refuses to work. *)
Distrusted(d) == d.intent \/ d.marker \/ d.receipt.mode = "recovery_required"
=============================================================================
