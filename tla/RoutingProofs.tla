--------------------------- MODULE RoutingProofs ---------------------------
(***************************************************************************)
(* Proofs about the route reconciler and the routing controller, for any   *)
(* links, prefixes, profiles and policies and any number of failures,      *)
(* crashes and lost links.                                                 *)
(*                                                                         *)
(* The argument is that of the code's write-ahead intent.  Between two     *)
(* transactions a state is Good: the next start would refuse, or finds a   *)
(* receipt that accounts for the kernel, and an object that still works    *)
(* says the same as its receipt.  Inside a transaction (Held) the kernel   *)
(* may hold anything, because the intent is on disk.  The intent is        *)
(* retired only by a transaction that did not ask for recovery, so each    *)
(* of those must end Sound: a commit saves what it has read back, and an   *)
(* undo that succeeds has restored what it began with.                     *)
(***************************************************************************)
EXTENDS RoutingController, TLAPS

HostFields == {"up", "main", "table", "full", "bypass", "dns", "marked"}
MemFields == {"valid", "mode", "iface", "routes", "bypass", "critical", "dns", "reapply"}
DiskFields == {"receipt", "intent", "marker"}

\* The fields of a state that the code may write.
Fields(s) ==
  /\ {"host", "mem", "disk", "faults", "ctl", "cdisk"} \subseteq DOMAIN s
  /\ HostFields \subseteq DOMAIN s.host /\ MemFields \subseteq DOMAIN s.mem
  /\ DiskFields \subseteq DOMAIN s.disk

\* Receipt or object m accounts for all that the kernel h holds.
Accounts(h, m) ==
  IF m.mode = "all-except"
  THEN /\ Managed(h) = {} /\ \A f \in Owned(h) : h.table[f] = m.iface
       /\ h.full \subseteq Families /\ h.bypass \subseteq m.bypass
  ELSE /\ Owned(h) = {} /\ h.full = {} /\ h.bypass = {}
       /\ \A r \in Managed(h) : r \in m.routes /\ h.main[r] = m.iface

\* The object and the receipt make the same promise.
Agree(m, rec) ==
  /\ m.mode = "all-except" <=> rec.mode = "all-except"
  /\ m.iface = rec.iface /\ m.routes = rec.routes /\ m.bypass = rec.bypass

\* The object works, and what it and its receipt promise is what the kernel holds.
Sound(s) == s.mem.valid /\ Accounts(s.host, s.mem) /\ Agree(s.mem, s.disk.receipt)

\* The next start would refuse, or find a receipt that accounts for the kernel.
Honest(s) == Distrusted(s.disk) \/ Accounts(s.host, s.disk.receipt)

\* Between two transactions.
Good(s) == Fields(s) /\ Honest(s) /\ (s.mem.valid => Sound(s))

\* Inside a transaction the intent is on disk.
Held(s) == Fields(s) /\ s.disk.intent = TRUE

\* A transaction that did not ask for recovery has left a sound state.
Fine(r) == IF r.code = "recovery_required" THEN r.s.mem.valid = FALSE ELSE Sound(r.s)

\* Another state of the same object and files: only the kernel may differ.
Frame(t, s) == Fields(t) /\ t.mem = s.mem /\ t.disk = s.disk

\* To account for the kernel is to promise all that is in force there.
LEMMA AccountsCovers ==
  ASSUME NEW h, NEW m, Accounts(h, m)
  PROVE  InForce(h) \subseteq Promised(m)
<1> SUFFICES ASSUME NEW x \in InForce(h) PROVE x \in Promised(m) OBVIOUS
<1>1. CASE \E r \in Managed(h) : x = <<"main", r, h.main[r]>> BY <1>1 DEF Accounts, Promised
<1>2. CASE \E f \in Owned(h) : x = <<"table", f, h.table[f]>> BY <1>2 DEF Accounts, Promised, Owned
<1>3. CASE \E f \in h.full : x = <<"full", f, NoIf>> BY <1>3 DEF Accounts, Promised
<1>4. CASE \E r \in h.bypass : x = <<"bypass", r, NoIf>> BY <1>4 DEF Accounts, Promised
<1> QED BY <1>1, <1>2, <1>3, <1>4 DEF InForce

\* A receipt and an object that agree account for the same kernels.
LEMMA AgreeAccounts ==
  ASSUME NEW h, NEW m, NEW rec, Agree(m, rec)
  PROVE  Accounts(h, m) <=> Accounts(h, rec)
BY DEF Agree, Accounts

\* A sound state may stand between two transactions, with or without an intent.
LEMMA SoundIsGood ==
  ASSUME NEW s, Fields(s), Sound(s)
  PROVE  Good(s)
BY AgreeAccounts DEF Sound, Good, Honest

\* With an intent on disk and a refusing object, the kernel may hold anything.
LEMMA HeldInvalidIsGood ==
  ASSUME NEW s, Held(s), ~s.mem.valid
  PROVE  Good(s)
BY DEF Held, Good, Honest, Distrusted

\* A failed command, probe or save changes nothing but the count of failures.
LEMMA FailFrame ==
  ASSUME NEW s, Fields(s), NEW u \in Fail(s)
  PROVE  Frame(u, s) /\ u.host = s.host
BY DEF Fail, Frame, Fields, HostFields, MemFields, DiskFields

\* A state that differs in neither kernel, object nor files is as good.
LEMMA FrameIsGood ==
  ASSUME NEW s, Good(s), NEW u, Frame(u, s), u.host = s.host
  PROVE  Good(u) /\ (Sound(s) => Sound(u)) /\ (Held(s) => Held(u))
BY DEF Good, Frame, Honest, Sound, Held

\* An attempt has its effect, or none.
LEMMA TryDoes ==
  ASSUME NEW s, NEW t, NEW o \in Try(s, t)
  PROVE  \/ o = [ok |-> TRUE, s |-> t] /\ o.ok /\ o.s = t
         \/ o.ok = FALSE /\ o.s \in Fail(s)
BY DEF Try

\* saveState(): the receipt is the object's, or the files are as before.
LEMMA SaveStateDoes ==
  ASSUME NEW s, Fields(s), NEW o \in SaveState(s)
  PROVE  /\ Fields(o.s) /\ o.ok \in BOOLEAN /\ o.s.host = s.host /\ o.s.mem = s.mem
         /\ o.s.disk.intent = s.disk.intent /\ o.s.disk.marker = s.disk.marker
         /\ o.ok => o.s.disk.receipt = Receipt(s.mem) /\ Agree(s.mem, o.s.disk.receipt)
         /\ ~o.ok => o.s.disk = s.disk
<1>1. CASE o = [ok |-> TRUE, s |-> [s EXCEPT !.disk.receipt = Receipt(s.mem)]]
  BY <1>1 DEF Fields, HostFields, MemFields, DiskFields, Agree, Receipt
<1>2. CASE \E u \in Fail(s) : o = [ok |-> FALSE, s |-> u] BY <1>2, FailFrame DEF Frame
<1> QED BY <1>1, <1>2 DEF SaveState, Try

\* markRecoveryRequired(): the object refuses at once, and what the files said to
\* the next start is not made to say more: the receipt refuses, or it is the old
\* one.
LEMMA MarkDoes ==
  ASSUME NEW s, Fields(s), NEW u \in MarkRecoveryRequired(s)
  PROVE  /\ Fields(u) /\ u.mem.valid = FALSE /\ u.host = s.host /\ u.disk.intent = s.disk.intent
         /\ u.disk.receipt.mode = "recovery_required"
            \/ (u.disk.receipt = s.disk.receipt /\ (s.disk.marker => u.disk.marker))
         /\ Held(s) => Held(u) /\ Good(u)
         /\ Honest(s) => Good(u)
<1> DEFINE t == [s EXCEPT !.mem.valid = FALSE, !.mem.mode = "recovery_required"]
<1>1. /\ Fields(t) /\ t.host = s.host /\ t.disk = s.disk /\ t.mem.valid = FALSE
      /\ t.mem.mode = "recovery_required" BY DEF Fields, HostFields, MemFields, DiskFields
<1>2. PICK o \in SaveState(t) : u \in IF o.ok THEN {[o.s EXCEPT !.disk.marker = FALSE]}
                  ELSE {p.s : p \in Try(o.s, [o.s EXCEPT !.disk.marker = TRUE])} BY DEF MarkRecoveryRequired, Bind
<1> HIDE DEF t
<1>3. /\ Fields(o.s) /\ o.ok \in BOOLEAN /\ o.s.host = s.host /\ o.s.mem = t.mem
      /\ o.s.disk.intent = s.disk.intent /\ o.s.disk.marker = s.disk.marker
      /\ o.ok => o.s.disk.receipt.mode = "recovery_required"
      /\ ~o.ok => o.s.disk = s.disk
  <2>1. Receipt(t.mem).mode = "recovery_required" BY <1>1 DEF Receipt
  <2> QED BY <1>1, <1>2, <2>1, SaveStateDoes
<1>4. /\ Fields(u) /\ u.mem.valid = FALSE /\ u.host = s.host /\ u.disk.intent = s.disk.intent
      /\ u.disk.receipt.mode = "recovery_required"
            \/ (u.disk.receipt = s.disk.receipt /\ (s.disk.marker => u.disk.marker))
  <2>1. CASE o.ok BY <1>1, <1>2, <1>3, <2>1 DEF Fields, HostFields, MemFields, DiskFields
  <2>2. CASE ~o.ok
    <3>1. CASE u = [o.s EXCEPT !.disk.marker = TRUE]
      BY <1>1, <1>3, <2>2, <3>1 DEF Fields, HostFields, MemFields, DiskFields
    <3>2. CASE u \in Fail(o.s) BY <1>1, <1>3, <2>2, <3>2, FailFrame DEF Frame
    <3>3. PICK p \in Try(o.s, [o.s EXCEPT !.disk.marker = TRUE]) : u = p.s BY <1>2, <2>2
    <3>4. CASE p.s = [o.s EXCEPT !.disk.marker = TRUE] BY <3>1, <3>3, <3>4
    <3>5. CASE p.s \in Fail(o.s) BY <3>2, <3>3, <3>5
    <3> QED BY <3>3, <3>4, <3>5, TryDoes
  <2> QED BY <1>3, <2>1, <2>2
<1>5. Held(s) => Held(u) /\ Good(u) BY <1>4, HeldInvalidIsGood DEF Held
<1> QED BY <1>4, <1>5 DEF Honest, Good, Distrusted

\* A transaction that ends in recovery_required keeps its intent on disk.
LEMMA RecoveryDoes ==
  ASSUME NEW s, Held(s), NEW r \in Recovery(s)
  PROVE  r.code = "recovery_required" /\ Held(r.s) /\ r.s.mem.valid = FALSE /\ Good(r.s) /\ Fine(r)
         /\ {"code", "s"} \subseteq DOMAIN r
<1>1. PICK u \in MarkRecoveryRequired(s) : r = [code |-> "recovery_required", s |-> u] BY DEF Recovery, Done
<1> QED BY <1>1, MarkDoes DEF Held, Fine

\* Where only the object in memory is invalidated, the files are untouched.
LEMMA InvalidateDoes ==
  ASSUME NEW s, Fields(s), NEW r \in Invalidate(s)
  PROVE  /\ r.code = "recovery_required" /\ r.s.mem.valid = FALSE /\ Fine(r) /\ Fields(r.s)
         /\ {"code", "s"} \subseteq DOMAIN r
         /\ Held(s) => Held(r.s) /\ Good(r.s)
         /\ Honest(s) => Good(r.s)
<1> DEFINE u == [s EXCEPT !.mem.valid = FALSE, !.mem.mode = "recovery_required"]
<1>1. r = [code |-> "recovery_required", s |-> u] BY DEF Invalidate
<1>2. Fields(u) /\ u.mem.valid = FALSE /\ u.disk = s.disk /\ u.host = s.host
  BY DEF Fields, HostFields, MemFields, DiskFields
<1> HIDE DEF u
<1> QED BY <1>1, <1>2, HeldInvalidIsGood DEF Fine, Held, Good, Honest

\* beginMutation(): on success the intent is on disk; nothing else changes.
LEMMA BeginKeeps ==
  ASSUME NEW s, Fields(s), NEW o \in BeginMutation(s)
  PROVE  /\ o.ok \in BOOLEAN /\ Fields(o.s) /\ o.s.host = s.host /\ o.s.mem = s.mem
         /\ o.s.disk.receipt = s.disk.receipt
         /\ o.ok => Held(o.s)
         /\ ~o.ok => o.s.disk = s.disk
<1> DEFINE t == [s EXCEPT !.disk.intent = TRUE]
<1>1. Held(t) /\ t.host = s.host /\ t.mem = s.mem /\ t.disk.receipt = s.disk.receipt
  BY DEF Held, Fields, HostFields, MemFields, DiskFields
<1>2. o = [ok |-> FALSE, s |-> s] \/ o \in Try(s, t) BY DEF BeginMutation
<1> HIDE DEF t
<1>3. CASE o = [ok |-> FALSE, s |-> s] BY <1>3
<1>4. CASE o.ok /\ o.s = t /\ o \in Try(s, t) BY <1>1, <1>4, TryDoes DEF Held
<1>5. CASE o.ok = FALSE /\ o.s \in Fail(s) BY <1>5, FailFrame DEF Frame
<1> QED BY <1>2, <1>3, <1>4, <1>5, TryDoes

\* beginMutation() from a good state; a sound object stays sound.
LEMMA BeginDoes ==
  ASSUME NEW s, Good(s), NEW o \in BeginMutation(s)
  PROVE  /\ o.ok \in BOOLEAN /\ Good(o.s) /\ (s.mem.valid => Sound(o.s))
         /\ o.s.host = s.host /\ o.s.mem = s.mem /\ o.s.disk.receipt = s.disk.receipt
         /\ o.ok => Held(o.s)
BY BeginKeeps DEF Good, Sound, Held, Honest, Distrusted

\* clearTransactionIntent(): from a sound state either outcome is good.
LEMMA RetireDoes ==
  ASSUME NEW s, Held(s), NEW o \in ClearTransactionIntent(s)
  PROVE  /\ o.ok \in BOOLEAN /\ Fields(o.s) /\ o.s.host = s.host /\ o.s.mem = s.mem
         /\ o.s.disk.receipt = s.disk.receipt
         /\ ~o.ok => Held(o.s)
         /\ Sound(s) => Sound(o.s) /\ Good(o.s)
<1>1. CASE o = [ok |-> TRUE, s |-> [s EXCEPT !.disk.intent = FALSE]]
  BY <1>1, SoundIsGood DEF Held, Fields, HostFields, MemFields, DiskFields, Sound
<1>2. CASE \E u \in Fail(s) : o = [ok |-> FALSE, s |-> u] BY <1>2, FailFrame, SoundIsGood DEF Held, Frame, Sound
<1> QED BY <1>1, <1>2 DEF ClearTransactionIntent, Try, Held

\* finishTransaction(): a transaction that did not ask for recovery is sound, so
\* its intent may be retired.
LEMMA FinishTransactionDoes ==
  ASSUME NEW r, Held(r.s), Fine(r), {"code", "s"} \subseteq DOMAIN r, NEW q \in FinishTransaction(r)
  PROVE  Good(q.s)
<1>1. CASE r.code = "recovery_required" BY <1>1, HeldInvalidIsGood DEF FinishTransaction, Fine
<1>2. CASE r.code # "recovery_required"
  <2>1. PICK o \in ClearTransactionIntent(r.s) : q \in IF o.ok THEN {[r EXCEPT !.s = o.s]} ELSE Recovery(o.s)
    BY <1>2 DEF FinishTransaction, Bind
  <2>2. Sound(r.s) BY <1>2 DEF Fine
  <2> QED BY <2>1, <2>2, RetireDoes, RecoveryDoes
<1> QED BY <1>1, <1>2

\* finishMutation() after a commit.
LEMMA FinishMutationDoes ==
  ASSUME NEW s, Held(s), Sound(s), NEW q \in FinishMutation(s, Recovery)
  PROVE  Good(q.s)
<1>1. PICK o \in ClearTransactionIntent(s) : q \in IF o.ok THEN Done("ok", {o.s}) ELSE Recovery(o.s)
  BY DEF FinishMutation, Bind
<1>2. CASE o.ok BY <1>1, <1>2, RetireDoes DEF Done
<1>3. CASE ~o.ok BY <1>1, <1>3, RetireDoes, RecoveryDoes
<1> QED BY <1>2, <1>3

\* Finish(Done("failed", {s}))
LEMMA FinishFailedDoes ==
  ASSUME NEW s, Held(s), Sound(s), NEW q \in Finish(Done("failed", {s}))
  PROVE  Good(q.s)
<1> DEFINE r == [code |-> "failed", s |-> s]
<1>1. q \in FinishTransaction(r) BY DEF Finish, Bind, Done
<1>2. r.s = s /\ r.code = "failed" /\ {"code", "s"} \subseteq DOMAIN r OBVIOUS
<1> HIDE DEF r
<1> QED BY <1>1, <1>2, FinishTransactionDoes DEF Fine

\* The two ways a full-tunnel transaction is concluded.
LEMMA ConcludeDoes ==
  ASSUME NEW R, \A r \in R : Held(r.s) /\ Fine(r) /\ {"code", "s"} \subseteq DOMAIN r, NEW q \in Conclude(R)
  PROVE  Good(q.s)
<1>1. PICK r \in R : q \in IF r.code = "ok" THEN FinishMutation(r.s, Recovery) ELSE FinishTransaction(r)
  BY DEF Conclude, Bind
<1>2. CASE r.code = "ok" BY <1>1, <1>2, FinishMutationDoes DEF Fine
<1>3. CASE r.code # "ok" BY <1>1, <1>3, FinishTransactionDoes
<1> QED BY <1>2, <1>3

\* An early return leaves the state it found.
LEMMA RefusedDoes ==
  ASSUME NEW s, Good(s), NEW q \in Refused(s) \cup Done("failed", {s}) \cup Done("failed", Fail(s))
                                   \cup Done("ok", {s})
  PROVE  Good(q.s)
<1>1. CASE q.s = s BY <1>1
<1>2. CASE q.s \in Fail(s) BY <1>2, FailFrame, FrameIsGood DEF Good
<1> QED BY <1>1, <1>2 DEF Refused, Done

\* Two kernels that differ in the main table and the resolver only.
SameRules(g, h) == g.table = h.table /\ g.full = h.full /\ g.bypass = h.bypass /\ g.up = h.up

\* Two kernels that differ in rules, table and resolver only.
SameMain(g, h) == g.main = h.main /\ g.up = h.up

\* What a batch of route commands writes, route by route.
LEMMA SetMainDoes ==
  ASSUME NEW s, Fields(s), NEW R, NEW i
  PROVE  /\ Frame(SetMain(s, R, i), s) /\ SameRules(SetMain(s, R, i).host, s.host)
         /\ \A r \in Prefixes : SetMain(s, R, i).host.main[r] = IF r \in R THEN i ELSE s.host.main[r]
BY DEF SetMain, Frame, SameRules, Fields, HostFields, MemFields, DiskFields

\* The loop over ip route replace: the routes done go to the link, no others.
LEMMA ReplaceRoutesDoes ==
  ASSUME NEW s, Fields(s), NEW i, NEW R, NEW o \in ReplaceRoutes(s, i, R)
  PROVE  /\ o.ok \in BOOLEAN /\ Frame(o.s, s) /\ SameRules(o.s.host, s.host)
         /\ o.done \subseteq R /\ (o.ok => o.done = R)
         /\ \A r \in Prefixes : o.s.host.main[r] = IF r \in o.done THEN i ELSE s.host.main[r]
<1>1. CASE o = [ok |-> TRUE, s |-> SetMain(s, R, i), done |-> R] BY <1>1, SetMainDoes
<1>2. CASE o = [ok |-> FALSE, s |-> s, done |-> {}] BY <1>2 DEF Frame, SameRules
<1>3. CASE \E u \in Fail(s), D \in IF i \in s.host.up THEN SUBSET R \ {R} ELSE {{}} :
             o = [ok |-> FALSE, s |-> SetMain(u, D, i), done |-> D] BY <1>3, FailFrame, SetMainDoes DEF Frame
<1> QED BY <1>1, <1>2, <1>3 DEF ReplaceRoutes

\* removeRoutes(): only routes asked for leave, and on success all of them have.
LEMMA RemoveRoutesDoes ==
  ASSUME NEW s, Fields(s), NEW i, NEW R, NEW o \in RemoveRoutes(s, i, R)
  PROVE  /\ o.ok \in BOOLEAN /\ Frame(o.s, s) /\ SameRules(o.s.host, s.host)
         /\ o.gone \subseteq R
         /\ \A r \in Prefixes : o.s.host.main[r] = IF r \in o.gone THEN NoIf ELSE s.host.main[r]
         /\ o.ok => \A r \in Prefixes \cap R : o.s.host.main[r] \notin Ifaces
<1> DEFINE mine == {r \in R : s.host.main[r] = i}
           others == {r \in R : s.host.main[r] \in Ifaces \ {i}}
<1>1. CASE o = [ok |-> TRUE, s |-> s, gone |-> {}] /\ R = {} BY <1>1 DEF Frame, SameRules
<1>2. CASE o = [ok |-> FALSE, s |-> s, gone |-> {}] BY <1>2 DEF Frame, SameRules
<1>3. CASE o = [ok |-> TRUE, s |-> SetMain(s, mine, NoIf), gone |-> mine] /\ others = {}
  BY <1>3, SetMainDoes, RouteConstants
<1>4. CASE \E t \in {s} \cup Fail(s), D \in SUBSET mine :
             o = [ok |-> FALSE, s |-> SetMain(t, D, NoIf), gone |-> D] BY <1>4, FailFrame, SetMainDoes DEF Frame
<1> HIDE DEF mine, others
<1> QED BY <1>1, <1>2, <1>3, <1>4 DEF RemoveRoutes, Bind, mine, others

\* restoreRoutes(): some of the routes return to the link, no others move.
LEMMA RestoreRoutesDoes ==
  ASSUME NEW s, Fields(s), NEW i, NEW R, NEW o \in RestoreRoutes(s, i, R)
  PROVE  /\ o.ok \in BOOLEAN /\ Frame(o.s, s) /\ SameRules(o.s.host, s.host)
         /\ \E D \in SUBSET R : \A r \in Prefixes :
              o.s.host.main[r] = IF r \in D THEN i ELSE s.host.main[r]
<1>1. CASE o = [ok |-> FALSE, s |-> s]
  <2>1. {} \in SUBSET R /\ \A r \in Prefixes :
           o.s.host.main[r] = IF r \in {} THEN i ELSE s.host.main[r] BY <1>1
  <2> QED BY <1>1, <2>1 DEF Frame, SameRules
<1>2. CASE \E p \in ReplaceRoutes(s, i, R) : o = [ok |-> p.ok, s |-> p.s] BY <1>2, ReplaceRoutesDoes
<1> QED BY <1>1, <1>2 DEF RestoreRoutes

\* The plan of an installation that starts in s.
Plan(c, s) ==
  /\ Held(s) /\ c.h = s.host /\ c.iface = s.mem.iface
  /\ IF s.mem.mode = "all-except"
     THEN c.stale = s.mem.bypass \ c.B /\ c.new = c.B \ s.host.bypass /\ c.split = {}
     ELSE c.stale = {} /\ c.new = c.B /\ c.split = s.mem.routes

\* Nothing was left to guess when it started.
Sure(c, s) == Sound(s) /\ Attributable(s, c.i)

\* What the installation may have done so far.
Under(c, s, t) ==
  /\ Frame(t, s)
  /\ t.host.bypass \subseteq (c.h.bypass \ c.stale) \cup c.new
  /\ \A r \in Prefixes : t.host.main[r] = c.h.main[r] \/ t.host.main[r] = NoIf

\* u is t after the undo, with the routes D of the main table back.
Undone(c, t, u, D) ==
  /\ u.host.table = c.h.table /\ u.host.full \subseteq c.h.full
  /\ u.host.bypass = (t.host.bypass \ c.new) \cup c.stale
  /\ \A r \in Prefixes : u.host.main[r] = IF r \in D THEN c.iface ELSE t.host.main[r]

\* Where the installation may end.
Ends(c, s, r) == Held(r.s) /\ {"code", "s"} \subseteq DOMAIN r /\ (Sure(c, s) => Fine(r))

\* An undone full-tunnel installation is as sound as what it began with: rollback()
\* puts back the rules it retired and takes away those it added.
LEMMA UndoneIsSound ==
  ASSUME NEW s, NEW c, Plan(c, s), Sure(c, s), NEW t, Under(c, s, t), NEW u, Frame(u, s),
         NEW D, D \subseteq c.split, Undone(c, t, u, D)
  PROVE  Sound(u)
<1>1. u.mem = s.mem /\ u.disk = s.disk BY DEF Frame
<1>2. Accounts(s.host, s.mem) BY DEF Sure, Sound
<1>3. CASE s.mem.mode = "all-except"
  BY <1>3, <1>2, RouteConstants, <1>1 DEF Sure, Attributable, Plan, Accounts, Managed, Undone, Under, Owned, Sound
<1>4. CASE s.mem.mode # "all-except"
  BY <1>2, <1>4, RouteConstants, <1>1 DEF Accounts, Undone, Plan, Owned, Under, Managed, Sure, Sound
<1> QED BY <1>3, <1>4

\* rollback(): table, rules and bypass rules; the main table is untouched.
LEMMA FullRollbackDoes ==
  ASSUME NEW c, NEW t, Fields(t), NEW o \in FullRollback(c, t)
  PROVE  /\ o.ok \in BOOLEAN /\ Frame(o.s, t) /\ SameMain(o.s.host, t.host)
         /\ o.ok => /\ o.s.host.table = c.h.table /\ o.s.host.full \subseteq c.h.full
                    /\ o.s.host.bypass = (t.host.bypass \ c.new) \cup c.stale
<1> DEFINE u == [t EXCEPT !.host.table = c.h.table,
                          !.host.full = @ \cap c.h.full,
                          !.host.bypass = (@ \ c.new) \cup c.stale]
<1>1. /\ Frame(u, t) /\ SameMain(u.host, t.host)
      /\ u.host.table = c.h.table /\ u.host.full \subseteq c.h.full
      /\ u.host.bypass = (t.host.bypass \ c.new) \cup c.stale
  BY DEF Frame, SameMain, Fields, HostFields, MemFields, DiskFields
<1>2. o \in Try(t, u) BY DEF FullRollback
<1> HIDE DEF u
<1>3. CASE o.ok /\ o.s = u BY <1>1, <1>2, <1>3, TryDoes
<1>4. CASE o.ok = FALSE /\ o.s \in Fail(t) BY <1>4, FailFrame DEF SameMain
<1> QED BY <1>2, <1>3, <1>4, TryDoes

\* The undo of a full tunnel before any split route was retired.
LEMMA FullUndoDoes ==
  ASSUME NEW s, NEW c, Plan(c, s), NEW t, Under(c, s, t), NEW r \in FullUndo(c, t)
  PROVE  Ends(c, s, r)
<1>1. PICK o \in FullRollback(c, t) : r \in IF o.ok THEN Done("failed", {o.s}) ELSE Recovery(o.s)
  BY DEF FullUndo, Bind
<1>2. Frame(o.s, s) /\ Held(o.s) BY FullRollbackDoes DEF Under, Plan, Frame, Held
<1>3. CASE o.ok
  <2>2. Undone(c, t, o.s, {}) BY <1>3, FullRollbackDoes DEF Undone, Under, Frame, SameMain
  <2> QED BY <1>1, <1>2, <1>3, <2>2, UndoneIsSound DEF Fine, Ends, Done
<1>4. CASE ~o.ok BY <1>1, <1>2, <1>4, RecoveryDoes DEF Ends
<1> QED BY <1>3, <1>4

\* The undo of a full tunnel with the split routes already gone.
LEMMA FullUndoSplitDoes ==
  ASSUME NEW c, NEW t, Fields(t), NEW gone, NEW o \in FullUndoSplit(c, t, gone)
  PROVE  o.ok \in BOOLEAN /\ Frame(o.s, t) /\ (o.ok => \E D \in SUBSET gone : Undone(c, t, o.s, D))
<1>1. PICK a \in RestoreRoutes(t, c.iface, gone) : \E b \in FullRollback(c, a.s) :
        o = [ok |-> a.ok /\ b.ok, s |-> b.s] BY DEF FullUndoSplit, Bind
<1>2. PICK b \in FullRollback(c, a.s) : o = [ok |-> a.ok /\ b.ok, s |-> b.s] BY <1>1
<1>3. /\ a.ok \in BOOLEAN /\ Frame(a.s, t) /\ SameRules(a.s.host, t.host)
      /\ \E D \in SUBSET gone : \A r \in Prefixes :
            a.s.host.main[r] = IF r \in D THEN c.iface ELSE t.host.main[r] BY RestoreRoutesDoes
<1>4. /\ b.ok \in BOOLEAN /\ Frame(b.s, a.s) /\ SameMain(b.s.host, a.s.host)
      /\ b.ok => /\ b.s.host.table = c.h.table /\ b.s.host.full \subseteq c.h.full
                 /\ b.s.host.bypass = (a.s.host.bypass \ c.new) \cup c.stale BY <1>3, FullRollbackDoes DEF Frame
<1> QED BY <1>2, <1>3, <1>4 DEF Frame, Undone, SameRules, SameMain

\* The receipt of a full tunnel is saved only for the kernel that was read back.
LEMMA FullPublishDoes ==
  ASSUME NEW s, NEW c, Plan(c, s), NEW t, Under(c, s, t), FullPostcondition(c, t.host),
         Sure(c, s) => Managed(t.host) = {}, NEW gone, NEW r \in FullPublish(c, t, gone)
  PROVE  Ends(c, s, r)
<1> DEFINE p == [t EXCEPT !.mem.mode = "all-except", !.mem.iface = c.i,
                          !.mem.routes = {}, !.mem.bypass = c.B, !.mem.critical = c.C,
                          !.mem.reapply = FALSE]
<1>1. /\ Held(p) /\ p.host = t.host /\ p.disk = t.disk /\ p.mem.mode = "all-except"
      /\ p.mem.iface = c.i /\ p.mem.bypass = c.B /\ p.mem.valid = s.mem.valid
  BY DEF Under, Frame, Plan, Held, Fields, HostFields, MemFields, DiskFields
<1>2. PICK o \in SaveState(p) : r \in IF o.ok THEN Done("ok", {o.s})
                  ELSE Bind(FullUndoSplit(c, o.s, gone), LAMBDA u : Recovery(u.s)) BY DEF FullPublish, Bind
<1> HIDE DEF p
<1>3. /\ Held(o.s) /\ o.ok \in BOOLEAN /\ o.s.host = t.host /\ o.s.mem = p.mem
      /\ o.ok => Agree(p.mem, o.s.disk.receipt) BY <1>1, SaveStateDoes DEF Held
<1>4. CASE o.ok
  <2>2. ASSUME Sure(c, s) PROVE Sound(o.s)
    <3>4. Accounts(t.host, p.mem)
      BY <1>1, <2>2 DEF Accounts, Sure, Sound, Attributable, Under, Plan, FullPostcondition, Owned
    <3> QED BY <1>1, <1>3, <1>4, <2>2, <3>4 DEF Sound, Sure
  <2> QED BY <1>2, <1>3, <1>4, <2>2 DEF Ends, Fine, Done
<1>5. CASE ~o.ok
  <2>1. PICK u \in FullUndoSplit(c, o.s, gone) : r \in Recovery(u.s) BY <1>2, <1>5 DEF Bind
  <2>2. Held(u.s) BY <1>3, FullUndoSplitDoes DEF Held, Frame
  <2> QED BY <2>1, <2>2, RecoveryDoes DEF Ends
<1> QED BY <1>4, <1>5

\* The kernel read back is not the plan's: undone and saved, or recovery.
LEMMA FullMismatchDoes ==
  ASSUME NEW s, NEW c, Plan(c, s), NEW t, Under(c, s, t), NEW gone, gone \subseteq c.split,
         NEW r \in FullMismatch(c, t, gone)
  PROVE  Ends(c, s, r)
<1>1. PICK u \in FullUndoSplit(c, t, gone) :
        r \in IF ~u.ok THEN Recovery(u.s)
              ELSE Bind(SaveState(u.s), LAMBDA o : IF o.ok THEN Done("postcondition", {o.s})
                                                   ELSE Recovery(o.s)) BY DEF FullMismatch, Bind
<1>2. /\ u.ok \in BOOLEAN /\ Frame(u.s, t) /\ (u.ok => \E D \in SUBSET gone : Undone(c, t, u.s, D))
  BY FullUndoSplitDoes DEF Under, Frame
<1>3. Frame(u.s, s) /\ Held(u.s) BY <1>2 DEF Under, Frame, Plan, Held
<1>4. CASE ~u.ok BY <1>1, <1>3, <1>4, RecoveryDoes DEF Ends
<1>5. CASE u.ok
  <2>2. PICK o \in SaveState(u.s) : r \in IF o.ok THEN Done("postcondition", {o.s}) ELSE Recovery(o.s)
    BY <1>1, <1>5 DEF Bind
  <2>3. /\ Held(o.s) /\ o.ok \in BOOLEAN /\ o.s.host = u.s.host /\ o.s.mem = u.s.mem
        /\ o.ok => Agree(u.s.mem, o.s.disk.receipt) BY <1>3, SaveStateDoes DEF Held
  <2>4. CASE o.ok BY <1>2, <1>3, <1>5, <2>2, <2>3, <2>4, UndoneIsSound DEF Done, Ends, Fine, Sound
  <2>5. CASE ~o.ok BY <2>2, <2>3, <2>5, RecoveryDoes DEF Ends
  <2> QED BY <2>4, <2>5
<1> QED BY <1>4, <1>5

\* The last steps of an installation: split routes, readback, receipt.
LEMMA FullRetireSplitDoes ==
  ASSUME NEW s, NEW c, Plan(c, s), NEW t, Under(c, s, t), t.host.main = s.host.main,
         NEW r \in FullRetireSplit(c, t)
  PROVE  Ends(c, s, r)
<1>1. PICK o \in RemoveRoutes(t, c.iface, c.split) :
        r \in IF o.ok THEN (IF FullPostcondition(c, o.s.host) THEN FullPublish(c, o.s, o.gone)
                                ELSE FullMismatch(c, o.s, o.gone))
                               \cup Bind(Fail(o.s), LAMBDA u : FullMismatch(c, u, o.gone))
              ELSE Bind(FullUndoSplit(c, o.s, o.gone),
                            LAMBDA u : IF u.ok THEN Done("failed", {u.s})
                                       ELSE Recovery(u.s)) BY DEF FullRetireSplit, Bind
<1>2. /\ o.ok \in BOOLEAN /\ Frame(o.s, t) /\ SameRules(o.s.host, t.host)
      /\ o.gone \subseteq c.split
      /\ \A x \in Prefixes : o.s.host.main[x] = IF x \in o.gone THEN NoIf ELSE t.host.main[x]
      /\ o.ok => \A x \in Prefixes \cap c.split : o.s.host.main[x] \notin Ifaces BY RemoveRoutesDoes DEF Under, Frame
<1>3. Under(c, s, o.s) BY <1>2 DEF Under, Frame, SameRules
<1>4. CASE o.ok /\ r \in FullPublish(c, o.s, o.gone) /\ FullPostcondition(c, o.s.host)
  BY <1>2, <1>4, RouteConstants, <1>3, FullPublishDoes DEF Sure, Sound, Accounts, Managed, Plan
<1>5. CASE o.ok /\ r \in FullMismatch(c, o.s, o.gone) BY <1>2, <1>3, <1>5, FullMismatchDoes
<1>6. CASE o.ok /\ r \in Bind(Fail(o.s), LAMBDA u : FullMismatch(c, u, o.gone))
  BY <1>6, <1>3, FailFrame, <1>2, FullMismatchDoes DEF Bind, Under, Frame
<1>7. CASE ~o.ok
  <2>1. PICK u \in FullUndoSplit(c, o.s, o.gone) : r \in IF u.ok THEN Done("failed", {u.s}) ELSE Recovery(u.s)
    BY <1>1, <1>7 DEF Bind
  <2>2. /\ u.ok \in BOOLEAN /\ Frame(u.s, o.s) /\ (u.ok => \E D \in SUBSET o.gone : Undone(c, o.s, u.s, D))
    BY <1>3, FullUndoSplitDoes DEF Under, Frame
  <2>3. Frame(u.s, s) /\ Held(u.s) BY <1>3, <2>2 DEF Under, Frame, Plan, Held
  <2>4. CASE u.ok BY <2>1, <2>4, <1>2, <1>3, <2>2, <2>3, UndoneIsSound DEF Done, Ends, Fine
  <2>5. CASE ~u.ok BY <2>1, <2>3, <2>5, RecoveryDoes DEF Ends
  <2> QED BY <2>4, <2>5
<1> QED BY <1>1, <1>4, <1>5, <1>6, <1>7

\* A step of the installation fails and is undone.
LEMMA FullUndoFailed ==
  ASSUME NEW s, NEW c, Plan(c, s), NEW t, Under(c, s, t),
         NEW r \in Bind(Fail(t), LAMBDA u : FullUndo(c, u))
  PROVE  Ends(c, s, r)
<1>1. PICK u \in Fail(t) : r \in FullUndo(c, u) BY DEF Bind
<1> QED BY <1>1, FailFrame, FullUndoDoes DEF Under, Frame

\* Every prefix of the rule commands is a state of the installation.
LEMMA PartlyInstalledIsUnder ==
  ASSUME NEW s, NEW c, NEW t, Under(c, s, t), NEW p \in PartlyInstalled(t, c.new, c.C)
  PROVE  Under(c, s, p)
<1>1. PICK B, F : B \subseteq c.new /\ p = [t EXCEPT !.host.bypass = @ \cup B, !.host.full = @ \cup F]
  BY DEF PartlyInstalled
<1>2. Frame(p, t) /\ p.host.bypass = t.host.bypass \cup B /\ p.host.main = t.host.main
  BY <1>1 DEF Under, Frame, Fields, HostFields, MemFields, DiskFields
<1> QED BY <1>1, <1>2 DEF Under, Frame

\* The installation from its rules on.
LEMMA FullRulesDoes ==
  ASSUME NEW s, NEW c, Plan(c, s), NEW t, Under(c, s, t), t.host.main = s.host.main,
         NEW r \in FullRules(c, t)
  PROVE  Ends(c, s, r)
<1> DEFINE q == [t EXCEPT !.host.bypass = @ \cup c.new, !.host.full = Families]
<1>1. CASE r \in FullRetireSplit(c, q)
  <2>1. Frame(q, t) /\ q.host.bypass = t.host.bypass \cup c.new /\ q.host.main = t.host.main
    BY DEF Under, Frame, Fields, HostFields, MemFields, DiskFields
  <2> HIDE DEF q
  <2> QED BY <1>1, <2>1, FullRetireSplitDoes DEF Under, Frame
<1>2. CASE \E p \in PartlyInstalled(t, c.new, c.C) : r \in Bind(Fail(p), LAMBDA u : FullUndo(c, u))
  BY <1>2, PartlyInstalledIsUnder, FullUndoFailed
<1> QED BY <1>1, <1>2 DEF FullRules, Bind

\* Writing the owned table stays inside the installation.
LEMMA SetTableIsUnder ==
  ASSUME NEW s, NEW c, NEW t, Under(c, s, t), NEW F, NEW i
  PROVE  Under(c, s, SetTable(t, F, i)) /\ SetTable(t, F, i).host.main = t.host.main
<1> QED BY DEF Under, Frame, SetTable, Fields, HostFields, MemFields, DiskFields

\* The installation from its table on.
LEMMA FullRoutesDoes ==
  ASSUME NEW s, NEW c, Plan(c, s), NEW t, Under(c, s, t), t.host.main = s.host.main,
         NEW r \in FullRoutes(c, t)
  PROVE  Ends(c, s, r)
<1>1. CASE r \in FullRules(c, SetTable(t, Families, c.i)) BY <1>1, SetTableIsUnder, FullRulesDoes
<1>2. CASE r \in FullUndo(c, t) BY <1>2, FullUndoDoes
<1>3. CASE \E F : r \in Bind(Fail(SetTable(t, F, c.i)), LAMBDA u : FullUndo(c, u))
  BY <1>3, SetTableIsUnder, FullUndoFailed
<1> QED BY <1>1, <1>2, <1>3 DEF FullRoutes, Bind

\* A batch of rule deletions takes away only rules it names.
LEMMA DeleteRulesDoes ==
  ASSUME NEW s, Fields(s), NEW R, NEW o \in DeleteRules(s, R)
  PROVE  /\ o.ok \in BOOLEAN /\ Frame(o.s, s) /\ o.s.host.main = s.host.main
         /\ o.s.host.table = s.host.table /\ o.s.host.full = s.host.full
         /\ o.s.host.bypass \subseteq s.host.bypass
         /\ o.ok => o.s.host.bypass = s.host.bypass \ R
<1>1. CASE o = [ok |-> TRUE, s |-> s] /\ R = {} BY <1>1 DEF Frame
<1>2. CASE o = [ok |-> TRUE, s |-> [s EXCEPT !.host.bypass = @ \ R]]
  BY <1>2 DEF Frame, Fields, HostFields, MemFields, DiskFields
<1>3. CASE \E u \in Fail(s), D \in SUBSET R \ {R} : o = [ok |-> FALSE, s |-> [u EXCEPT !.host.bypass = @ \ D]]
  BY <1>3, FailFrame DEF Frame, Fields, HostFields, MemFields, DiskFields
<1> QED BY <1>1, <1>2, <1>3 DEF DeleteRules

\* From any state of a transaction; a sound one is answered with a sound one.
LEMMA ApplyFullTunnelDoes ==
  ASSUME NEW s, Held(s), NEW i, NEW B, NEW C, NEW r \in ApplyFullTunnel(s, i, B, C)
  PROVE  Held(r.s) /\ {"code", "s"} \subseteq DOMAIN r /\ (Sound(s) => Fine(r))
<1> DEFINE c == FullPlan(s, i, B, C)
<1>1. Plan(c, s) /\ c.i = i BY DEF Plan, FullPlan
<1> HIDE DEF c
<1>3. CASE r = [code |-> "failed", s |-> s] BY <1>3 DEF Fine
<1>4. CASE \E u \in Fail(s) : r = [code |-> "failed", s |-> u] BY <1>4, FailFrame DEF Fine, Held, Sound, Frame
<1>5. CASE Attributable(s, i) /\ \E o \in DeleteRules(s, c.stale) :
             r \in IF o.ok THEN FullRoutes(c, o.s) ELSE Recovery(o.s)
  <2>1. PICK o \in DeleteRules(s, c.stale) : r \in IF o.ok THEN FullRoutes(c, o.s) ELSE Recovery(o.s) BY <1>5
  <2>2. /\ o.ok \in BOOLEAN /\ Frame(o.s, s) /\ o.s.host.main = s.host.main
        /\ o.ok => o.s.host.bypass = s.host.bypass \ c.stale BY DeleteRulesDoes DEF Held
  <2>3. CASE o.ok BY <1>1, <2>2, <2>3, <2>1, FullRoutesDoes, <1>5 DEF Under, Plan, Ends, Sure
  <2>4. CASE ~o.ok BY <2>1, <2>2, <2>4, RecoveryDoes DEF Held, Frame
  <2> QED BY <2>2, <2>3, <2>4
<1> QED BY <1>3, <1>4, <1>5 DEF ApplyFullTunnel, c, Done, Bind

\* The kernel holds nothing of the daemon's.
Bare(h) == Managed(h) = {} /\ Owned(h) = {} /\ h.full = {} /\ h.bypass = {}

\* restoreOwnedTable() and restoreRemovedRules(): the tunnel is back, or recovery.
LEMMA UndoClearDoes ==
  ASSUME NEW s, Held(s), Sound(s), NEW t, Frame(t, s), t.host.main = s.host.main,
         NEW r \in UndoClear(s.host, t)
  PROVE  Held(r.s) /\ {"code", "s"} \subseteq DOMAIN r /\ Fine(r) /\ r.code # "ok"
<1> DEFINE u == [t EXCEPT !.host.table = s.host.table, !.host.full = s.host.full,
                          !.host.bypass = s.host.bypass]
<1>1. PICK o \in Try(t, u) : r \in IF o.ok THEN Done("failed", {o.s}) ELSE Recovery(o.s) BY DEF UndoClear, Bind
<1>2. /\ Frame(u, s) /\ u.host.main = s.host.main /\ u.host.table = s.host.table
      /\ u.host.full = s.host.full /\ u.host.bypass = s.host.bypass
  BY DEF Frame, Fields, HostFields, MemFields, DiskFields
<1> HIDE DEF u
<1>4. CASE o.ok /\ o.s = u BY <1>1, <1>2, <1>4 DEF Done, Fine, Frame, Held, Sound, Accounts, Managed, Owned
<1>5. CASE o.ok = FALSE /\ o.s \in Fail(t)
  <2>1. Held(o.s) BY <1>5, FailFrame DEF Frame, Held
  <2> QED BY <1>1, <1>5, <2>1, RecoveryDoes
<1> QED BY <1>4, <1>5, TryDoes

\* The receipt of an empty set is saved only when the kernel is bare.
LEMMA ClearSaveDoes ==
  ASSUME NEW t, Held(t), t.mem.valid, Bare(t.host), NEW r \in ClearSave(t)
  PROVE  /\ Held(r.s) /\ {"code", "s"} \subseteq DOMAIN r /\ Fine(r)
         /\ r.code = "ok" => r.s.mem.mode = "only-forward"
<1> DEFINE p == [t EXCEPT !.mem = [Cleared(@) EXCEPT !.reapply = FALSE]]
<1>1. /\ Held(p) /\ p.host = t.host /\ p.mem.valid = t.mem.valid /\ p.mem.mode = "only-forward"
  BY DEF Cleared, Held, Fields, HostFields, MemFields, DiskFields
<1>2. PICK o \in SaveState(p) : r \in IF o.ok THEN Done("ok", {o.s}) ELSE Invalidate(o.s) BY DEF ClearSave, Bind
<1> HIDE DEF p
<1>3. /\ Held(o.s) /\ o.ok \in BOOLEAN /\ o.s.host = t.host /\ o.s.mem = p.mem
      /\ o.ok => Agree(p.mem, o.s.disk.receipt) BY <1>1, SaveStateDoes DEF Held
<1>4. CASE o.ok
  <2>2. Sound(o.s) BY <1>1, <1>3, <1>4 DEF Sound, Accounts, Bare
  <2> QED BY <1>1, <1>2, <1>3, <1>4, <2>2 DEF Fine, Done
<1>5. CASE ~o.ok BY <1>2, <1>3, <1>5, InvalidateDoes DEF Held
<1> QED BY <1>3, <1>4, <1>5

\* clearFullTunnel(): removed, undone, or left in recovery with its intent.
LEMMA ClearFullTunnelDoes ==
  ASSUME NEW s, Held(s), Sound(s), s.mem.mode = "all-except", NEW r \in ClearFullTunnel(s)
  PROVE  /\ Held(r.s) /\ {"code", "s"} \subseteq DOMAIN r /\ Fine(r)
         /\ r.code = "ok" => r.s.mem.mode = "only-forward"
<1> DEFINE Off(t) == [t EXCEPT !.host.full = {}, !.host.table = [f \in Families |-> NoIf]]
<1>0. Managed(s.host) = {} /\ s.host.bypass \subseteq s.mem.bypass BY DEF Sound, Accounts
<1>1. \/ r = [code |-> "failed", s |-> s]
      \/ \E u \in Fail(s) : r = [code |-> "failed", s |-> u]
      \/ /\ Owned(s.host) = {} /\ s.host.full = {} /\ s.host.bypass \cap s.mem.bypass = {}
         /\ r \in ClearSave(s)
      \/ /\ s.host.bypass = s.mem.bypass
         /\ \E o \in DeleteRules(s, s.mem.bypass) :
              r \in IF o.ok THEN ClearSave(Off(o.s)) ELSE UndoClear(s.host, o.s)
      \/ \E p \in PartlyCleared(s) : \E u \in Fail(p) : r \in UndoClear(s.host, u)
  <2>1. \/ r \in Done("failed", {s}) \/ r \in Done("failed", Fail(s))
        \/ /\ Owned(s.host) = {} /\ s.host.full = {} /\ s.host.bypass \cap s.mem.bypass = {}
           /\ r \in ClearSave(s)
        \/ /\ s.host.bypass = s.mem.bypass
           /\ r \in Bind(DeleteRules(s, s.mem.bypass),
                        LAMBDA o : IF o.ok THEN ClearSave(Off(o.s)) ELSE UndoClear(s.host, o.s))
        \/ r \in Bind(PartlyCleared(s), LAMBDA p : Bind(Fail(p), LAMBDA u : UndoClear(s.host, u)))
    BY DEF ClearFullTunnel
  <2> HIDE DEF Off
  <2> QED BY <2>1 DEF Done, Bind
<1>2. CASE r = [code |-> "failed", s |-> s] BY <1>2 DEF Fine
<1>3. CASE \E u \in Fail(s) : r = [code |-> "failed", s |-> u] BY <1>3, FailFrame DEF Fine, Held, Sound, Frame
<1>4. CASE /\ Owned(s.host) = {} /\ s.host.full = {} /\ s.host.bypass \cap s.mem.bypass = {}
           /\ r \in ClearSave(s) BY <1>0, <1>4, ClearSaveDoes DEF Bare, Sound
<1>5. CASE /\ s.host.bypass = s.mem.bypass
           /\ \E o \in DeleteRules(s, s.mem.bypass) :
                r \in IF o.ok THEN ClearSave(Off(o.s)) ELSE UndoClear(s.host, o.s)
  <2>1. PICK o \in DeleteRules(s, s.mem.bypass) :
               r \in IF o.ok THEN ClearSave(Off(o.s)) ELSE UndoClear(s.host, o.s) BY <1>5
  <2>2. /\ o.ok \in BOOLEAN /\ Frame(o.s, s) /\ o.s.host.main = s.host.main
        /\ o.ok => o.s.host.bypass = {} BY <1>5, DeleteRulesDoes DEF Held
  <2>3. CASE o.ok
    <3>1. /\ Frame(Off(o.s), s) /\ Off(o.s).host.main = s.host.main /\ Off(o.s).host.full = {}
          /\ Off(o.s).host.bypass = {} /\ Off(o.s).host.table = [f \in Families |-> NoIf]
      BY <2>2, <2>3 DEF Frame, Fields, HostFields, MemFields, DiskFields
    <3> HIDE DEF Off
    <3>2. Held(Off(o.s)) /\ Off(o.s).mem.valid /\ Bare(Off(o.s).host)
      BY <1>0, <3>1 DEF Frame, Held, Sound, Bare, Managed, Owned
    <3> QED BY <2>1, <2>3, <3>2, ClearSaveDoes
  <2>4. CASE ~o.ok BY <2>1, <2>2, <2>4, UndoClearDoes
  <2> QED BY <2>2, <2>3, <2>4
<1>6. CASE \E p \in PartlyCleared(s) : \E u \in Fail(p) : r \in UndoClear(s.host, u)
  <2>1. PICK p \in PartlyCleared(s) : \E u \in Fail(p) : r \in UndoClear(s.host, u) BY <1>6
  <2>2. Frame(p, s) /\ p.host.main = s.host.main
    <3>1. PICK F \in SUBSET s.host.full, G \in SUBSET Families :
               p = ClearedUpTo(s, F, G) BY DEF PartlyCleared
    <3> QED BY <3>1 DEF ClearedUpTo, SetTable, Frame, Held, Fields, HostFields, MemFields, DiskFields
  <2>3. PICK u \in Fail(p) : r \in UndoClear(s.host, u) BY <2>1
  <2> QED BY <2>2, <2>3, FailFrame, UndoClearDoes DEF Frame
<1> QED BY <1>1, <1>2, <1>3, <1>4, <1>5, <1>6

\* clear() of a receipt without routes, outside any transaction.
LEMMA ClearEmptyDoes ==
  ASSUME NEW s, Good(s), s.mem.valid, s.mem.mode # "all-except", s.mem.routes = {},
         NEW q \in ClearEmpty(s)
  PROVE  Good(q.s)
<1> DEFINE p == [s EXCEPT !.mem = Cleared(@)]
<1>1. /\ Fields(p) /\ p.host = s.host /\ p.disk = s.disk /\ p.mem.valid = s.mem.valid
      /\ p.mem.mode = "only-forward" BY DEF Good, Cleared, Fields, HostFields, MemFields, DiskFields
<1>2. PICK o \in SaveState(p) : q \in IF o.ok THEN Done("ok", {o.s}) ELSE Invalidate(o.s) BY DEF ClearEmpty, Bind
<1> HIDE DEF p
<1>3. /\ Fields(o.s) /\ o.ok \in BOOLEAN /\ o.s.host = s.host /\ o.s.mem = p.mem
      /\ o.ok => Agree(p.mem, o.s.disk.receipt)
      /\ ~o.ok => o.s.disk = s.disk BY <1>1, SaveStateDoes
<1>4. CASE o.ok
  <2>2. Sound(o.s) BY <1>1, <1>3, <1>4 DEF Good, Sound, Accounts
  <2> QED BY <1>2, <1>3, <1>4, <2>2, SoundIsGood DEF Done
<1>5. CASE ~o.ok
  <2>1. Honest(o.s) BY <1>3, <1>5 DEF Good, Honest
  <2> QED BY <1>2, <1>3, <1>5, <2>1, InvalidateDoes
<1> QED BY <1>3, <1>4, <1>5

\* The main table of an only-forward set is back.
LEMMA SplitIsSound ==
  ASSUME NEW s, Sound(s), s.mem.mode # "all-except", NEW u, Frame(u, s), SameRules(u.host, s.host),
         \A r \in Managed(u.host) : r \in s.mem.routes /\ u.host.main[r] = s.mem.iface
  PROVE  Sound(u)
BY DEF Sound, Frame, SameRules, Accounts, Owned

\* A link that takes a batch of routes: the others are those of before.
LEMMA ManagedFrom ==
  ASSUME NEW s, Sound(s), s.mem.mode # "all-except", NEW r \in Prefixes, s.host.main[r] \in Ifaces
  PROVE  r \in s.mem.routes /\ s.host.main[r] = s.mem.iface
BY DEF Sound, Accounts, Managed

\* clear() of an only-forward set.
LEMMA ClearSplitDoes ==
  ASSUME NEW t, Held(t), Sound(t), t.mem.mode # "all-except", NEW q \in ClearSplit(t)
  PROVE  Good(q.s)
<1> DEFINE was == t.mem
           p(o) == [o.s EXCEPT !.mem = Cleared(@)]
           w(v) == [v.s EXCEPT !.mem = was]
<1>1. PICK o \in RemoveRoutes(t, was.iface, was.routes) :
        q \in IF o.ok
            THEN Bind(SaveState(p(o)),
                      LAMBDA v : IF v.ok THEN FinishMutation(v.s, Recovery)
                                 ELSE Bind(RestoreRoutes(w(v), was.iface, was.routes),
                                           LAMBDA u : Recovery(u.s)))
            ELSE Bind(RestoreRoutes(o.s, was.iface, o.gone),
                      LAMBDA u : IF u.ok THEN Finish(Done("failed", {u.s})) ELSE Recovery(u.s))
  BY DEF ClearSplit, Bind
<1>2. /\ o.ok \in BOOLEAN /\ Frame(o.s, t) /\ SameRules(o.s.host, t.host)
      /\ o.gone \subseteq was.routes
      /\ \A r \in Prefixes : o.s.host.main[r] = IF r \in o.gone THEN NoIf ELSE t.host.main[r]
      /\ o.ok => \A r \in Prefixes \cap was.routes : o.s.host.main[r] \notin Ifaces BY RemoveRoutesDoes DEF Held
<1>3. CASE o.ok
  <2>1. /\ Held(p(o)) /\ p(o).host = o.s.host /\ p(o).mem.valid = t.mem.valid
        /\ p(o).mem.mode = "only-forward" BY <1>2 DEF Cleared, Frame, Held, Fields, HostFields, MemFields, DiskFields
  <2> HIDE DEF p
  <2>2. PICK v \in SaveState(p(o)) :
           q \in IF v.ok THEN FinishMutation(v.s, Recovery)
                 ELSE Bind(RestoreRoutes(w(v), was.iface, was.routes), LAMBDA u : Recovery(u.s))
    BY <1>1, <1>3 DEF Bind
  <2>3. /\ Held(v.s) /\ v.ok \in BOOLEAN /\ v.s.host = o.s.host /\ v.s.mem = p(o).mem
        /\ v.ok => Agree(p(o).mem, v.s.disk.receipt) BY <2>1, SaveStateDoes DEF Held
  <2>4. CASE v.ok
    <3>2. Bare(o.s.host)
      BY <1>2, <1>3, ManagedFrom, RouteConstants DEF Bare, SameRules, Sound, Accounts, Owned, Managed
    <3>3. Sound(v.s) BY <2>1, <2>3, <2>4, <3>2 DEF Sound, Accounts, Bare
    <3> QED BY <2>2, <2>3, <2>4, <3>3, FinishMutationDoes
  <2>5. CASE ~v.ok
    <3>1. PICK u \in RestoreRoutes(w(v), was.iface, was.routes) : q \in Recovery(u.s) BY <2>2, <2>5 DEF Bind
    <3>2. Held(w(v)) BY <2>3 DEF Held, Fields, HostFields, MemFields, DiskFields
    <3> HIDE DEF w
    <3>3. Held(u.s) BY <3>2, RestoreRoutesDoes DEF Held, Frame
    <3> QED BY <3>1, <3>3, RecoveryDoes
  <2> QED BY <2>3, <2>4, <2>5
<1>4. CASE ~o.ok
  <2>1. PICK u \in RestoreRoutes(o.s, was.iface, o.gone) :
               q \in IF u.ok THEN Finish(Done("failed", {u.s})) ELSE Recovery(u.s) BY <1>1, <1>4 DEF Bind
  <2>2. /\ u.ok \in BOOLEAN /\ Frame(u.s, o.s) /\ SameRules(u.s.host, o.s.host)
        /\ \E D \in SUBSET o.gone : \A r \in Prefixes :
              u.s.host.main[r] = IF r \in D THEN was.iface ELSE o.s.host.main[r]
    <3>1. Fields(o.s) BY <1>2 DEF Frame
    <3> HIDE DEF was
    <3> QED BY <3>1, RestoreRoutesDoes
  <2>3. Held(u.s) /\ Frame(u.s, t) /\ SameRules(u.s.host, t.host) BY <1>2, <2>2 DEF Held, Frame, SameRules
  <2>4. CASE u.ok
    BY <1>2, <2>2, ManagedFrom, RouteConstants, <2>3, SplitIsSound, <2>1, <2>4, FinishFailedDoes DEF Managed
  <2>5. CASE ~u.ok BY <2>1, <2>3, <2>5, RecoveryDoes
  <2> QED BY <2>2, <2>4, <2>5
<1> QED BY <1>2, <1>3, <1>4

\* clear() leaves a good state.
LEMMA ClearDoes ==
  ASSUME NEW s, Good(s), NEW q \in Clear(s)
  PROVE  Good(q.s)
<1>1. CASE q \in Refused(s) \cup Done("failed", Fail(s)) BY <1>1, RefusedDoes
<1>2. CASE s.mem.valid /\ s.mem.mode # "all-except" /\ s.mem.routes = {} /\ q \in ClearEmpty(s)
  BY <1>2, ClearEmptyDoes
<1>3. CASE \E o \in BeginMutation(s) : ~o.ok /\ q \in Refused(o.s)
  <2>1. PICK o \in BeginMutation(s) : ~o.ok /\ q \in Refused(o.s) BY <1>3
  <2> QED BY <2>1, BeginDoes, RefusedDoes
<1>4. CASE s.mem.valid /\ s.mem.mode = "all-except" /\ \E o \in BeginMutation(s) : o.ok /\ q \in ClearFull(o.s)
  BY <1>4, BeginDoes, ClearFullTunnelDoes, ConcludeDoes DEF ClearFull
<1>5. CASE s.mem.valid /\ s.mem.mode # "all-except" /\ \E o \in BeginMutation(s) : o.ok /\ q \in ClearSplit(o.s)
  BY <1>5, BeginDoes, ClearSplitDoes
<1> QED BY <1>1, <1>2, <1>3, <1>4, <1>5 DEF Clear, ClearOwned, Preflight, Bind

\* restorePrevious() works from x towards the sound state t.
Returnable(was, t, x, added, gone) ==
  /\ Sound(t) /\ t.mem.mode # "all-except" /\ (was.mode # "all-except" => was = t.mem)
  /\ Frame(x, t) /\ SameRules(x.host, t.host) /\ gone \subseteq t.mem.routes
  /\ \A r \in Managed(x.host) : r \in added \/ (r \in t.mem.routes /\ x.host.main[r] = t.mem.iface)

\* restorePrevious(): from a state that can return, a success is sound.
LEMMA ApplyUndoDoes ==
  ASSUME NEW was, NEW i, NEW x, Held(x), NEW added, NEW gone, NEW o \in ApplyUndo(was, i, x, added, gone)
  PROVE  /\ o.ok \in BOOLEAN /\ Held(o.s)
         /\ \A t : Returnable(was, t, x, added, gone) /\ o.ok => Sound(o.s)
<1> DEFINE S(a) == IF was.mode = "all-except"
                   THEN {[ok |-> r.code = "ok", s |-> r.s] :
                           r \in ApplyFullTunnel(a.s, was.iface, was.bypass, was.critical)}
                   ELSE RestoreRoutes(a.s, was.iface, gone)
<1>1. PICK a \in RemoveRoutes(x, i, added) : o \in {[ok |-> a.ok /\ b.ok, s |-> b.s] : b \in S(a)}
  BY DEF ApplyUndo, Bind
<1>2. PICK b \in S(a) : o = [ok |-> a.ok /\ b.ok, s |-> b.s] BY <1>1
<1>3. /\ a.ok \in BOOLEAN /\ Frame(a.s, x) /\ SameRules(a.s.host, x.host) /\ a.gone \subseteq added
      /\ \A r \in Prefixes : a.s.host.main[r] = IF r \in a.gone THEN NoIf ELSE x.host.main[r]
      /\ a.ok => \A r \in Prefixes \cap added : a.s.host.main[r] \notin Ifaces BY RemoveRoutesDoes DEF Held
<1>4. Held(a.s) BY <1>3 DEF Held, Frame
<1>5. ASSUME NEW t, Returnable(was, t, x, added, gone), a.ok
      PROVE  Sound(a.s) /\ Frame(a.s, t) /\ SameRules(a.s.host, t.host)
  BY <1>3, <1>5, RouteConstants, SplitIsSound DEF Returnable, Frame, SameRules, Managed
<1>6. CASE was.mode = "all-except"
  <2>1. PICK r \in ApplyFullTunnel(a.s, was.iface, was.bypass, was.critical) :
               b = [ok |-> r.code = "ok", s |-> r.s] BY <1>2, <1>6
  <2>2. Held(r.s) /\ (Sound(a.s) => Fine(r)) BY <1>4, ApplyFullTunnelDoes
  <2>3. o.ok \in BOOLEAN /\ o.s = r.s /\ (o.ok => a.ok /\ r.code = "ok") BY <1>2, <1>3, <2>1
  <2> QED BY <1>5, <2>2, <2>3 DEF Fine
<1>7. CASE was.mode # "all-except"
  BY <1>2, <1>4, <1>7, RestoreRoutesDoes, <1>3, <1>5, ManagedFrom, SplitIsSound DEF Held, Frame, Returnable,
    SameRules, Managed
<1> QED BY <1>6, <1>7

\* An undo after the receipt was written always ends in recovery.
LEMMA ApplyBackDoes ==
  ASSUME NEW was, NEW i, NEW x, Held(x), NEW added, NEW gone, NEW q \in ApplyBack(was, i, x, added, gone)
  PROVE  Good(q.s)
<1>1. PICK u \in ApplyUndo(was, i, x, added, gone) : q \in Recovery(u.s) BY DEF ApplyBack, Bind
<1> QED BY <1>1, ApplyUndoDoes, RecoveryDoes

\* An undo before the receipt was written.
LEMMA ApplyAbortDoes ==
  ASSUME NEW was, NEW i, NEW t, NEW x, Held(x), NEW added, NEW gone,
         Returnable(was, t, x, added, gone), NEW q \in ApplyAbort(was, i, x, added, gone)
  PROVE  Good(q.s)
<1>1. PICK u \in ApplyUndo(was, i, x, added, gone) :
        q \in IF u.ok THEN Finish(Done("failed", {u.s})) ELSE Recovery(u.s) BY DEF ApplyAbort, Bind
<1>2. u.ok \in BOOLEAN /\ Held(u.s) /\ (u.ok => Sound(u.s)) BY ApplyUndoDoes
<1> QED BY <1>1, <1>2, FinishFailedDoes, RecoveryDoes

\* The receipt of the new only-forward set covers the kernel it is saved for.
LEMMA ApplyCommitDoes ==
  ASSUME NEW was, NEW i, NEW R, NEW x, Held(x), x.mem.valid, NEW added, NEW gone,
         Owned(x.host) = {}, x.host.full = {}, x.host.bypass = {},
         \A r \in Managed(x.host) : r \in R /\ x.host.main[r] = i,
         NEW q \in ApplyCommit(was, i, R, x, added, gone)
  PROVE  Good(q.s)
<1> DEFINE p == [x EXCEPT !.mem = OnlyForward(@, i, R)]
<1>1. /\ Held(p) /\ p.host = x.host /\ p.mem.valid = x.mem.valid
      /\ p.mem.mode = "only-forward" /\ p.mem.iface = i /\ p.mem.routes = R
  BY DEF OnlyForward, Held, Fields, HostFields, MemFields, DiskFields
<1>2. PICK o \in SaveState(p) :
        q \in IF o.ok THEN FinishMutation(o.s, LAMBDA u : ApplyBack(was, i, u, added, gone))
              ELSE ApplyBack(was, i, o.s, added, gone) BY DEF ApplyCommit, Bind
<1> HIDE DEF p
<1>3. /\ Held(o.s) /\ o.ok \in BOOLEAN /\ o.s.host = x.host /\ o.s.mem = p.mem
      /\ o.ok => Agree(p.mem, o.s.disk.receipt) BY <1>1, SaveStateDoes DEF Held
<1>4. CASE o.ok
  <2>1. Sound(o.s) BY <1>1, <1>3, <1>4 DEF Sound, Accounts
  <2>2. PICK v \in ClearTransactionIntent(o.s) :
          q \in IF v.ok THEN Done("ok", {v.s}) ELSE ApplyBack(was, i, v.s, added, gone)
    BY <1>2, <1>4 DEF FinishMutation, Bind
  <2>3. CASE v.ok BY <2>2, <2>3, <1>3, <2>1, RetireDoes DEF Done
  <2>4. CASE ~v.ok BY <1>3, <2>2, <2>4, RetireDoes, ApplyBackDoes
  <2> QED BY <2>3, <2>4
<1>5. CASE ~o.ok BY <1>2, <1>3, <1>5, ApplyBackDoes
<1> QED BY <1>3, <1>4, <1>5

\* Install the new routes, then retire the old: at every stop the state can return
\* to the old set or commits the new one.
LEMMA ApplyInstallDoes ==
  ASSUME NEW was, NEW i, NEW R, NEW t, Held(t), Sound(t), t.mem.mode # "all-except",
         was.mode # "all-except" => was = t.mem, NEW q \in ApplyInstall(was, i, R, t)
  PROVE  Good(q.s)
<1> DEFINE Added(D) == {r \in D : t.mem.iface # i \/ r \notin t.mem.routes}
           old == IF t.mem.iface = i THEN t.mem.routes \ R ELSE t.mem.routes
<1>1. PICK o \in ReplaceRoutes(t, i, R) :
        q \in IF ~o.ok THEN ApplyAbort(was, i, o.s, Added(o.done), {})
              ELSE Bind(RemoveRoutes(o.s, t.mem.iface, old),
                        LAMBDA v : IF v.ok THEN ApplyCommit(was, i, R, v.s, Added(R), v.gone)
                                   ELSE ApplyAbort(was, i, v.s, Added(R), v.gone)) BY DEF ApplyInstall, Bind
<1>2. /\ o.ok \in BOOLEAN /\ Frame(o.s, t) /\ SameRules(o.s.host, t.host)
      /\ o.done \subseteq R /\ (o.ok => o.done = R)
      /\ \A r \in Prefixes : o.s.host.main[r] = IF r \in o.done THEN i ELSE t.host.main[r]
  BY ReplaceRoutesDoes DEF Held
<1>3. Held(o.s) BY <1>2 DEF Held, Frame
<1>4. CASE ~o.ok BY <1>2, ManagedFrom, <1>1, <1>3, <1>4, ApplyAbortDoes DEF Returnable, Managed
<1>5. CASE o.ok
  <2>1. PICK v \in RemoveRoutes(o.s, t.mem.iface, old) :
          q \in IF v.ok THEN ApplyCommit(was, i, R, v.s, Added(R), v.gone)
                ELSE ApplyAbort(was, i, v.s, Added(R), v.gone) BY <1>1, <1>5 DEF Bind
  <2>2. /\ v.ok \in BOOLEAN /\ Frame(v.s, o.s) /\ SameRules(v.s.host, o.s.host) /\ v.gone \subseteq old
        /\ \A r \in Prefixes : v.s.host.main[r] = IF r \in v.gone THEN NoIf ELSE o.s.host.main[r]
        /\ v.ok => \A r \in Prefixes \cap old : v.s.host.main[r] \notin Ifaces BY <1>3, RemoveRoutesDoes DEF Held
  <2>3. Held(v.s) /\ Frame(v.s, t) /\ SameRules(v.s.host, t.host) BY <1>2, <1>3, <2>2 DEF Held, Frame, SameRules
  <2>4. CASE v.ok
    BY <1>2, <1>5, <2>2, <2>4, ManagedFrom, RouteConstants, <2>3, <2>1, ApplyCommitDoes DEF Managed, Frame, SameRules,
      Sound, Accounts, Owned
  <2>5. CASE ~v.ok
    BY <1>2, <1>5, <2>2, <2>3, ManagedFrom, RouteConstants, <2>1, <2>5, ApplyAbortDoes DEF Returnable, Managed
  <2> QED BY <2>2, <2>4, <2>5
<1> QED BY <1>2, <1>4, <1>5

\* An only-forward set that replaces a full tunnel or another set.
LEMMA ApplySwitchDoes ==
  ASSUME NEW i, NEW R, NEW t, Held(t), Sound(t), NEW q \in ApplySwitch(i, R, t)
  PROVE  Good(q.s)
<1>1. CASE t.mem.mode # "all-except" BY <1>1, ApplyInstallDoes DEF ApplySwitch
<1>2. CASE t.mem.mode = "all-except"
  <2>1. PICK r \in ClearFullTunnel(t) :
          q \in IF r.code = "ok" THEN ApplyInstall(t.mem, i, R, r.s) ELSE FinishTransaction(r)
    BY <1>2 DEF ApplySwitch, Bind
  <2>2. /\ Held(r.s) /\ {"code", "s"} \subseteq DOMAIN r /\ Fine(r)
        /\ r.code = "ok" => r.s.mem.mode = "only-forward" BY <1>2, ClearFullTunnelDoes
  <2>3. CASE r.code = "ok" BY <2>2, <2>3, <1>2, <2>1, ApplyInstallDoes DEF Fine
  <2>4. CASE r.code # "ok" BY <2>1, <2>2, <2>4, FinishTransactionDoes
  <2> QED BY <2>3, <2>4
<1> QED BY <1>1, <1>2

\* apply() leaves a good state.
LEMMA ApplyDoes ==
  ASSUME NEW s, Good(s), NEW i, NEW R, NEW q \in Apply(s, i, R)
  PROVE  Good(q.s)
<1>1. CASE q \in Refused(s) \cup Done("failed", {s}) \cup Done("failed", Fail(s)) BY <1>1, RefusedDoes
<1>2. CASE q \in Clear(s) BY <1>2, ClearDoes
<1>3. CASE s.mem.valid /\ \E o \in BeginMutation(s) : q \in IF o.ok THEN ApplySwitch(i, R, o.s) ELSE Refused(o.s)
  <2>1. PICK o \in BeginMutation(s) : q \in IF o.ok THEN ApplySwitch(i, R, o.s) ELSE Refused(o.s) BY <1>3
  <2>2. CASE o.ok BY <1>3, <2>1, <2>2, BeginDoes, ApplySwitchDoes
  <2>3. CASE ~o.ok BY <2>1, <2>3, BeginDoes, RefusedDoes
  <2> QED BY <2>2, <2>3
<1> QED BY <1>1, <1>2, <1>3 DEF Apply, Preflight, Bind

\* applyAllExcept() leaves a good state.
LEMMA ApplyAllExceptDoes ==
  ASSUME NEW s, Good(s), NEW i, NEW B, NEW C, NEW q \in ApplyAllExcept(s, i, B, C)
  PROVE  Good(q.s)
<1>1. CASE q \in Refused(s) \cup Done("failed", {s}) \cup Done("failed", Fail(s)) BY <1>1, RefusedDoes
<1>2. CASE s.mem.valid /\ \E o \in BeginMutation(s) :
             q \in IF o.ok THEN Conclude(ApplyFullTunnel(o.s, i, B, C)) ELSE Refused(o.s)
  <2>1. PICK o \in BeginMutation(s) :
             q \in IF o.ok THEN Conclude(ApplyFullTunnel(o.s, i, B, C)) ELSE Refused(o.s) BY <1>2
  <2>2. CASE o.ok BY <1>2, <2>2, BeginDoes, ApplyFullTunnelDoes, <2>1, ConcludeDoes
  <2>3. CASE ~o.ok BY <2>1, <2>3, BeginDoes, RefusedDoes
  <2> QED BY <2>2, <2>3
<1> QED BY <1>1, <1>2 DEF ApplyAllExcept, Preflight, Bind

\* A state that differs from s in the resolver binding and what is said of it.
Alike(t, s) ==
  /\ Fields(t) /\ t.disk = s.disk /\ SameRules(t.host, s.host) /\ t.host.main = s.host.main
  /\ t.mem.valid = s.mem.valid /\ t.mem.mode = s.mem.mode /\ t.mem.iface = s.mem.iface
  /\ t.mem.routes = s.mem.routes /\ t.mem.bypass = s.mem.bypass

\* A state that differs in the resolver only is as sound and as good.
LEMMA AlikeKeeps ==
  ASSUME NEW s, NEW t, Alike(t, s)
  PROVE  (Sound(s) => Sound(t)) /\ (Held(s) => Held(t)) /\ (Good(s) => Good(t))
<1>1. \A m : Accounts(t.host, m) <=> Accounts(s.host, m) BY DEF Alike, SameRules, Accounts, Managed, Owned
<1> QED BY <1>1 DEF Good, Alike, Held, Honest, Sound, Accounts, Agree

\* A failure does not touch what the promises are about.
LEMMA FailAlike ==
  ASSUME NEW s, Fields(s), NEW u \in Fail(s)
  PROVE  Alike(u, s)
BY FailFrame DEF Alike, Frame, SameRules

\* A resolvectl command touches the resolver binding only.
LEMMA ResolvectlDoes ==
  ASSUME NEW s, Fields(s), NEW i, NEW v, NEW o \in Resolvectl(s, i, v)
  PROVE  o.ok \in BOOLEAN /\ Alike(o.s, s)
<1>1. Alike(SetDns(s, i, v), s) BY DEF SetDns, Alike, SameRules, Fields, HostFields, MemFields, DiskFields
<1>2. CASE o = [ok |-> FALSE, s |-> s] BY <1>2 DEF Alike, SameRules
<1>3. CASE o \in Try(s, SetDns(s, i, v)) BY <1>1, <1>3, TryDoes, FailAlike
<1> QED BY <1>2, <1>3 DEF Resolvectl

\* The receipt's DNS field is not part of what it promises of routes.
LEMMA SetMemDnsDoes ==
  ASSUME NEW s, Fields(s), NEW i
  PROVE  Alike([s EXCEPT !.mem.dns = i], s)
BY DEF Alike, SameRules, Fields, HostFields, MemFields, DiskFields

\* Inside a transaction, with nothing to undo but the resolver binding.
Calm(s) == Held(s) /\ Sound(s)

\* A DNS transaction stays calm: routes and their promise are not touched.
LEMMA CalmStays ==
  ASSUME NEW s, Calm(s)
  PROVE  /\ Fields(s)
         /\ \A t : Alike(t, s) => Calm(t)
         /\ \A u \in Fail(s) : Calm(u)
         /\ \A o \in SaveState(s) : o.ok \in BOOLEAN /\ Calm(o.s)
<1>1. Fields(s) BY DEF Calm, Held
<1>2. \A t : Alike(t, s) => Calm(t) BY AlikeKeeps DEF Calm
<1>4. ASSUME NEW o \in SaveState(s) PROVE o.ok \in BOOLEAN /\ Calm(o.s) BY <1>1, SaveStateDoes DEF Calm, Held, Sound
<1> QED BY <1>1, <1>2, <1>4, FailAlike

\* A calm transaction may end in any way.
LEMMA CalmEnds ==
  ASSUME NEW s, Calm(s)
  PROVE  /\ \A q \in Recovery(s) \cup Invalidate(s) : Good(q.s)
         /\ \A q \in FinishMutation(s, Recovery) \cup Finish(Done("failed", {s})) : Good(q.s)
<1>1. \A q \in Recovery(s) : Good(q.s) BY RecoveryDoes DEF Calm
<1>2. \A q \in Invalidate(s) : Good(q.s) BY InvalidateDoes DEF Calm, Held
<1>3. \A q \in FinishMutation(s, Recovery) : Good(q.s) BY FinishMutationDoes DEF Calm
<1>4. \A q \in Finish(Done("failed", {s})) : Good(q.s) BY FinishFailedDoes DEF Calm
<1> QED BY <1>1, <1>2, <1>3, <1>4

\* resolvectl inside a DNS transaction.
LEMMA ResolvectlCalm ==
  ASSUME NEW s, Calm(s), NEW i, NEW v, NEW o \in Resolvectl(s, i, v)
  PROVE  o.ok \in BOOLEAN /\ Calm(o.s)
BY CalmStays, ResolvectlDoes

\* restorePreviousDns().
LEMMA DnsRestoreDoes ==
  ASSUME NEW i, NEW prev, NEW t, Calm(t), NEW o \in DnsRestore(i, prev, t)
  PROVE  o.ok \in BOOLEAN /\ Calm(o.s)
<1> DEFINE S == IF i # prev THEN Resolvectl(t, i, {}) ELSE {[ok |-> TRUE, s |-> t]}
<1>1. PICK a \in S : o \in IF prev = NoIf THEN {a}
                  ELSE {[ok |-> a.ok /\ b.ok, s |-> b.s] : b \in Resolvectl(a.s, prev, Bound)} BY DEF DnsRestore, Bind
<1>2. a.ok \in BOOLEAN /\ Calm(a.s)
  <2>1. CASE i # prev BY <2>1, ResolvectlCalm
  <2>2. CASE i = prev
    <3>1. a = [ok |-> TRUE, s |-> t] BY <2>2
    <3> QED BY <3>1
  <2> QED BY <2>1, <2>2
<1> HIDE DEF S
<1>3. CASE prev = NoIf BY <1>1, <1>2, <1>3
<1>4. CASE prev # NoIf BY <1>1, <1>4, <1>2, ResolvectlCalm
<1> QED BY <1>3, <1>4

\* configureDns() that fails and is undone.
LEMMA DnsAbortDoes ==
  ASSUME NEW i, NEW prev, NEW t, Calm(t), NEW q \in DnsAbort(i, prev, t)
  PROVE  Good(q.s)
<1>1. PICK o \in DnsRestore(i, prev, t) :
        q \in IF o.ok THEN Finish(Done("failed", {o.s})) ELSE Recovery(o.s) BY DEF DnsAbort, Bind
<1> QED BY <1>1, DnsRestoreDoes, CalmEnds

\* configureDns() saves its receipt.
LEMMA DnsPublishDoes ==
  ASSUME NEW i, NEW prev, NEW t, Calm(t), NEW q \in DnsPublish(i, prev, t)
  PROVE  Good(q.s)
<1> DEFINE p == [t EXCEPT !.mem.dns = i]
           w(o) == [o.s EXCEPT !.mem.dns = prev]
<1>1. PICK o \in SaveState(p) :
        q \in IF o.ok THEN FinishMutation(o.s, Recovery)
              ELSE Bind(DnsRestore(i, prev, w(o)), LAMBDA u : Recovery(u.s)) BY DEF DnsPublish, Bind
<1>2. Calm(p) BY CalmStays, SetMemDnsDoes
<1> HIDE DEF p
<1>3. o.ok \in BOOLEAN /\ Calm(o.s) BY <1>2, CalmStays
<1>4. CASE o.ok BY <1>1, <1>3, <1>4, CalmEnds
<1>5. CASE ~o.ok
  <2>1. Calm(w(o)) BY <1>3, CalmStays, SetMemDnsDoes
  <2> HIDE DEF w
  <2>2. PICK u \in DnsRestore(i, prev, w(o)) : q \in Recovery(u.s) BY <1>1, <1>5 DEF Bind
  <2> QED BY <2>1, <2>2, DnsRestoreDoes, CalmEnds
<1> QED BY <1>3, <1>4, <1>5

\* configureDns() reverts the previous link.
LEMMA DnsRetireDoes ==
  ASSUME NEW i, NEW prev, NEW t, Calm(t), NEW q \in DnsRetire(i, prev, t)
  PROVE  Good(q.s)
<1> DEFINE S == IF prev \notin {NoIf, i} THEN Resolvectl(t, prev, {}) ELSE {[ok |-> TRUE, s |-> t]}
<1>1. PICK o \in S :
        q \in IF o.ok THEN DnsPublish(i, prev, o.s)
                               \cup Bind(Fail(o.s), LAMBDA u : DnsAbort(i, prev, u))
              ELSE DnsAbort(i, prev, o.s) BY DEF DnsRetire, Bind
<1>2. o.ok \in BOOLEAN /\ Calm(o.s)
  <2>1. CASE prev \notin {NoIf, i} BY <2>1, ResolvectlCalm
  <2>2. CASE prev \in {NoIf, i}
    <3>1. o = [ok |-> TRUE, s |-> t] BY <2>2
    <3> QED BY <3>1
  <2> QED BY <2>1, <2>2
<1> HIDE DEF S
<1>3. CASE q \in DnsPublish(i, prev, o.s) BY <1>2, <1>3, DnsPublishDoes
<1>4. CASE q \in DnsAbort(i, prev, o.s) BY <1>2, <1>4, DnsAbortDoes
<1>5. CASE \E u \in Fail(o.s) : q \in DnsAbort(i, prev, u) BY <1>2, <1>5, CalmStays, DnsAbortDoes
<1> QED BY <1>1, <1>2, <1>3, <1>4, <1>5 DEF Bind

\* configureDns() binds the new link.
LEMMA DnsBindDoes ==
  ASSUME NEW i, NEW prev, NEW t, Calm(t), NEW q \in DnsBind(i, prev, t)
  PROVE  Good(q.s)
<1>1. PICK o \in Resolvectl(t, i, t.host.dns[i] \cup {"dns"}) :
        q \in IF ~o.ok THEN Finish(Done("failed", {o.s}))
              ELSE Bind(Resolvectl(o.s, i, Bound),
                        LAMBDA v : IF v.ok THEN DnsRetire(i, prev, v.s) ELSE DnsAbort(i, prev, v.s))
  BY DEF DnsBind, Bind
<1>2. o.ok \in BOOLEAN /\ Calm(o.s) BY ResolvectlCalm
<1>3. CASE ~o.ok BY <1>1, <1>2, <1>3, CalmEnds
<1>4. CASE o.ok BY <1>1, <1>4, <1>2, ResolvectlCalm, DnsRetireDoes, DnsAbortDoes DEF Bind
<1> QED BY <1>2, <1>3, <1>4

\* A DNS transaction begins.
LEMMA BeginCalm ==
  ASSUME NEW s, Good(s), s.mem.valid, NEW o \in BeginMutation(s)
  PROVE  o.ok \in BOOLEAN /\ Good(o.s) /\ (o.ok => Calm(o.s))
BY BeginDoes DEF Calm

\* configureDns() leaves a good state.
LEMMA ConfigureDnsDoes ==
  ASSUME NEW s, Good(s), NEW i, NEW q \in ConfigureDns(s, i)
  PROVE  Good(q.s)
<1>1. CASE q \in Refused(s) \cup Done("failed", Fail(s)) BY <1>1, RefusedDoes
<1>2. CASE s.mem.valid /\ \E o \in BeginMutation(s) : q \in IF o.ok THEN DnsBind(i, s.mem.dns, o.s) ELSE Refused(o.s)
  <2>1. PICK o \in BeginMutation(s) : q \in IF o.ok THEN DnsBind(i, s.mem.dns, o.s) ELSE Refused(o.s) BY <1>2
  <2>2. o.ok \in BOOLEAN /\ Good(o.s) /\ (o.ok => Calm(o.s)) BY <1>2, BeginCalm
  <2> QED BY <2>1, <2>2, DnsBindDoes, RefusedDoes
<1> QED BY <1>1, <1>2 DEF ConfigureDns, Preflight, Bind

\* The receipt without its DNS field, in a transaction or outside one.
LEMMA DnsForgetDoes ==
  ASSUME NEW t, Fields(t), NEW o \in DnsForget(t)
  PROVE  /\ o.ok \in BOOLEAN /\ Fields(o.s) /\ (Calm(t) => Calm(o.s))
         /\ Good(t) /\ t.mem.valid => Good(o.s)
<1> DEFINE p == [t EXCEPT !.mem.dns = NoIf]
<1>1. Alike(p, t) BY SetMemDnsDoes
<1>2. o \in SaveState(p) BY DEF DnsForget
<1> HIDE DEF p
<1>3. /\ Fields(o.s) /\ o.ok \in BOOLEAN /\ o.s.host = p.host /\ o.s.mem = p.mem
      /\ o.s.disk.intent = p.disk.intent /\ o.s.disk.marker = p.disk.marker
      /\ o.ok => Agree(p.mem, o.s.disk.receipt) /\ o.s.disk.receipt = Receipt(p.mem)
      /\ ~o.ok => o.s.disk = p.disk BY <1>1, <1>2, SaveStateDoes DEF Alike
<1>5. ASSUME Good(t), t.mem.valid PROVE Good(o.s) BY <1>1, <1>5, AlikeKeeps, <1>3, SoundIsGood DEF Good, Sound
<1> QED BY <1>1, <1>2, <1>3, <1>5, CalmStays

\* clearDns() after the link was reverted.
LEMMA DnsRevertedDoes ==
  ASSUME NEW prev, NEW t, Calm(t), NEW q \in DnsReverted(prev, t)
  PROVE  Good(q.s)
<1> DEFINE w(o) == [o.s EXCEPT !.mem.dns = prev]
           S(o) == IF prev = NoIf THEN {o} ELSE Resolvectl(w(o), prev, Bound)
<1>1. CASE q \in Finish(Done("failed", Fail(t)))
  <2>1. PICK u \in Fail(t) : q \in FinishTransaction([code |-> "failed", s |-> u]) BY <1>1 DEF Finish, Done, Bind
  <2>2. q \in Finish(Done("failed", {u})) BY <2>1 DEF Finish, Done, Bind
  <2> QED BY <2>2, CalmStays, CalmEnds
<1>2. CASE \E o \in DnsForget(t) : q \in IF o.ok THEN FinishMutation(o.s, Recovery)
                                        ELSE Bind(S(o), LAMBDA u : Recovery(u.s))
  <2>1. PICK o \in DnsForget(t) : q \in IF o.ok THEN FinishMutation(o.s, Recovery)
                                        ELSE Bind(S(o), LAMBDA u : Recovery(u.s)) BY <1>2
  <2>2. o.ok \in BOOLEAN /\ Calm(o.s) BY CalmStays, DnsForgetDoes
  <2>3. CASE o.ok BY <2>1, <2>2, <2>3, CalmEnds
  <2>4. CASE ~o.ok
    <3>1. PICK u \in S(o) : q \in Recovery(u.s) BY <2>1, <2>4 DEF Bind
    <3>2. Calm(w(o)) BY <2>2, CalmStays, SetMemDnsDoes
    <3> HIDE DEF w
    <3>3. CASE prev = NoIf
      <4>1. u = o BY <3>3
      <4> QED BY <2>2, <3>1, <4>1, CalmEnds
    <3>4. CASE prev # NoIf
      <4>1. u \in Resolvectl(w(o), prev, Bound) BY <3>4
      <4> QED BY <3>1, <3>2, <4>1, ResolvectlCalm, CalmEnds
    <3> QED BY <3>3, <3>4
  <2> QED BY <2>2, <2>3, <2>4
<1>3. q \in Finish(Done("failed", Fail(t))) \/ q \in Bind(DnsForget(t),
         LAMBDA o : IF o.ok THEN FinishMutation(o.s, Recovery) ELSE Bind(S(o), LAMBDA u : Recovery(u.s)))
  BY DEF DnsReverted
<1> HIDE DEF S
<1> QED BY <1>1, <1>2, <1>3 DEF Bind

\* clearDns() inside its transaction.
LEMMA DnsRevertDoes ==
  ASSUME NEW i, NEW prev, NEW t, Calm(t), NEW q \in DnsRevert(i, prev, t)
  PROVE  Good(q.s)
<1>1. CASE i \notin t.host.up
  <2>1. PICK o \in DnsForget(t) : q \in IF o.ok THEN FinishMutation(o.s, Recovery) ELSE Invalidate(o.s)
    BY <1>1 DEF DnsRevert, Bind
  <2>2. o.ok \in BOOLEAN /\ Calm(o.s) BY CalmStays, DnsForgetDoes
  <2> QED BY <2>1, <2>2, CalmEnds
<1>2. CASE i \in t.host.up
  <2>1. PICK o \in Resolvectl(t, i, {}) : q \in IF o.ok THEN DnsReverted(prev, o.s)
                                                ELSE Finish(Done("failed", {o.s})) BY <1>2 DEF DnsRevert, Bind
  <2>2. o.ok \in BOOLEAN /\ Calm(o.s) BY ResolvectlCalm
  <2> QED BY <2>1, <2>2, DnsRevertedDoes, CalmEnds
<1> QED BY <1>1, <1>2

\* clearDns() leaves a good state.
LEMMA ClearDnsDoes ==
  ASSUME NEW s, Good(s), NEW arg, NEW q \in ClearDns(s, arg)
  PROVE  Good(q.s)
<1> DEFINE prev == s.mem.dns
           i == IF arg = NoIf THEN prev ELSE arg
<1>1. \/ q \in Refused(s) \/ q \in Done("failed", {s})
      \/ /\ s.mem.valid
         /\ q \in Bind(DnsForget(s), LAMBDA o : IF o.ok THEN Done("ok", {o.s}) ELSE Invalidate(o.s))
      \/ s.mem.valid /\ q \in Preflight(s, LAMBDA t : DnsRevert(i, prev, t)) BY DEF ClearDns
<1>2. CASE q \in Refused(s) \/ q \in Done("failed", {s}) BY <1>2, RefusedDoes
<1>3. CASE /\ s.mem.valid
           /\ q \in Bind(DnsForget(s), LAMBDA o : IF o.ok THEN Done("ok", {o.s}) ELSE Invalidate(o.s))
  <2>1. PICK o \in DnsForget(s) : q \in IF o.ok THEN Done("ok", {o.s}) ELSE Invalidate(o.s) BY <1>3 DEF Bind
  <2>2. o.ok \in BOOLEAN /\ Good(o.s) /\ Fields(o.s) BY <1>3, DnsForgetDoes DEF Good
  <2>3. CASE o.ok BY <2>1, <2>2, <2>3 DEF Done
  <2>4. CASE ~o.ok BY <2>1, <2>2, <2>4, InvalidateDoes DEF Good
  <2> QED BY <2>2, <2>3, <2>4
<1> HIDE DEF i, prev
<1>4. CASE s.mem.valid /\ q \in Preflight(s, LAMBDA t : DnsRevert(i, prev, t))
  <2>2. CASE q \in Done("failed", Fail(s)) BY <2>2, RefusedDoes
  <2>3. CASE \E o \in BeginMutation(s) : q \in IF o.ok THEN DnsRevert(i, prev, o.s) ELSE Refused(o.s)
    <3>1. PICK o \in BeginMutation(s) : q \in IF o.ok THEN DnsRevert(i, prev, o.s) ELSE Refused(o.s) BY <2>3
    <3>2. o.ok \in BOOLEAN /\ Good(o.s) /\ (o.ok => Calm(o.s)) BY <1>4, BeginCalm
    <3> QED BY <3>1, <3>2, DnsRevertDoes, RefusedDoes
  <2> QED BY <1>4, <2>2, <2>3 DEF Preflight, Bind
<1> QED BY <1>1, <1>2, <1>3, <1>4

\* A rejected receipt: the object refuses, the files stay as honest as before.
LEMMA RejectedDoes ==
  ASSUME NEW s, Fields(s), Honest(s), NEW t \in Rejected(s)
  PROVE  Good(t)
<1> DEFINE m == [Fresh EXCEPT !.valid = FALSE, !.mode = "recovery_required"]
<1>1. m.valid = FALSE /\ MemFields \subseteq DOMAIN m BY DEF Fresh, MemFields
<1>2. t = [s EXCEPT !.mem = m] BY DEF Rejected
<1> HIDE DEF m
<1> QED BY <1>1, <1>2 DEF Good, Honest, Fields, HostFields, DiskFields

\* The rewrite of an unmarked table keeps the promise it was made for.
LEMMA RewriteTableDoes ==
  ASSUME NEW t, Held(t), Accounts(t.host, t.disk.receipt), NEW o \in RewriteTable(t)
  PROVE  /\ o.ok \in BOOLEAN /\ Fields(o.s) /\ Honest(o.s)
         /\ o.ok => Accounts(o.s.host, o.s.disk.receipt)
<1> DEFINE n == [t EXCEPT !.host.marked = TRUE]
<1>1. ASSUME NEW x, Held(x), NEW y \in MarkRecoveryRequired(x), o = [ok |-> FALSE, s |-> y]
      PROVE  o.ok = FALSE /\ Fields(o.s) /\ Honest(o.s)
  <2>1. Good(y) BY <1>1, MarkDoes DEF Held
  <2> QED BY <1>1, <2>1 DEF Good
<1>2. \A x \in Fail(t) : Held(x) BY FailFrame DEF Held, Frame
<1>3. CASE o \in Bind(ClearTransactionIntent(n),
                      LAMBDA v : IF v.ok THEN {v} ELSE Broken(MarkRecoveryRequired(v.s)))
  <2>1. /\ Held(n) /\ n.disk = t.disk /\ n.host.main = t.host.main
        /\ n.host.table = t.host.table /\ n.host.full = t.host.full /\ n.host.bypass = t.host.bypass
    BY DEF Held, Fields, HostFields, MemFields, DiskFields
  <2> HIDE DEF n
  <2>2. Accounts(n.host, t.disk.receipt) BY <2>1 DEF Accounts, Managed, Owned
  <2>3. PICK v \in ClearTransactionIntent(n) : o \in IF v.ok THEN {v} ELSE Broken(MarkRecoveryRequired(v.s))
    BY <1>3 DEF Bind
  <2>4. /\ v.ok \in BOOLEAN /\ Fields(v.s) /\ v.s.host = n.host /\ v.s.disk.receipt = t.disk.receipt
        /\ ~v.ok => Held(v.s) BY <2>1, RetireDoes
  <2>5. CASE v.ok BY <2>2, <2>3, <2>4, <2>5 DEF Honest
  <2>6. CASE ~v.ok
    <3>1. PICK y \in MarkRecoveryRequired(v.s) : o = [ok |-> FALSE, s |-> y] BY <2>3, <2>6 DEF Broken
    <3> QED BY <1>1, <2>4, <2>6, <3>1
  <2> QED BY <2>4, <2>5, <2>6
<1>4. CASE o \in Broken(Fail(t))
  <2>1. PICK x \in Fail(t) : o = [ok |-> FALSE, s |-> x] BY <1>4 DEF Broken
  <2> QED BY <1>2, <2>1 DEF Held, Honest, Distrusted
<1>5. CASE o \in Broken(Bind(Fail(t), LAMBDA u : Bind(Fail(u), MarkRecoveryRequired)))
  <2>1. PICK u \in Fail(t) : \E x \in Fail(u) : \E y \in MarkRecoveryRequired(x) : o = [ok |-> FALSE, s |-> y]
    BY <1>5 DEF Broken, Bind
  <2>2. PICK x \in Fail(u) : \E y \in MarkRecoveryRequired(x) : o = [ok |-> FALSE, s |-> y] BY <2>1
  <2>3. Held(x) BY <1>2, FailFrame DEF Held, Frame
  <2> QED BY <1>1, <2>2, <2>3
<1> QED BY <1>3, <1>4, <1>5 DEF RewriteTable

\* migrateLegacyTable() as the start-up runs it.
LEMMA MigrateDoes ==
  ASSUME NEW s, Fields(s), Accounts(s.host, s.disk.receipt), NEW o \in MigrateLegacyTable(s)
  PROVE  /\ o.ok \in BOOLEAN /\ Fields(o.s) /\ Honest(o.s)
         /\ o.ok => Accounts(o.s.host, o.s.disk.receipt)
<1>1. CASE o = [ok |-> TRUE, s |-> s] BY <1>1 DEF Honest
<1>2. CASE \E b \in BeginMutation(s) : o \in IF b.ok THEN RewriteTable(b.s) ELSE {b}
  BY <1>2, BeginKeeps, RewriteTableDoes DEF Honest
<1> QED BY <1>1, <1>2 DEF MigrateLegacyTable, Bind

\* A believed receipt becomes the object's promise, and is saved as it is.
LEMMA AcceptDoes ==
  ASSUME NEW t, Fields(t), Accounts(t.host, t.disk.receipt), NEW u \in Accept(t)
  PROVE  Good(u)
<1> DEFINE rec == t.disk.receipt
           m == Loaded(rec, Offline(rec, t.host))
           w == [t EXCEPT !.mem = m]
<1>1. m.valid /\ Agree(m, rec) /\ MemFields \subseteq DOMAIN m BY DEF Loaded, Agree, MemFields
<1>2. u = w \/ \E o \in SaveState(w) : u \in IF o.ok THEN {o.s} ELSE Rejected(o.s) BY DEF Accept, Bind
<1> HIDE DEF m
<1>3. Fields(w) /\ w.mem = m /\ w.host = t.host /\ w.disk = t.disk BY <1>1 DEF Fields, HostFields, DiskFields
<1> HIDE DEF w
<1>4. Sound(w) /\ Good(w) BY <1>1, <1>3, AgreeAccounts, SoundIsGood DEF Sound
<1>5. CASE \E o \in SaveState(w) : u \in IF o.ok THEN {o.s} ELSE Rejected(o.s)
  BY <1>5, <1>3, SaveStateDoes, <1>4, SoundIsGood, RejectedDoes DEF Sound, Good, Honest
<1> QED BY <1>2, <1>4, <1>5

\* loadState(): a receipt is believed only when it accounts for the kernel, so
\* every outcome of a start is good.
LEMMA LoadStateDoes ==
  ASSUME NEW s, Fields(s), Honest(s), NEW t \in LoadState(s)
  PROVE  Good(t)
<1>1. CASE t \in Rejected(s) BY <1>1, RejectedDoes
<1>2. CASE \E u \in Fail(s) : t \in Rejected(u) BY <1>2, FailFrame, RejectedDoes DEF Frame, Honest
<1>3. CASE /\ ~s.disk.marker /\ ~s.disk.intent /\ KernelAgrees(s.disk.receipt, s.host)
           /\ \E o \in MigrateLegacyTable(s) : t \in IF o.ok THEN Accept(o.s) ELSE Rejected(o.s)
  BY <1>3, MigrateDoes, AcceptDoes, RejectedDoes DEF KernelAgrees, Honest, Distrusted
<1> QED BY <1>1, <1>2, <1>3 DEF LoadState, Bind

-----------------------------------------------------------------------------
(* The controller. *)

\* The controller's receipt is another file.
LEMMA CtlSaveDoes ==
  ASSUME NEW s, Fields(s), NEW o \in CtlSave(s)
  PROVE  /\ o.ok \in BOOLEAN /\ Frame(o.s, s) /\ o.s.host = s.host
         /\ Good(s) => Good(o.s)
<1> DEFINE t == [s EXCEPT !.cdisk.receipt = <<s.ctl>>, !.cdisk.marker = @ /\ ~s.ctl.valid]
<1>1. Frame(t, s) /\ t.host = s.host BY DEF Frame, Fields, HostFields, MemFields, DiskFields
<1>2. o \in Try(s, t) BY DEF CtlSave
<1> HIDE DEF t
<1>3. o.ok \in BOOLEAN /\ Frame(o.s, s) /\ o.s.host = s.host BY <1>1, <1>2, TryDoes, FailFrame
<1> QED BY <1>3, FrameIsGood

\* The controller's fields are not the reconciler's.
LEMMA SetCtlDoes ==
  ASSUME NEW s, Good(s), NEW c
  PROVE  Good([s EXCEPT !.ctl = c])
<1> DEFINE t == [s EXCEPT !.ctl = c]
<1>1. Frame(t, s) /\ t.host = s.host BY DEF Good, Frame, Fields
<1> HIDE DEF t
<1>2. Good(t) BY <1>1, FrameIsGood
<1> QED BY <1>2 DEF t

\* The controller's own recovery mark.
LEMMA CtlMarkRecoveryDoes ==
  ASSUME NEW s, Good(s), NEW t \in CtlMarkRecovery(s)
  PROVE  Good(t)
<1> DEFINE p == [s EXCEPT !.ctl.valid = FALSE]
           m(o) == [o.s EXCEPT !.cdisk.marker = TRUE]
<1>1. PICK u \in MarkRecoveryRequired(p) : t \in Bind(CtlSave(u),
         LAMBDA o : IF o.ok /\ (u.disk.marker \/ u.disk.receipt.mode = "recovery_required")
                    THEN {o.s}
                    ELSE {x.s : x \in Try(o.s, m(o))}) BY DEF CtlMarkRecovery, Bind
<1>2. Good(p) BY SetCtlDoes
<1> HIDE DEF p, m
<1>3. Good(u) /\ Fields(u) BY <1>2, MarkDoes DEF Good
<1>4. PICK o \in CtlSave(u) : t \in IF o.ok /\ (u.disk.marker \/ u.disk.receipt.mode = "recovery_required")
                    THEN {o.s} ELSE {x.s : x \in Try(o.s, m(o))} BY <1>1 DEF Bind
<1>5. Good(o.s) BY <1>3, CtlSaveDoes
<1>6. CASE \E x \in Try(o.s, m(o)) : t = x.s
  <2>2. Good(m(o)) BY <1>5, FrameIsGood DEF m, Good, Frame, Fields, HostFields, MemFields, DiskFields
  <2>3. \A x \in Fail(o.s) : Good(x) BY <1>5, FailFrame, FrameIsGood DEF Good
  <2> QED BY <1>6, <2>2, <2>3, TryDoes
<1> QED BY <1>4, <1>5, <1>6

\* The controller's load, after the reconciler's.
LEMMA CtlLoadDoes ==
  ASSUME NEW s, Good(s), NEW t \in CtlLoad(s)
  PROVE  Good(t)
<1>1. ASSUME NEW x, Good(x), NEW c, t = [x EXCEPT !.ctl = c]
      PROVE  Good(t) BY <1>1, SetCtlDoes
<1> DEFINE Bad(x) == {[x EXCEPT !.ctl = [Blank EXCEPT !.valid = FALSE]]}
           c == s.cdisk.receipt[1]
           y == [s EXCEPT !.ctl = [c EXCEPT !.reapply = s.mem.reapply]]
<1>2. ASSUME NEW x, Good(x), t \in Bad(x) PROVE Good(t) BY <1>2, <1>1
<1>3. \/ t \in Bad(s) \/ t \in {[s EXCEPT !.ctl = Blank]} \/ t \in {y}
      \/ t \in Bind(CtlSave(y), LAMBDA o : IF o.ok THEN {o.s} ELSE Bad(o.s)) BY DEF CtlLoad
<1> HIDE DEF Bad
<1>4. Good(y) BY SetCtlDoes
<1> HIDE DEF y
<1>5. CASE t \in Bind(CtlSave(y), LAMBDA o : IF o.ok THEN {o.s} ELSE Bad(o.s))
  BY <1>5, <1>4, CtlSaveDoes, <1>2 DEF Bind, Good
<1>6. CASE t = [s EXCEPT !.ctl = Blank] BY <1>1, <1>6
<1> QED BY <1>2, <1>3, <1>4, <1>5, <1>6

\* What dies with a link does not make a receipt wrong.
LEMMA LinkGoneAccounts ==
  ASSUME NEW h, HostFields \subseteq DOMAIN h, NEW i, NEW m, Accounts(h, m)
  PROVE  Accounts(LinkGone(h, i), m)
<1> DEFINE g == LinkGone(h, i)
<1>1. /\ g.full = h.full /\ g.bypass = h.bypass
      /\ g.main = [r \in Prefixes |-> IF h.main[r] = i THEN NoIf ELSE h.main[r]]
      /\ g.table = [f \in Families |-> IF h.table[f] = i THEN NoIf ELSE h.table[f]] BY DEF LinkGone, HostFields
<1> HIDE DEF g
<1> QED BY <1>1, RouteConstants DEF g, Accounts, Managed, Owned

\* A link that disappears, at any time.
LEMMA LinkGoneKeeps ==
  ASSUME NEW s, Fields(s), NEW i
  PROVE  LET t == [s EXCEPT !.host = LinkGone(@, i)]
         IN Fields(t) /\ t.mem = s.mem /\ t.disk = s.disk /\ t.host = LinkGone(s.host, i)
            /\ (Honest(s) => Honest(t)) /\ (Good(s) => Good(t))
<1> DEFINE g == LinkGone(s.host, i)
           t == [s EXCEPT !.host = g]
<1>1. HostFields \subseteq DOMAIN g BY DEF LinkGone, HostFields, Fields
<1>2. \A m : Accounts(s.host, m) => Accounts(g, m) BY LinkGoneAccounts DEF Fields
<1> HIDE DEF g
<1>3. Fields(t) /\ t.mem = s.mem /\ t.disk = s.disk /\ t.host = g BY <1>1 DEF Fields
<1> HIDE DEF t
<1>4. Honest(s) => Honest(t) BY <1>2, <1>3 DEF Honest
<1> QED BY <1>2, <1>3, <1>4 DEF t, g, Good, Sound

\* A running daemon's state is good; a stopped one's receipt is honest.
IInv == /\ Fields(State) /\ Honest(State)
        /\ running => Good(State)
        /\ ~running => job = Idle

\* The step of a handler that works: it ends in a good state.
Lands == \E s : Good(s) /\ Becomes(s) /\ running' = running

\* A step into a good state.
LEMMA StateIs ==
  ASSUME NEW s, Good(s), Becomes(s)
  PROVE  Good(State)'
<1> QED BY DEF Good, Fields, Honest, Sound, Distrusted, Accounts, Agree, Managed, Owned, State, Becomes

\* A handler that lands keeps the invariant.
LEMMA LandsIsEnough ==
  ASSUME running, Lands
  PROVE  IInv'
BY StateIs DEF Lands, IInv, Good

\* The ways in which the controller's handlers end a step.
LEMMA GotoLands ==
  ASSUME NEW s, Good(s), NEW j, Goto(s, j)
  PROVE  Lands
BY DEF Goto, Lands

\* A step that only moves on.
LEMMA ToLands ==
  ASSUME NEW s, Good(s), NEW pc, To(s, pc)
  PROVE  Lands
BY GotoLands DEF To

\* A call that returns.
LEMMA ReturnLands ==
  ASSUME NEW s, Good(s), NEW code, Return(s, code)
  PROVE  Lands
BY DEF Return, Lands

\* A call that ends in recovery.
LEMMA UnrecoverableLands ==
  ASSUME NEW s, Good(s), Unrecoverable(s)
  PROVE  Lands
BY CtlMarkRecoveryDoes, ReturnLands DEF Unrecoverable

\* failAllExcept(): the fallback begins.
LEMMA FailAllExceptLands ==
  ASSUME NEW s, Good(s), FailAllExcept(s)
  PROVE  Lands
BY GotoLands, ReturnLands DEF FailAllExcept, Fallback

\* restoreBootstrap() begins.
LEMMA RestoreBootstrapLands ==
  ASSUME NEW s, Good(s), NEW code, RestoreBootstrap(s, code)
  PROVE  Lands
BY GotoLands DEF RestoreBootstrap

\* A failed applyRoutes() goes on as its caller asks.
LEMMA ApplyFailedLands ==
  ASSUME NEW s, Good(s), NEW code, ApplyFailed(s, code)
  PROVE  Lands
<1> QED BY ReturnLands, FailAllExceptLands, RestoreBootstrapLands DEF ApplyFailed

\* The same after the controller's recovery mark.
LEMMA ApplyUnrecoverableLands ==
  ASSUME NEW s, Good(s), ApplyUnrecoverable(s)
  PROVE  Lands
BY CtlMarkRecoveryDoes, ApplyFailedLands DEF ApplyUnrecoverable

\* The fallback ends.
LEMMA FallbackDoneLands ==
  ASSUME NEW s, Good(s), NEW code, FallbackDone(s, code)
  PROVE  Lands
BY ApplyFailedLands, ReturnLands DEF FallbackDone

\* The fallback fails.
LEMMA FallbackLostLands ==
  ASSUME NEW s, Good(s), FallbackLost(s)
  PROVE  Lands
BY CtlMarkRecoveryDoes, FallbackDoneLands DEF FallbackLost

\* The reconciler call for the session's mode.
LEMMA TargetDoes ==
  ASSUME NEW s, Good(s), NEW r \in Target(s)
  PROVE  Good(r.s)
<1>1. \/ \E i, R : r \in Apply(s, i, R)
      \/ \E i, B, C : r \in ApplyAllExcept(s, i, B, C)
      \/ r \in Done("failed", {s}) BY DEF Target
<1> QED BY <1>1, ApplyDoes, ApplyAllExceptDoes, RefusedDoes

\* The reconciler call that puts the previous routes back.
LEMMA ReinstateDoes ==
  ASSUME NEW s, Good(s), NEW m, NEW r \in Reinstate(s, m)
  PROVE  Good(r.s)
BY ApplyDoes, ApplyAllExceptDoes, ClearDoes DEF Reinstate

\* The reconciler call for the session's resolver.
LEMMA DnsOfDoes ==
  ASSUME NEW s, Good(s), NEW i, NEW r \in DnsOf(s, i)
  PROVE  Good(r.s)
BY ConfigureDnsDoes, ClearDnsDoes, RefusedDoes DEF DnsOf

\* A save of the controller's receipt with other fields.
LEMMA CtlSaveWith ==
  ASSUME NEW s, Good(s), NEW c, NEW o \in CtlSave([s EXCEPT !.ctl = c])
  PROVE  o.ok \in BOOLEAN /\ Good(o.s)
<1> DEFINE t == [s EXCEPT !.ctl = c]
<1>1. Good(t) /\ Fields(t) BY SetCtlDoes DEF Good
<1>2. o \in CtlSave(t) OBVIOUS
<1> HIDE DEF t
<1> QED BY <1>1, <1>2, CtlSaveDoes

\* Every step of the controller's handlers ends in a good state.
LEMMA StepsLand ==
  ASSUME Good(State), Steps
  PROVE  Lands
<1>1. CASE ApplyRoutes BY <1>1, TargetDoes, GotoLands, ApplyFailedLands DEF ApplyRoutes, Fallback
<1>2. CASE ApplyDns BY <1>2, DnsOfDoes, ToLands, GotoLands DEF ApplyDns
<1>3. CASE UndoRoutes BY <1>3, ReinstateDoes, GotoLands DEF UndoRoutes
<1>4. CASE UndoDns BY <1>4, ClearDnsDoes, ConfigureDnsDoes, ApplyFailedLands, ApplyUnrecoverableLands DEF UndoDns
<1>5. CASE SaveApplied
  <2>1. PICK c : \E o \in CtlSave([State EXCEPT !.ctl = c]) :
          \/ ApplyUnrecoverable(o.s) \/ To(o.s, "keep") \/ To(o.s, "fetch") \/ To(o.s, "record")
    BY <1>5 DEF SaveApplied
  <2> QED BY <2>1, CtlSaveWith, ApplyUnrecoverableLands, ToLands
<1>6. CASE KeepReapply BY <1>6, CtlSaveWith, UnrecoverableLands, ToLands DEF KeepReapply
<1>7. CASE FetchPolicy BY <1>7, GotoLands DEF FetchPolicy
<1>8. CASE FetchFails BY <1>8, FailAllExceptLands, RestoreBootstrapLands, ReturnLands DEF FetchFails
<1>9. CASE RecordPolicy BY <1>9, CtlSaveWith, UnrecoverableLands, ReturnLands DEF RecordPolicy
<1>10. CASE OnlyDns BY <1>10, DnsOfDoes, CtlSaveWith, UnrecoverableLands, ReturnLands DEF OnlyDns
<1>11. CASE FallbackRoutes BY <1>11, ApplyDoes, ToLands, FallbackLostLands DEF FallbackRoutes
<1>12. CASE FallbackDns BY <1>12, DnsOfDoes, ToLands, FallbackLostLands DEF FallbackDns
<1>13. CASE FallbackSave BY <1>13, CtlSaveWith, FallbackDoneLands, FallbackLostLands DEF FallbackSave
<1>14. CASE RestoreRouting BY <1>14, ReinstateDoes, ClearDoes, ToLands, GotoLands DEF RestoreRouting
<1>15. CASE RestoreDns BY <1>15, ClearDnsDoes, ConfigureDnsDoes, GotoLands DEF RestoreDns
<1>16. CASE RestoreController BY <1>16, SetCtlDoes, CtlSaveWith, UnrecoverableLands, ReturnLands DEF RestoreController
<1>17. CASE DisconnectDns BY <1>17, ClearDnsDoes, ToLands, ReturnLands DEF DisconnectDns
<1>18. CASE DisconnectRoutes BY <1>18, ClearDoes, ToLands, ReturnLands DEF DisconnectRoutes
<1>19. CASE DisconnectSave BY <1>19, CtlSaveWith, UnrecoverableLands, ReturnLands DEF DisconnectSave
<1>20. CASE BackendDown
  <2>1. Good([State EXCEPT !.host = LinkGone(@, job.i)]) BY LinkGoneKeeps DEF Good
  <2> QED BY <1>20, <2>1, GotoLands DEF BackendDown
<1> QED
  BY <1>1, <1>2, <1>3, <1>4, <1>5, <1>6, <1>7, <1>8, <1>9, <1>10, <1>11, <1>12, <1>13, <1>14, <1>15, <1>16, <1>17,
    <1>18, <1>19, <1>20 DEF Steps

\* A clean host holds none of the daemon's objects.
LEMMA CleanIsBare == Bare(CleanHost)
BY RouteConstants DEF Bare, CleanHost, Managed, Owned

\* A first start, a running daemon on a clean host, or an upgrade.
LEMMA InitHolds == Init => IInv
<1> SUFFICES ASSUME Init PROVE IInv OBVIOUS
<1>1. MemFields \subseteq DOMAIN Fresh /\ HostFields \subseteq DOMAIN CleanHost
  BY DEF MemFields, HostFields, Fresh, CleanHost
<1>2. Bare(CleanHost) BY CleanIsBare
<1>3. DiskFields \subseteq DOMAIN disk /\ job = Idle BY DEF Init, DiskFields
<1>4. CASE host = CleanHost /\ disk = [receipt |-> NoReceipt, intent |-> FALSE, marker |-> FALSE]
  <2>2. Accounts(host, Fresh) /\ Agree(Fresh, disk.receipt) BY <1>2, <1>4 DEF Accounts, Bare, Fresh, Agree, NoReceipt
  <2>3. Sound(State) BY <2>2 DEF Sound, State, Init, Fresh
  <2> QED BY <1>1, <1>3, <1>4, <2>3, SoundIsGood DEF IInv, Good, Fields, State, Init
<1>5. CASE \E i \in Ifaces :
             /\ host = Legacy(i).host /\ running = FALSE
             /\ disk = [receipt |-> Legacy(i).receipt, intent |-> FALSE, marker |-> FALSE]
  <2>1. PICK i \in Ifaces :
             /\ host = Legacy(i).host /\ running = FALSE
             /\ disk = [receipt |-> Legacy(i).receipt, intent |-> FALSE, marker |-> FALSE] BY <1>5
  <2>2. /\ HostFields \subseteq DOMAIN host /\ host.main = CleanHost.main
        /\ host.table = [f \in Families |-> i] /\ host.full = Families /\ host.bypass = {}
    BY <1>1, <2>1 DEF Legacy, CleanHost, HostFields
  <2>3. disk.receipt.mode = "all-except" /\ disk.receipt.iface = i BY <2>1 DEF Legacy, NoReceipt
  <2> QED BY <1>1, <1>2, <1>3, <2>1, <2>2, <2>3 DEF IInv, Honest, State, Fields, Init, Accounts, Bare, Managed, Owned
<1> QED BY <1>4, <1>5 DEF Init

\* A process that dies leaves files that are honest.
LEMMA StopsHonest ==
  ASSUME IInv, Dead, MemFields \subseteq DOMAIN Fresh,
         HostFields \subseteq DOMAIN host', DiskFields \subseteq DOMAIN disk', Honest(State)'
  PROVE  IInv'
<1>1. mem' = Fresh /\ running' = FALSE /\ job' = Idle BY DEF Dead
<1> QED BY <1>1 DEF IInv, Fields, State

\* A stopped daemon runs no handler.
LEMMA StepsAreBusy == Steps => job.pc # "idle"
<1>2. ApplyDns => job.pc # "idle" BY DEF ApplyDns
<1>3. UndoRoutes => job.pc # "idle" BY DEF UndoRoutes
<1>7. FetchPolicy => job.pc # "idle" BY DEF FetchPolicy
<1>15. RestoreDns => job.pc # "idle" BY DEF RestoreDns
<1> QED
  BY <1>2, <1>3, <1>7, <1>15 DEF Steps, ApplyRoutes, UndoDns, SaveApplied, KeepReapply, FetchFails, RecordPolicy,
    OnlyDns, FallbackRoutes, FallbackDns, FallbackSave, RestoreRouting, RestoreController, DisconnectDns,
    DisconnectRoutes, DisconnectSave, BackendDown

\* Every step keeps the invariant: handlers land, crashes leave an intent or an
\* honest receipt, a link that goes takes only objects away.
LEMMA NextKeeps == IInv /\ [Next]_controllerVars => IInv'
<1> SUFFICES ASSUME IInv, [Next]_controllerVars PROVE IInv' OBVIOUS
<1>0. MemFields \subseteq DOMAIN Fresh /\ HostFields \subseteq DOMAIN CleanHost
  BY DEF MemFields, HostFields, Fresh, CleanHost
<1>f. /\ HostFields \subseteq DOMAIN host /\ MemFields \subseteq DOMAIN mem
      /\ DiskFields \subseteq DOMAIN disk
      /\ State.host = host /\ State.mem = mem /\ State.disk = disk BY DEF IInv, Fields, State
<1>1. ASSUME NEW p \in Profiles, Connect(p) PROVE IInv'
  <2> DEFINE g == [host EXCEPT !.up = {p.iface}]
             t == [State EXCEPT !.host = g]
  <2>1. /\ HostFields \subseteq DOMAIN g /\ g.main = host.main /\ g.table = host.table
        /\ g.full = host.full /\ g.bypass = host.bypass BY <1>f DEF HostFields
  <2>2. Becomes(t) /\ running /\ running' = running BY <1>1 DEF Connect, Becomes, State
  <2> HIDE DEF g
  <2>3. Fields(t) /\ t.mem = mem /\ t.disk = disk /\ t.host = g BY <1>f, <2>1 DEF IInv, Fields
  <2> HIDE DEF t
  <2>5. Good(t) BY <2>1, <2>2, <2>3, <1>f DEF IInv, Good, Honest, Sound, Accounts, Managed, Owned
  <2> QED BY <2>2, <2>5, LandsIsEnough DEF Lands
<1>2. CASE UNCHANGED <<host, mem, disk, faults, ctl, cdisk, running>> /\ (running \/ job' = job)
  BY <1>2 DEF State, IInv, Good, Honest, Sound, Fields, Distrusted, Accounts, Agree, Managed, Owned
<1>3. CASE Steps BY <1>3, StepsAreBusy, StepsLand, LandsIsEnough DEF IInv, Idle
<1>4. CASE LinkLost
  <2>1. PICK i \in host.up : host' = LinkGone(host, i) BY <1>4 DEF LinkLost
  <2> DEFINE t == [State EXCEPT !.host = LinkGone(@, i)]
  <2>2. /\ Fields(t) /\ t.mem = mem /\ t.disk = disk /\ t.host = LinkGone(host, i)
        /\ (Honest(State) => Honest(t)) /\ (Good(State) => Good(t)) BY <1>f, LinkGoneKeeps DEF IInv
  <2> HIDE DEF t
  <2>4. Fields(State') /\ Honest(State') /\ (Good(t) => Good(State'))
    BY <1>4, <2>1, <2>2 DEF IInv, Fields, Honest, Good, Sound, State, LinkLost
  <2>5. running' = running /\ job' = job BY <1>4 DEF LinkLost
  <2> QED BY <2>2, <2>4, <2>5 DEF IInv, Good, Honest, Sound, Fields, Distrusted, Accounts, Agree, Managed, Owned
<1>5. CASE Crash BY <1>5, <1>0, <1>f, StopsHonest DEF Crash, IInv, Honest, State, Distrusted, Accounts, Managed, Owned
<1>6. CASE CrashInTransaction
  <2>1. Dead /\ Good(State) BY <1>6 DEF CrashInTransaction, Dead, IInv
  <2>2. PICK o \in BeginMutation(State) :
        \E r \in CASE job.pc = "routes" -> Target(State)
                   [] job.pc = "fb_routes" -> Apply(State, job.p.iface, job.p.forward)
                   [] job.pc = "rs_routes" -> Reinstate(State, job.base)
                   [] job.pc = "dc_routes" -> Clear(State) :
          /\ o.ok /\ host' = r.s.host
          /\ \E rec \in {disk.receipt, r.s.disk.receipt} :
               disk' = [receipt |-> rec, intent |-> o.s.disk.intent, marker |-> r.s.disk.marker]
    BY <1>6 DEF CrashInTransaction
  <2>3. PICK r \in Target(State) \cup Apply(State, job.p.iface, job.p.forward)
                   \cup Reinstate(State, job.base) \cup Clear(State) :
          /\ o.ok /\ host' = r.s.host
          /\ \E rec \in {disk.receipt, r.s.disk.receipt} :
               disk' = [receipt |-> rec, intent |-> o.s.disk.intent, marker |-> r.s.disk.marker]
    BY <1>6, <2>2 DEF CrashInTransaction
  <2>5. o.s.disk.intent = TRUE BY <2>1, <2>3, BeginKeeps DEF Good, Held
  <2> QED
    BY <1>0, <2>1, <2>3, <2>5, TargetDoes, ApplyDoes, ReinstateDoes, ClearDoes, StopsHonest DEF Honest, State,
      Distrusted, Good, Fields, DiskFields
<1>7. CASE Restart
  <2>1. PICK s \in LoadState(State) : \E t \in CtlLoad(s) : \E up \in BOOLEAN :
          Becomes([t EXCEPT !.mem = IF up THEN @ ELSE Fresh]) /\ running' = up BY <1>7 DEF Restart
  <2>2. PICK t \in CtlLoad(s), up \in BOOLEAN :
          Becomes([t EXCEPT !.mem = IF up THEN @ ELSE Fresh]) /\ running' = up BY <2>1
  <2>3. Good(t) BY LoadStateDoes, CtlLoadDoes DEF IInv
  <2>4. CASE up BY <2>2, <2>3, <2>4, StateIs DEF Becomes, Good, Fields, IInv
  <2>5. CASE ~up
    <3>1. host' = t.host /\ disk' = t.disk /\ mem' = Fresh /\ running' = FALSE
      BY <2>2, <2>3, <2>5 DEF Becomes, Good, Fields
    <3>4. Honest(State)' BY <2>3, <3>1 DEF Good, Honest, State, Distrusted, Accounts, Managed, Owned
    <3> QED BY <1>0, <1>7, <2>3, <3>1, <3>4 DEF IInv, Restart, Fields, State, Good
  <2> QED BY <2>4, <2>5
<1>8. CASE Reboot
  BY <1>8, CleanIsBare, <1>0, <1>f DEF Reboot, IInv, Bare, Accounts, Fields, State, Honest, Managed, Owned
<1>9. CASE Recover
  <2> DEFINE d == [receipt |-> NoReceipt, intent |-> FALSE, marker |-> FALSE]
             t == [host |-> CleanHost, mem |-> Fresh, disk |-> d, faults |-> faults,
                   ctl |-> Blank, cdisk |-> cdisk]
  <2>1. Becomes(t) /\ running' BY <1>9 DEF Recover, Becomes
  <2>2. Fields(t) BY <1>0 DEF Fields, DiskFields
  <2>3. Sound(t) BY CleanIsBare DEF Sound, Accounts, Bare, Fresh, Agree, NoReceipt
  <2> HIDE DEF t
  <2> QED BY <2>1, <2>2, <2>3, SoundIsGood, StateIs DEF IInv, Good
<1>10. CASE \E p \in Profiles : ConnectRefused(p) BY <1>2, <1>10 DEF ConnectRefused
<1>11. CASE Refresh BY <1>2, <1>11 DEF Refresh, Connected
<1>12. CASE Disconnect BY <1>2, <1>12 DEF Disconnect
<1>13. CASE UNCHANGED controllerVars BY <1>2, <1>13 DEF controllerVars
<1> QED BY <1>1, <1>3, <1>4, <1>5, <1>6, <1>7, <1>8, <1>9, <1>10, <1>11, <1>12, <1>13 DEF Next

\* A receipt that the next start would believe accounts for every managed route,
\* table entry and rule in the kernel, whatever command, probe or save failed and
\* wherever the process died: beginMutation(), finishTransaction() and
\* markRecoveryRequired() of linuxRouteReconciler.cpp under the calls that
\* headlessRoutingController.cpp makes.
THEOREM ReceiptsAccount == Spec => []ReceiptAccountsForKernel
<1>1. IInv => ReceiptAccountsForKernel BY AccountsCovers DEF IInv, Honest, State, ReceiptAccountsForKernel
<1> QED BY <1>1, InitHolds, NextKeeps, PTL DEF Spec

\* The invariant of the abstract RouteTransaction, under the mapping of the
\* refinement: as long as the running reconciler works (m_stateValid), the kernel
\* holds no managed object that its fields do not account for, so that clear() and
\* the undo paths of linuxRouteReconciler.cpp can find every object they must remove.
THEOREM WorkingObjectAccounts == Spec => []Atomic!Accounted
<1>1. IInv => Atomic!Accounted BY AccountsCovers DEF IInv, Good, Sound, State, Atomic!Accounted
<1> QED BY <1>1, InitHolds, NextKeeps, PTL DEF Spec
=============================================================================
