------------------------- MODULE RollbackCoordinator -------------------------
(***************************************************************************)
(* The coordinated rollback of a headless server to the release before the *)
(* installed one.  The command line prepares a retained copy of itself and *)
(* a durable record; the daemon admits the rollback by pausing automatic   *)
(* updates in the profile store and lets the updater swap the binaries; a  *)
(* systemd worker then observes the old daemon, stops exactly that         *)
(* process, acknowledges the rollback to the updater and starts the daemon *)
(* again.  Resuming restores the profile store byte for byte.              *)
(*                                                                         *)
(* Every operation holds the operation lock from its start to its end, so  *)
(* one runs at a time (`op`); each of its steps ends in one durable write. *)
(* A write cut off by a crash may leave its temporary file (`stray`), which*)
(* refuses every later operation.                                          *)
(***************************************************************************)
EXTENDS Naturals, FiniteSets

CONSTANTS Profiles,    \* profile identifiers
          AutoAtStart, \* those that update automatically at the start
          MaxPids,     \* bound: daemon processes started
          MaxCrashes   \* bound: power failures

ASSUME CoordAssumption == AutoAtStart \subseteq Profiles /\ {MaxPids, MaxCrashes} \subseteq Nat

VARIABLES rec,    \* coordinator.json
          store,  \* profiles.json: the profiles and which update automatically
          upd,    \* the updater: installed pair, its state, its journal
          svc,    \* amneziad.service: the running process and what it loaded
          op,     \* the coordinator operation in progress
          host    \* worker due, request in progress, stray file, counters

coordVars == <<rec, store, upd, svc, op, host>>

Original == 14
Target == 13
Newer == 15

NoRec == [phase |-> "none", orig |-> {}, paused |-> {}, pair |-> 0, seen |-> 0,
          ack |-> "none", gone |-> 0]
NoOp == [kind |-> "none", at |-> "none", by |-> "none", pid |-> 0]
Stopped == [pid |-> 0, version |-> 0, cached |-> {}, state |-> "none"]

\* the profile store as the set of its profiles, each with its autoUpdate flag
Entry(id, auto) == [id |-> id, auto |-> auto]
AutoOf(s) == {e.id : e \in {x \in s : x.auto}}

\* pauseJson: every true autoUpdate becomes false, nothing else changes
PauseJson(s) == {Entry(e.id, FALSE) : e \in s}

\* the daemon's start: ProfileStore::load and the updater's state
Started(pid) == [pid |-> pid, version |-> upd.pair, cached |-> store, state |-> upd.state]

CoordInit ==
    /\ rec = NoRec
    /\ store = {Entry(id, TRUE) : id \in AutoAtStart}
    /\ upd = [pair |-> Original, state |-> "idle", journal |-> FALSE]
    /\ svc = [pid |-> 1, version |-> Original,
              cached |-> {Entry(id, TRUE) : id \in AutoAtStart}, state |-> "idle"]
    /\ op = NoOp
    /\ host = [worker |-> FALSE, unit |-> FALSE, restart |-> FALSE, rpc |-> "none",
               stray |-> FALSE, pids |-> 1, crashes |-> 0]

-----------------------------------------------------------------------------
(* Evidence.                                                               *)

\* ensureRoot and the operation lock: no operation starts over a stray file
MayOperate == op = NoOp /\ ~host.stray

\* pausedPolicy
PausedPolicy == store = rec.paused

\* targetPair
TargetPair == upd.pair = Target

\* pendingEvidence
PendingEvidence == upd.state = "rollback_restart_pending" /\ upd.journal /\ TargetPair

\* observe: the running process is the installed pair
Observable == svc.pid # 0 /\ svc.version = upd.pair

\* healthy: the observed process is the target and reports the expected state
Healthy(final) ==
    /\ Observable /\ svc.version = Target
    /\ svc.state = IF final THEN "disabled" ELSE "rollback_restart_pending"

-----------------------------------------------------------------------------
(* The durable effect of each step of an operation, as the record and the  *)
(* profile store it leaves.                                                *)

Effect(r, s) == [rec |-> r, store |-> s]

\* admitRollback writes its intent, swaps the profiles, writes the outcome
AdmitEffect(at) ==
    CASE at = "intent" -> Effect([rec EXCEPT !.phase = "pause_prepared", !.orig = store,
                                             !.paused = PauseJson(store)], store)
      [] at = "swap" -> Effect(rec, rec.paused)
      [] at = "paused" -> Effect([rec EXCEPT !.phase = "profiles_paused"], store)

\* run writes a phase after each thing it has proved
RunEffect(at, pid) ==
    CASE at = "observed" -> Effect([rec EXCEPT !.phase = "old13_observed", !.seen = pid], store)
      [] at = "stopped" -> Effect([rec EXCEPT !.phase = "old13_stopped"], store)
      [] at = "pending" -> Effect([rec EXCEPT !.phase = "coordinator_commit_pending"], store)
      [] at = "acked" -> Effect([rec EXCEPT !.phase = "coordinator_commit_pending",
                                            !.ack = "returned"], store)
      [] at = "recovered" -> Effect([rec EXCEPT !.phase = "coordinator_commit_pending",
                                                !.ack = "recovered"], store)
      [] at = "held" -> Effect([rec EXCEPT !.phase = "held"], store)

\* resume
ResumeEffect(at, pid) ==
    CASE at = "ask" -> Effect([rec EXCEPT !.phase = "resume_requested", !.gone = pid], store)
      [] at = "restore" -> Effect(rec, rec.orig)
      [] at = "resumed" -> Effect([rec EXCEPT !.phase = "resumed"], store)

\* prepare writes the record last
PrepareEffect(at) == Effect([NoRec EXCEPT !.phase = "prepared", !.pair = upd.pair], store)

\* rollbackRequested
RequestEffect(at) == Effect([rec EXCEPT !.phase = "rollback_requested"], store)

WriteSteps == {"intent", "swap", "paused", "observed", "stopped", "pending", "acked",
               "recovered", "held", "ask", "restore", "resumed", "record", "request"}

EffectOf(o) ==
    CASE o.kind = "admit" -> AdmitEffect(o.at)
      [] o.kind = "run" -> RunEffect(o.at, o.pid)
      [] o.kind = "resume" -> ResumeEffect(o.at, o.pid)
      [] o.kind = "prepare" -> PrepareEffect(o.at)
      [] o.kind = "request" -> RequestEffect(o.at)

\* replace: the write of the current step, then the next step
Write(next) ==
    /\ op.at \in WriteSteps
    /\ rec' = EffectOf(op).rec
    /\ store' = EffectOf(op).store
    /\ op' = next

Begin(kind, at, by, pid) == op' = [kind |-> kind, at |-> at, by |-> by, pid |-> pid]
At(at) == [op EXCEPT !.at = at]

-----------------------------------------------------------------------------
(* prepare and admitRollback.                                              *)

\* prepare by the command line: the service runs the installed pair; a record
\* that exists already is only reinstalled
Prepare ==
    /\ MayOperate
    /\ \/ rec = NoRec /\ Observable /\ upd.pair = Original
          /\ upd.state = "idle" /\ ~upd.journal
          /\ Begin("prepare", "record", "cli", 0) /\ UNCHANGED host
       \/ rec.phase \in {"prepared", "pause_prepared", "profiles_paused"}
          /\ host' = [host EXCEPT !.unit = TRUE] /\ UNCHANGED op
    /\ UNCHANGED <<rec, store, upd, svc>>

\* the record is written, the unit enabled
Prepared ==
    /\ op.kind = "prepare" /\ Write(NoOp)
    /\ host' = [host EXCEPT !.unit = TRUE]
    /\ UNCHANGED <<upd, svc>>

\* the first write admitRollback has to make in this phase
AdmitFrom(by) ==
    /\ rec.phase \in {"prepared", "pause_prepared"} /\ upd.pair = rec.pair
    /\ \/ rec.phase = "prepared" /\ Begin("admit", "intent", by, 0)
       \/ rec.phase = "pause_prepared" /\ store = rec.orig /\ store # rec.paused
          /\ Begin("admit", "swap", by, 0)
       \/ rec.phase = "pause_prepared" /\ store = rec.paused
          /\ Begin("admit", "paused", by, 0)

\* UpdateRollback: the daemon admits the rollback, or finds it admitted
UpdateRollback ==
    /\ svc.pid # 0 /\ host.rpc = "none" /\ MayOperate
    /\ \/ AdmitFrom("daemon") /\ host' = [host EXCEPT !.rpc = "admit"] /\ UNCHANGED svc
       \/ /\ rec.phase = "profiles_paused" /\ PausedPolicy
          /\ svc' = [svc EXCEPT !.cached = store]
          /\ host' = [host EXCEPT !.rpc = "rollback"] /\ UNCHANGED op
    /\ UNCHANGED <<rec, store, upd>>

AdmitIntent == op.kind = "admit" /\ op.at = "intent" /\ Write(At("swap"))
               /\ UNCHANGED <<upd, svc, host>>
AdmitSwap == op.kind = "admit" /\ op.at = "swap" /\ Write(At("paused"))
             /\ UNCHANGED <<upd, svc, host>>

\* the outcome is written; the daemon loads the paused profiles itself
AdmitPaused ==
    /\ op.kind = "admit" /\ op.at = "paused" /\ Write(NoOp)
    /\ UNCHANGED upd
    /\ IF op.by = "daemon"
       THEN /\ svc' = [svc EXCEPT !.cached = store]
            /\ host' = [host EXCEPT !.rpc = "rollback"]
       ELSE UNCHANGED <<svc, host>>

\* HeadlessUpdateManager::rollback inside the request: the pair is swapped, a
\* restart is scheduled; or it fails and the request ends
ManagerRollback ==
    /\ host.rpc = "rollback" /\ op = NoOp
    /\ rec.phase = "profiles_paused" /\ PausedPolicy
    /\ \/ /\ upd.state = "idle" /\ upd.pair = Original
          /\ upd' = [pair |-> Target, state |-> "rollback_restart_pending", journal |-> TRUE]
          /\ host' = [host EXCEPT !.rpc = "request", !.restart = TRUE]
       \/ UNCHANGED upd /\ host' = [host EXCEPT !.rpc = "none"]
    /\ UNCHANGED <<rec, store, svc, op>>

\* rollbackRequested, by the daemon or by the command line whose request it was
RollbackRequested ==
    /\ MayOperate /\ PausedPolicy /\ PendingEvidence
    /\ rec.phase \in {"profiles_paused", "rollback_requested"}
    /\ Begin("request", "request", "cli", 0)
    /\ host' = [host EXCEPT !.rpc = "none"]
    /\ UNCHANGED <<rec, store, upd, svc>>

Requested ==
    /\ op.kind = "request" /\ Write(NoOp)
    /\ host' = [host EXCEPT !.worker = TRUE]
    /\ UNCHANGED <<upd, svc>>

-----------------------------------------------------------------------------
(* run, the worker.                                                        *)

\* where run takes the operation up; an interrupted commit is recognised by the
\* updater's state
RunFrom ==
    \/ /\ PendingEvidence /\ rec.seen # 0 /\ svc.pid = 0
       /\ Begin("run", "stopped", "worker", rec.seen)
    \/ /\ PendingEvidence /\ ~(rec.seen # 0 /\ svc.pid = 0)
       /\ Begin("run", "observe", "worker", 0)
    \/ /\ upd.state = "disabled"
       /\ rec.phase \in {"coordinator_commit_pending", "old13_stopped"}
       /\ Begin("run", IF rec.ack = "none" THEN "recovered" ELSE "start", "worker", rec.seen)

\* where resume begins: a running service is observed and will be stopped, a
\* stopped one must be the one an earlier resume stopped
ResumeFrom(by) ==
    /\ rec.phase \in {"held", "profiles_paused", "resume_requested"}
    /\ upd.state # "rollback_restart_pending" /\ ~upd.journal
    /\ upd.pair \in {rec.pair, Target}
    /\ store \in {rec.orig, rec.paused}
    /\ \/ /\ Observable /\ (upd.pair # rec.pair => Healthy(TRUE))
          /\ Begin("resume", "ask", by, svc.pid)
       \/ /\ svc.pid = 0 /\ rec.phase = "resume_requested" /\ rec.gone # 0
          /\ Begin("resume", IF store = rec.orig THEN "rstart" ELSE "restore", by, rec.gone)

\* the worker starts: nothing to do, or an unfinished operation to take up
WorkerStarts ==
    /\ host.worker /\ host' = [host EXCEPT !.worker = FALSE]
    /\ MayOperate
    /\ CASE rec.phase = "pause_prepared" -> AdmitFrom("worker") \/ UNCHANGED op
         [] rec.phase = "resume_requested" -> ResumeFrom("worker") \/ UNCHANGED op
         [] rec.phase \in {"rollback_requested", "old13_observed", "old13_stopped",
                           "coordinator_commit_pending", "profiles_paused"}
            /\ PausedPolicy /\ TargetPair -> RunFrom \/ UNCHANGED op
         [] OTHER -> UNCHANGED op
    /\ UNCHANGED <<rec, store, upd, svc>>

\* the worker's start service, when the pending daemon does not run
WorkerStartsService ==
    /\ op.kind = "run" /\ op.at = "observe" /\ svc.pid = 0 /\ host.pids < MaxPids
    /\ svc' = Started(host.pids + 1)
    /\ host' = [host EXCEPT !.pids = @ + 1, !.restart = FALSE]
    /\ UNCHANGED <<rec, store, upd, op>>

\* the observation loop finds the target daemon healthy
Observe ==
    /\ op.kind = "run" /\ op.at = "observe"
    /\ PausedPolicy /\ PendingEvidence /\ Healthy(FALSE)
    /\ op' = [op EXCEPT !.at = "observed", !.pid = svc.pid]
    /\ UNCHANGED <<rec, store, upd, svc, host>>

\* a requirement of the next step does not hold, its deadline passes or a write
\* fails: the operation ends with what it has written so far, and a failed write
\* leaves its temporary file
StepFails ==
    /\ op # NoOp /\ op' = NoOp
    /\ \E stray \in BOOLEAN :
        /\ stray => op.at \in WriteSteps
        /\ host' = [host EXCEPT !.stray = @ \/ stray,
                                !.rpc = IF op.by = "daemon" THEN "none" ELSE @]
    /\ UNCHANGED <<rec, store, upd, svc>>

RunObserved == op.kind = "run" /\ op.at = "observed" /\ Write(At("stop"))
               /\ UNCHANGED <<upd, svc, host>>

\* stopObserved: exactly the observed process, with the request it works on, or
\* the operation ends
StopExactly(next) ==
    IF svc.pid = op.pid /\ Observable
    THEN svc' = Stopped /\ host' = [host EXCEPT !.rpc = "none"] /\ op' = At(next)
    ELSE op' = NoOp /\ UNCHANGED <<svc, host>>

StopObserved ==
    /\ op.kind = "run" /\ op.at = "stop" /\ StopExactly("stopped")
    /\ UNCHANGED <<rec, store, upd>>

RunStopped == op.kind = "run" /\ op.at = "stopped" /\ svc.pid = 0 /\ Write(At("pending"))
              /\ UNCHANGED <<upd, svc, host>>
RunPending == op.kind = "run" /\ op.at = "pending" /\ TargetPair /\ PausedPolicy
              /\ Write(At("ack")) /\ UNCHANGED <<upd, svc, host>>

\* acknowledgeStoppedRollback
Acknowledge ==
    /\ op.kind = "run" /\ op.at = "ack"
    /\ \/ /\ upd.state = "rollback_restart_pending"
          /\ upd' = [upd EXCEPT !.state = "disabled", !.journal = FALSE]
          /\ op' = At("acked")
       \/ op' = NoOp /\ UNCHANGED upd
    /\ UNCHANGED <<rec, store, svc, host>>

RunAcked == op.kind = "run" /\ op.at \in {"acked", "recovered"} /\ Write(At("start"))
            /\ UNCHANGED <<upd, svc, host>>

\* a restart that keeps the daemon that ran before the commit
StartFinalLoose ==
    /\ op.kind = "run" /\ op.at = "start"
    /\ IF svc.pid = 0 THEN /\ host.pids < MaxPids /\ svc' = Started(host.pids + 1)
                           /\ host' = [host EXCEPT !.pids = @ + 1]
       ELSE UNCHANGED <<svc, host>>
    /\ op' = At("held")
    /\ UNCHANGED <<rec, store, upd>>

\* the acknowledged service starts (a running one is left alone) and must be a
\* healthy target that is not the process observed before
StartFinal ==
    /\ op.kind = "run" /\ op.at = "start" /\ upd.state = "disabled" /\ ~upd.journal
    /\ IF svc.pid = 0 THEN /\ host.pids < MaxPids /\ svc' = Started(host.pids + 1)
                           /\ host' = [host EXCEPT !.pids = @ + 1]
       ELSE UNCHANGED <<svc, host>>
    /\ op' = At("final")
    /\ UNCHANGED <<rec, store, upd>>

FinalObserved ==
    /\ op.kind = "run" /\ op.at = "final"
    /\ op' = IF Healthy(TRUE) /\ svc.pid # rec.seen /\ PausedPolicy THEN At("held") ELSE NoOp
    /\ UNCHANGED <<rec, store, upd, svc, host>>

RunHeld == op.kind = "run" /\ op.at = "held" /\ Write(NoOp) /\ UNCHANGED <<upd, svc, host>>

-----------------------------------------------------------------------------
(* resume.                                                                 *)

Resume ==
    /\ MayOperate /\ ResumeFrom("admin")
    /\ UNCHANGED <<rec, store, upd, svc, host>>

\* resume of a completed one: the unit is retired
ResumeAgain ==
    /\ MayOperate /\ rec.phase = "resumed" /\ store = rec.orig
    /\ host.unit /\ host' = [host EXCEPT !.unit = FALSE]
    /\ UNCHANGED <<rec, store, upd, svc, op>>

ResumeAsk == op.kind = "resume" /\ op.at = "ask" /\ Write(At("rstop"))
             /\ UNCHANGED <<upd, svc, host>>

ResumeStop ==
    /\ op.kind = "resume" /\ op.at = "rstop" /\ StopExactly("restore")
    /\ UNCHANGED <<rec, store, upd>>

ResumeRestore == op.kind = "resume" /\ op.at = "restore" /\ svc.pid = 0 /\ Write(At("rstart"))
                 /\ UNCHANGED <<upd, svc, host>>

\* the service starts on the restored profiles and must be healthy
ResumeStart ==
    /\ op.kind = "resume" /\ op.at = "rstart"
    /\ IF svc.pid = 0 THEN /\ host.pids < MaxPids /\ svc' = Started(host.pids + 1)
                           /\ host' = [host EXCEPT !.pids = @ + 1]
       ELSE UNCHANGED <<svc, host>>
    /\ op' = At("resumed")
    /\ UNCHANGED <<rec, store, upd>>

Resumed ==
    /\ op.kind = "resume" /\ op.at = "resumed"
    /\ IF Observable /\ store = rec.orig
       THEN Write(NoOp) /\ host' = [host EXCEPT !.unit = FALSE]
       ELSE op' = NoOp /\ UNCHANGED <<rec, store, host>>
    /\ UNCHANGED <<upd, svc>>

-----------------------------------------------------------------------------
(* The daemon, systemd and power.                                          *)

\* importProfileResponse, ProfileStore::add: the daemon saves the profiles it
\* has loaded with the new one, unless the coordinator holds the writer's lock
Import(id, auto) ==
    /\ svc.pid # 0 /\ host.rpc = "none"
    /\ op.kind \notin {"admit", "resume"}
    /\ id \notin {e.id : e \in svc.cached}
    /\ svc' = [svc EXCEPT !.cached = @ \cup {Entry(id, auto)}]
    /\ store' = svc.cached \cup {Entry(id, auto)}
    /\ UNCHANGED <<rec, upd, op, host>>

\* the daemon's own update check, for a profile it believes updates itself
AutoUpdate ==
    /\ svc.pid # 0 /\ host.rpc = "none" /\ ~upd.journal /\ svc.version = upd.pair
    /\ AutoOf(svc.cached) # {} /\ upd.pair < Newer /\ upd.state \in {"idle", "disabled"}
    /\ upd' = [upd EXCEPT !.pair = Newer, !.state = "idle"]
    /\ host' = [host EXCEPT !.restart = TRUE]
    /\ UNCHANGED <<rec, store, svc, op>>

\* an operation run by the daemon dies with it
Survives(o) == IF o.by = "daemon" THEN NoOp ELSE o

\* the scheduled restart, or systemd's restart of a daemon that died
DaemonRestarts ==
    /\ svc.pid # 0 /\ host.pids < MaxPids
    /\ svc' = Started(host.pids + 1)
    /\ host' = [host EXCEPT !.pids = @ + 1, !.restart = FALSE, !.rpc = "none"]
    /\ op' = Survives(op)
    /\ UNCHANGED <<rec, store, upd>>

\* the administrator stops the service, or starts one that does not run
ServiceStopped ==
    /\ svc.pid # 0 /\ op' = Survives(op)
    /\ svc' = Stopped /\ host' = [host EXCEPT !.rpc = "none", !.restart = FALSE]
    /\ UNCHANGED <<rec, store, upd>>
ServiceStarted ==
    /\ svc.pid = 0 /\ host.pids < MaxPids
    /\ svc' = Started(host.pids + 1)
    /\ host' = [host EXCEPT !.pids = @ + 1]
    /\ UNCHANGED <<rec, store, upd, op>>

\* power fails; a write under way may have happened and may leave its
\* temporary file.  The machine boots, the daemon first, then the worker
PowerFails ==
    /\ host.crashes < MaxCrashes /\ host.pids < MaxPids
    /\ \E written \in BOOLEAN, stray \in BOOLEAN :
        /\ op.at \notin WriteSteps => ~written /\ ~stray
        /\ rec' = IF written THEN EffectOf(op).rec ELSE rec
        /\ store' = IF written THEN EffectOf(op).store ELSE store
        /\ host' = [host EXCEPT !.stray = @ \/ stray, !.worker = host.unit,
                                !.restart = FALSE, !.rpc = "none", !.pids = @ + 1,
                                !.crashes = @ + 1]
        /\ svc' = [pid |-> host.pids + 1, version |-> upd.pair,
                   cached |-> IF written THEN EffectOf(op).store ELSE store,
                   state |-> upd.state]
    /\ op' = NoOp
    /\ UNCHANGED upd

CoordStep ==
    \/ Prepare \/ Prepared \/ UpdateRollback \/ AdmitIntent \/ AdmitSwap \/ AdmitPaused
    \/ ManagerRollback \/ RollbackRequested \/ Requested
    \/ WorkerStarts \/ WorkerStartsService \/ Observe \/ StepFails \/ RunObserved
    \/ StopObserved \/ RunStopped \/ RunPending \/ Acknowledge \/ RunAcked \/ StartFinal
    \/ FinalObserved \/ RunHeld
    \/ Resume \/ ResumeAgain \/ ResumeAsk \/ ResumeStop \/ ResumeRestore \/ ResumeStart
    \/ Resumed
    \/ \E id \in Profiles, auto \in BOOLEAN : Import(id, auto)
    \/ AutoUpdate \/ DaemonRestarts \/ ServiceStopped \/ ServiceStarted \/ PowerFails

CoordSpec == CoordInit /\ [][CoordStep]_coordVars

-----------------------------------------------------------------------------
(* Properties.                                                             *)

\* A daemon that runs the release rolled back to never updates itself by a
\* profile of before the rollback: from the swap of the binaries until the
\* coordinator resumes, those profiles are paused in what the daemon has
\* loaded, not only in the file, whatever crashed in between.
QuietAfterRollback ==
    (svc.pid # 0 /\ svc.version = Target
       /\ rec.phase \notin {"resume_requested", "resumed"})
        => AutoOf(svc.cached) \cap AutoOf(rec.orig) = {}

\* `held` is only ever written over a finished rollback: the updater is
\* acknowledged and has no journal, the target pair is installed, the process
\* whose health was the evidence is gone, and the daemon that replaced it (or
\* none) has loaded the acknowledged state.
HeldIsCommitted ==
    (rec.phase = "held" /\ upd.pair = Target) =>
        /\ upd.state = "disabled" /\ ~upd.journal /\ rec.ack # "none"
        /\ svc.pid # rec.seen
        /\ svc.pid # 0 => svc.state = "disabled"

\* A rollback the coordinator reports as held stays quiet until it is resumed.
RollbackIsHeld == QuietAfterRollback /\ HeldIsCommitted
=============================================================================
