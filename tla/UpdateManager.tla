----------------------------- MODULE UpdateManager -----------------------------
(***************************************************************************)
(* The headless daemon's self-updater, headless/headlessUpdateManager.cpp: *)
(* one update or rollback transaction over the managed pair of binaries,   *)
(* its durable journal, state receipt, sidecar receipt and garbage marker, *)
(* with a process crash possible between any two durable writes.           *)
(*                                                                         *)
(* Abstractions.  The bytes of a file are the version they were built from *)
(* and a SHA-256 receipt of a pair is the pair itself, so a verification   *)
(* is an equality.  A UUID-named directory is an element of DirIds that    *)
(* nothing on disk or in memory names yet.  Every durable write ends       *)
(*   "ok"        written and synced,                                       *)
(*   "lost"      not written, the code sees an error, or                   *)
(*   "unsynced"  written, but the final fsync failed and the code sees an  *)
(*               error.                                                    *)
(* A crash is the end of the process (kill, watchdog, systemd restart):    *)
(* what was written stays.  Paths, ownership, JSON shape, the retired      *)
(* three-file contract and version-1 receipts are not represented.         *)
(***************************************************************************)
EXTENDS Naturals, FiniteSets

CONSTANTS
    Files,           \* indices into managedPayloadFiles()
    DaemonFile,      \* the index of amneziad, the image systemd starts
    Versions,        \* released versions
    InitialVersion,  \* the provisioned version
    DirIds,          \* names of the directories under the update root
    NoDir,           \* the empty path
    MaxFaults,       \* bound: failed durable operations in a behaviour
    MaxCrashes       \* bound: crashes in a behaviour

ASSUME FilesAssumption == IsFiniteSet(Files) /\ Files \subseteq Nat /\ DaemonFile \in Files
ASSUME VersionsAssumption == Versions \subseteq Nat \ {0} /\ InitialVersion \in Versions
ASSUME DirAssumption == NoDir \notin DirIds
ASSUME BoundsAssumption == MaxFaults \in Nat /\ MaxCrashes \in Nat

VARIABLES
    \* on disk
    stateFile,      \* headless-updates.json; state "absent" when missing
    journal,        \* transaction.json; phase "none" when missing
    receipt,        \* rollback-receipt.json, the sidecar; dir NoDir when missing
    marker,         \* directories named in the garbage marker
    markedReceipt,  \* the garbage marker also names the sidecar
    dirs,           \* the directories under the update root
    installed,      \* the installed managed pair
    \* in the memory of the process that owns the update lock
    lastState, lastApplied, rb, curDir, valid,
    \* control
    pc,             \* the durable step the running operation does next
    op,             \* the entry point in progress
    caller,         \* whose process runs: the daemon or the coordinator
    running,        \* the version that process reports
    timer,          \* m_updateTimer: the daemon checks periodically
    draft,          \* the journal object being built
    todo, done,     \* files left to replace, files already replaced
    code,           \* the code given to failure(), or a failed undo
    restartDue,     \* systemd-run has been asked to restart the service
    \* bounds
    faults, crashes

disk == <<stateFile, journal, receipt, marker, markedReceipt, dirs, installed>>
mem == <<lastState, lastApplied, rb, curDir, valid>>
locals == <<op, draft, todo, done, code>>
process == <<caller, running, timer>>
bounds == <<faults, crashes>>
vars == <<disk, mem, locals, pc, process, restartDue, bounds>>

--------------------------------------------------------------------------------
(* Values *)

NoVersion == 0
Blank == [f \in Files |-> NoVersion]
Pairs == [Files -> Versions] \cup {Blank}
Uniform(v) == [f \in Files |-> v]

\* A rollback identity: m_rollbackDirectory, m_rollbackVersion, m_rollbackHashes.
NoRb == [dir |-> NoDir, ver |-> NoVersion, hash |-> Blank]

Gone == [kind |-> "none", pair |-> Blank]
DirKinds == {"transaction", "rollback", "rollback-current", "recovery-receipt"}

NoJournal == [op |-> "none", phase |-> "none", cand |-> NoVersion, cur |-> NoVersion,
              tx |-> NoDir, rbDir |-> NoDir, rbHash |-> Blank, candHash |-> Blank,
              prevDir |-> NoDir, prevHash |-> Blank]

\* stableUpdateState(): "applied" and "unsupported_payload_contract" only come
\* from receipts this model leaves out.
Stable == {"never_checked", "disabled", "no_update", "no_headless_artifact",
           "update_available", "updated", "rolled_back", "no_rollback"}

Pending == {"restart_pending", "rollback_restart_pending"}

\* checkableUpdateState()
Checkable == Stable \cup Pending

\* The states loadState() accepts.
ValidStates == Checkable \cup {"rollback_failed", "recovery_required"}

Acked == {"acknowledged", "rollback_acknowledged"}

Exists(d) == d \in DirIds /\ dirs[d].kind # "none"

\* verifyRollbackFile() over the managed files: the directory holds exactly the
\* pair its receipt describes.
Verified(d, hash) == Exists(d) /\ hash # Blank /\ dirs[d].pair = hash

Outcomes == {"ok", "lost", "unsynced"}

\* A step in which n durable operations fail.
Charge(n) ==
    /\ faults + n <= MaxFaults
    /\ faults' = faults + n
    /\ crashes' = crashes

Spend(o) == Charge(IF o = "ok" THEN 0 ELSE 1)

\* What saveState() writes for the given memory.
Receipt(state, applied, r) == [state |-> state, applied |-> applied, rb |-> r]

SaveState(o, state, applied, r) ==
    /\ Spend(o)
    /\ stateFile' = IF o = "lost" THEN stateFile ELSE Receipt(state, applied, r)

WriteJournal(o, j) ==
    /\ Spend(o)
    /\ journal' = IF o = "lost" THEN journal ELSE j

\* Return failure(c, ...): the handler's last durable step is FailureSaves.
Fail(c) == pc' = "failing" /\ code' = c

Goto(label) == pc' = label /\ UNCHANGED code

\* A new UUID directory: nothing on disk and nothing in memory names it.
Fresh(d) ==
    /\ dirs[d].kind = "none"
    /\ d \notin marker
    /\ d \notin {stateFile.rb.dir, receipt.dir, rb.dir, curDir}
    /\ \A j \in {journal, draft} : d \notin {j.tx, j.rbDir, j.prevDir}

\* Bound: an operation starts only when DirIds still has n names for it; the
\* code has as many UUIDs as it likes.
Room(n) == Cardinality({d \in DirIds : Fresh(d)}) >= n

MakeDir(d, kind, pair) == [dirs EXCEPT ![d] = [kind |-> kind, pair |-> pair]]

\* managedPayloadFiles() is walked in its fixed order.
First(f, s) == \A g \in s : f <= g

--------------------------------------------------------------------------------
(* Loading: loadState() *)

\* The checks on the state receipt alone.
StateReceiptOk ==
    /\ stateFile.rb.dir = NoDir => stateFile.rb = NoRb
    /\ stateFile.rb.dir # NoDir => Verified(stateFile.rb.dir, stateFile.rb.hash)
                                   /\ stateFile.rb.ver # NoVersion
    /\ stateFile.state \in {"updated", "rolled_back"} => stateFile.applied # NoVersion

\* During an update transaction the journal, not the state, names the rollback.
UpdateJournalOwnsRollback ==
    journal.op = "update" /\ journal.phase \in {"prepared", "replaced", "restart_pending"}

AdoptingJournalRollback == stateFile.rb.dir = NoDir \/ UpdateJournalOwnsRollback

JournalRb == [dir |-> journal.rbDir, ver |-> journal.cur, hash |-> journal.rbHash]

AdoptedRb == IF AdoptingJournalRollback THEN JournalRb ELSE stateFile.rb

AdoptedApplied == IF UpdateJournalOwnsRollback THEN journal.cand ELSE stateFile.applied

\* The journal's own identity, and what an acknowledged phase must agree with.
JournalIdentityOk ==
    /\ Exists(journal.tx)
    /\ Exists(journal.rbDir)
    /\ journal.phase \in {"rollback_restart_pending", "rollback_acknowledged"} =>
           journal.op = "rollback"
    /\ IF journal.op = "update" THEN journal.cand > journal.cur
                                ELSE journal.cand = journal.cur
    /\ journal.phase = "acknowledged" =>
           /\ stateFile.applied = journal.cand
           /\ stateFile.state \in {"updated", "disabled", "no_update",
                                   "no_headless_artifact", "rolled_back", "rollback_failed"}
           /\ installed = journal.candHash
    /\ journal.phase = "rollback_acknowledged" =>
           /\ stateFile.state = "rolled_back"
           /\ stateFile.applied = journal.cand
           /\ installed = journal.candHash

\* The journal against the adopted rollback identity and the directories.
JournalBindingOk ==
    /\ AdoptedRb = JournalRb
    /\ Verified(journal.rbDir, journal.rbHash)
    /\ AdoptingJournalRollback
       /\ journal.phase \notin {"rollback_restart_pending", "replaced", "prepared"} =>
           installed = journal.candHash
    /\ journal.phase = "rollback_restart_pending" =>
           Verified(journal.prevDir, journal.prevHash)

\* The state a consistent journal resumes in.
ResumedState ==
    IF journal.phase = "acknowledged"
       \/ (journal.phase = "rollback_acknowledged" /\ stateFile.state = "rolled_back")
    THEN stateFile.state
    ELSE IF journal.phase \in Pending /\ stateFile.state # "rollback_failed"
         THEN journal.phase
         ELSE "recovery_required"

\* The memory of a new manager after loadState().
Loaded ==
    LET refused(applied, r) == [state |-> "recovery_required", applied |-> applied,
                                rb |-> r, cur |-> NoDir, valid |-> FALSE]
        accepted(state, applied, r, cur) == [state |-> state, applied |-> applied,
                                             rb |-> r, cur |-> cur, valid |-> TRUE]
    IN IF stateFile.state = "absent"
       THEN IF journal.phase = "none" THEN accepted("never_checked", NoVersion, NoRb, NoDir)
                                      ELSE refused(NoVersion, NoRb)
       ELSE IF stateFile.state \notin ValidStates THEN refused(stateFile.applied, NoRb)
       ELSE IF ~StateReceiptOk THEN refused(stateFile.applied, stateFile.rb)
       ELSE IF journal.phase = "none"
       THEN accepted(IF stateFile.state \in Pending THEN "recovery_required" ELSE stateFile.state,
                     stateFile.applied, stateFile.rb, NoDir)
       ELSE IF ~JournalIdentityOk THEN refused(stateFile.applied, stateFile.rb)
       ELSE IF ~JournalBindingOk THEN refused(AdoptedApplied, AdoptedRb)
       ELSE accepted(ResumedState, AdoptedApplied, AdoptedRb,
                     IF journal.phase = "rollback_restart_pending" THEN journal.prevDir ELSE NoDir)

--------------------------------------------------------------------------------
(* Garbage: writeGcMarker() and collectGarbage() *)

\* Mutant of Referenced: the journal does not protect its directories.
ReferencedByReceipts == {d \in DirIds : Exists(d) /\ d \in {rb.dir, curDir}}

\* Mutant of Referenced: the copy of the current pair is not protected.
ReferencedWithoutCurrent ==
    {d \in DirIds : Exists(d) /\ d \in {rb.dir, journal.tx, journal.rbDir}}

\* Directories a live receipt or the journal still needs.
Referenced ==
    {d \in DirIds : /\ Exists(d)
                    /\ d \in {rb.dir, curDir, journal.tx, journal.rbDir, journal.prevDir}}

\* Unreferenced directories of the two classes the orphan pass may discover.
Orphans == {d \in DirIds : dirs[d].kind \in {"transaction", "rollback-current"}} \ Referenced

\* writeGcMarker(extra) followed by collectGarbage().  A pass that fails part of
\* the way leaves some of the doomed directories and keeps the marker; entries
\* that no longer exist are dropped from the model's marker, the code skips them.
\* n operations of the same step have failed before.
CollectGarbage(extra, n) ==
    LET paths == {d \in marker \cup extra \cup Orphans : Exists(d)}
        doomed == paths \ Referenced
        without(s) == [d \in DirIds |-> IF d \in s THEN Gone ELSE dirs[d]]
    IN \/ /\ Charge(n)
          /\ dirs' = without(doomed)
          /\ receipt' = IF markedReceipt THEN NoRb ELSE receipt
          /\ marker' = paths \ doomed
          /\ markedReceipt' = (markedReceipt /\ paths # doomed)
       \/ /\ Charge(n + 1)
          /\ \E s \in SUBSET doomed :
                /\ dirs' = without(s)
                /\ marker' = paths \ s
          /\ receipt' \in {receipt, IF markedReceipt THEN NoRb ELSE receipt}
          /\ UNCHANGED markedReceipt
       \/ /\ Charge(n + 1)          \* the marker itself cannot be written
          /\ UNCHANGED <<dirs, receipt, marker, markedReceipt>>

--------------------------------------------------------------------------------
(* Process life cycle *)

\* The memory of no process.
Forget ==
    /\ lastState' = "never_checked" /\ lastApplied' = NoVersion /\ rb' = NoRb
    /\ curDir' = NoDir /\ valid' = TRUE
    /\ op' = "none" /\ draft' = NoJournal /\ todo' = {} /\ done' = {} /\ code' = "none"
    /\ pc' = "down" /\ running' = NoVersion /\ timer' = FALSE

Init ==
    /\ stateFile = Receipt("absent", NoVersion, NoRb)
    /\ journal = NoJournal /\ receipt = NoRb /\ marker = {} /\ markedReceipt = FALSE
    /\ dirs = [d \in DirIds |-> Gone]
    /\ installed = Uniform(InitialVersion)
    /\ lastState = "never_checked" /\ lastApplied = NoVersion /\ rb = NoRb
    /\ curDir = NoDir /\ valid = TRUE
    /\ op = "none" /\ draft = NoJournal /\ todo = {} /\ done = {} /\ code = "none"
    /\ pc = "down" /\ running = NoVersion /\ timer = FALSE /\ caller = "daemon"
    /\ restartDue = FALSE
    /\ faults = 0 /\ crashes = 0

Load(who) ==
    /\ pc = "down"
    /\ caller' = who
    /\ running' = installed[DaemonFile] /\ timer' = (who = "daemon")
    /\ lastState' = Loaded.state /\ lastApplied' = Loaded.applied
    /\ rb' = Loaded.rb /\ curDir' = Loaded.cur /\ valid' = Loaded.valid
    /\ pc' = "init_gc"
    /\ UNCHANGED <<disk, locals, restartDue, bounds>>

\* systemd starts the installed amneziad.
StartDaemon == Load("daemon")

\* The rollback coordinator has observed the restored daemon, stopped it, and
\* calls acknowledgeStoppedRollback() with the version it saw installed.
StartCoordinator ==
    /\ stateFile.state = "rollback_restart_pending"
    /\ journal.phase = "rollback_restart_pending" /\ installed = journal.candHash
    /\ Load("coordinator")

InitCollect ==
    /\ pc = "init_gc"
    /\ CollectGarbage({}, 0)
    /\ Goto("init_receipt")
    /\ UNCHANGED <<stateFile, journal, installed, mem, op, draft, todo, done,
                   process, restartDue>>

\* loadRollbackReceipt(): the sidecar must repeat the rollback identity.
SidecarOk == receipt.dir = NoDir \/ (receipt = rb /\ Verified(receipt.dir, receipt.hash))

InitReceipt ==
    /\ pc = "init_receipt"
    /\ LET rejected == valid /\ rb.dir # NoDir /\ ~SidecarOk
       IN /\ valid' = (valid /\ ~rejected)
          /\ lastState' = IF rejected THEN "recovery_required" ELSE lastState
    /\ receipt' = IF valid /\ rb.dir = NoDir THEN NoRb ELSE receipt
    /\ Goto("idle")
    /\ UNCHANGED <<stateFile, journal, marker, markedReceipt, dirs, installed, lastApplied,
                   rb, curDir, op, draft, todo, done, process, restartDue, bounds>>

\* The coordinator's process is done, its target admitted or not.
CoordinatorExit ==
    /\ pc = "idle" /\ caller = "coordinator"
    /\ op = "done" \/ ~(valid /\ lastState = "rollback_restart_pending" /\ rb.ver = running)
    /\ Forget
    /\ UNCHANGED <<disk, caller, restartDue, bounds>>

\* The systemd-run unit restarts the service between two operations.
ServiceRestart ==
    /\ pc = "idle" /\ caller = "daemon" /\ restartDue
    /\ restartDue' = FALSE
    /\ Forget
    /\ UNCHANGED <<disk, caller, bounds>>

\* The process dies at any point.
Crash ==
    /\ pc # "down" /\ crashes < MaxCrashes
    /\ crashes' = crashes + 1
    /\ Forget
    /\ UNCHANGED <<disk, caller, restartDue, faults>>

--------------------------------------------------------------------------------
(* checkAndApply(): admission and acknowledgement *)

\* The operation returns; its locals go out of scope.
Return ==
    /\ pc' = "idle"
    /\ op' = IF caller = "coordinator" THEN "done" ELSE "none"
    /\ draft' = NoJournal /\ todo' = {} /\ done' = {} /\ code' = "none"

\* An idle process may be asked to check: the daemon by its timer, the
\* coordinator once its target is admitted.
MayCheck ==
    /\ pc = "idle"
    /\ caller = "daemon" => timer
    /\ caller = "coordinator" =>
           op # "done" /\ valid /\ lastState = "rollback_restart_pending" /\ rb.ver = running

JournalBlocksCheck ==
    /\ journal.phase # "none"
    /\ journal.phase \notin Acked
    /\ ~(lastState \in Pending /\ journal.phase = lastState)

CheckAdmitted == valid /\ lastState \in Checkable /\ ~JournalBlocksCheck

\* The running image is the one the pending transaction installed.
RunsPendingVersion ==
    /\ lastState = "restart_pending" => lastApplied # NoVersion /\ running = lastApplied
    /\ lastState = "rollback_restart_pending" => rb.ver # NoVersion /\ running = rb.ver

CheckRefused ==
    /\ MayCheck
    /\ ~(CheckAdmitted /\ RunsPendingVersion)
    /\ Fail("recovery_required")
    /\ op' = "check"
    /\ UNCHANGED <<disk, mem, draft, todo, done, process, restartDue, bounds>>

\* Post-restart health check of the updated pair.
AcknowledgeUpdate ==
    /\ MayCheck /\ CheckAdmitted /\ RunsPendingVersion
    /\ lastState = "restart_pending"
    /\ lastState' = "updated"
    /\ op' = "check"
    /\ IF journal.phase # "none" /\ installed = journal.candHash
       THEN draft' = [journal EXCEPT !.phase = "acknowledged"] /\ Goto("ack_journal")
       ELSE draft' = draft /\ Fail("recovery_required")
    /\ UNCHANGED <<disk, lastApplied, rb, curDir, valid, todo, done, process,
                   restartDue, bounds>>

AckJournal ==
    /\ pc = "ack_journal"
    /\ \E o \in Outcomes : WriteJournal(o, draft)
                           /\ IF o = "ok" THEN Goto("ack_state") ELSE Fail("recovery_required")
    /\ UNCHANGED <<stateFile, receipt, marker, markedReceipt, dirs, installed, mem,
                   op, draft, todo, done, process, restartDue>>

AckState ==
    /\ pc = "ack_state"
    /\ \E o \in Outcomes : SaveState(o, lastState, lastApplied, rb)
                           /\ IF o = "ok" THEN Goto("ack_receipt") ELSE Fail("recovery_required")
    /\ UNCHANGED <<journal, receipt, marker, markedReceipt, dirs, installed, mem,
                   op, draft, todo, done, process, restartDue>>

\* writeRollbackReceipt(): the sidecar repeats the rollback identity.
AckReceipt ==
    /\ pc = "ack_receipt"
    /\ \E o \in Outcomes :
          /\ Spend(o)
          /\ receipt' = IF o = "lost" \/ rb.dir = NoDir THEN receipt ELSE rb
          /\ IF o = "ok" /\ rb.dir # NoDir THEN Goto("ret_marker") ELSE Fail("recovery_required")
    /\ UNCHANGED <<stateFile, journal, marker, markedReceipt, dirs, installed, mem,
                   op, draft, todo, done, process, restartDue>>

\* Mutant of AcknowledgeRollback: the restored pair is not verified.
AcknowledgeRollbackUnverified ==
    /\ MayCheck /\ CheckAdmitted /\ RunsPendingVersion
    /\ lastState = "rollback_restart_pending"
    /\ op' = "check" /\ lastState' = "rolled_back"
    /\ draft' = [journal EXCEPT !.op = "rollback", !.phase = "rollback_acknowledged",
                                !.cand = rb.ver, !.cur = rb.ver, !.candHash = rb.hash]
    /\ Goto("rback_state")
    /\ UNCHANGED <<disk, lastApplied, rb, curDir, valid, todo, done, process,
                   restartDue, bounds>>

\* Post-restart health check of the rolled-back pair; the state is published
\* before the journal.
AcknowledgeRollback ==
    /\ MayCheck /\ CheckAdmitted /\ RunsPendingVersion
    /\ lastState = "rollback_restart_pending"
    /\ op' = "check"
    /\ IF installed = rb.hash
       THEN /\ lastState' = "rolled_back"
            /\ draft' = [journal EXCEPT !.op = "rollback", !.phase = "rollback_acknowledged",
                                        !.cand = rb.ver, !.cur = rb.ver, !.candHash = rb.hash]
            /\ Goto("rback_state")
       ELSE UNCHANGED <<lastState, draft>> /\ Fail("recovery_required")
    /\ UNCHANGED <<disk, lastApplied, rb, curDir, valid, todo, done, process,
                   restartDue, bounds>>

RollbackAckState ==
    /\ pc = "rback_state"
    /\ \E o \in Outcomes :
          /\ SaveState(o, lastState, lastApplied, rb)
          /\ IF o = "ok" /\ journal.phase # "none"
             THEN Goto("rback_journal") ELSE Fail("recovery_required")
    /\ UNCHANGED <<journal, receipt, marker, markedReceipt, dirs, installed, mem,
                   op, draft, todo, done, process, restartDue>>

RollbackAckJournal ==
    /\ pc = "rback_journal"
    /\ \E o \in Outcomes : WriteJournal(o, draft)
                           /\ IF o = "ok" THEN Goto("ret_marker") ELSE Fail("recovery_required")
    /\ UNCHANGED <<stateFile, receipt, marker, markedReceipt, dirs, installed, mem,
                   op, draft, todo, done, process, restartDue>>

\* A stable state: finish an interrupted retirement first, then look for a release.
CheckStable ==
    /\ MayCheck /\ CheckAdmitted
    /\ lastState \in Stable
    /\ op' = "check"
    /\ Goto(IF journal.phase # "none" THEN "ret_marker" ELSE "check")
    /\ UNCHANGED <<disk, mem, draft, todo, done, process, restartDue, bounds>>

--------------------------------------------------------------------------------
(* retireAcknowledgedJournal() *)

Retirable == \/ journal.phase = "acknowledged" /\ journal.op = "update"
             \/ journal.phase = "rollback_acknowledged" /\ journal.op = "rollback"

\* rollback() returns once it has retired a finished rollback; otherwise both
\* entry points go on after the garbage pass.
AfterRetirement ==
    IF op = "rollback" /\ journal.phase = "rollback_acknowledged" THEN "ret_gc_return"
    ELSE "ret_gc"

\* Queue the disposable evidence before the journal goes.
RetireMarker ==
    /\ pc = "ret_marker"
    /\ LET rolledBack == journal.phase = "rollback_acknowledged"
           garbage == ({journal.tx} \cup (IF rolledBack THEN {journal.rbDir, journal.prevDir}
                                                      ELSE {})) \ {NoDir}
       IN \/ /\ Retirable
             /\ \E o \in Outcomes :
                   /\ Spend(o)
                   /\ marker' = IF o = "lost" THEN marker ELSE marker \cup garbage
                   /\ markedReceipt' = IF o = "lost" THEN markedReceipt
                                       ELSE markedReceipt \/ rolledBack
                   /\ IF o = "ok" THEN Goto("ret_state") ELSE Fail("recovery_required")
          \/ /\ ~Retirable
             /\ Fail("recovery_required")
             /\ UNCHANGED <<marker, markedReceipt, bounds>>
    /\ UNCHANGED <<stateFile, journal, receipt, dirs, installed, mem, op, draft, todo, done,
                   process, restartDue>>

\* Mutant of RetireState: a finished rollback keeps its identity.
RetireStateKeepsIdentity ==
    /\ pc = "ret_state"
    /\ SaveState("ok", lastState, lastApplied, rb)
    /\ Goto("ret_unlink")
    /\ UNCHANGED <<journal, receipt, marker, markedReceipt, dirs, installed, mem,
                   op, draft, todo, done, process, restartDue>>

\* Publish the stable state; a finished rollback gives up its rollback identity.
RetireState ==
    /\ pc = "ret_state"
    /\ LET rolledBack == journal.phase = "rollback_acknowledged"
       IN /\ rb' = IF rolledBack THEN NoRb ELSE rb
          /\ curDir' = IF rolledBack THEN NoDir ELSE curDir
    /\ \E o \in Outcomes :
          /\ SaveState(o, lastState, lastApplied, rb')
          /\ valid' = (valid /\ o = "ok")
          /\ lastState' = IF o = "ok" THEN lastState ELSE "recovery_required"
          /\ IF o = "ok" THEN Goto("ret_unlink") ELSE Fail("recovery_required")
    /\ UNCHANGED <<journal, receipt, marker, markedReceipt, dirs, installed, lastApplied,
                   op, draft, todo, done, process, restartDue>>

\* Mutant of RetireUnlink: the journal stays.
RetireUnlinkSkipped ==
    /\ pc = "ret_unlink"
    /\ Spend("ok")
    /\ Goto(AfterRetirement)
    /\ UNCHANGED <<disk, mem, op, draft, todo, done, process, restartDue>>

\* Unlinking the journal is the commit point.  An unlink whose fsync fails is
\* undone by writing the journal again; when that fails too, the state takes
\* the identity of a finished rollback back.
RetireUnlink ==
    /\ pc = "ret_unlink"
    /\ \/ /\ Spend("ok")
          /\ journal' = NoJournal
          /\ Goto(AfterRetirement)
          /\ UNCHANGED <<stateFile, rb>>
       \/ /\ Spend("lost")
          /\ Fail("recovery_required")
          /\ UNCHANGED <<stateFile, journal, rb>>
       \/ /\ journal' = NoJournal
          /\ Fail("recovery_required")
          /\ IF journal.phase = "rollback_acknowledged"
             THEN /\ rb' = JournalRb
                  /\ \E o \in Outcomes :
                        /\ Charge(IF o = "ok" THEN 2 ELSE 3)
                        /\ stateFile' = IF o = "lost" THEN stateFile
                                        ELSE Receipt(lastState, lastApplied, JournalRb)
             ELSE Charge(2) /\ UNCHANGED <<stateFile, rb>>
    /\ UNCHANGED <<receipt, marker, markedReceipt, dirs, installed, lastState,
                   lastApplied, curDir, valid, op, draft, todo, done, process,
                   restartDue>>

RetireCollect ==
    /\ pc \in {"ret_gc", "ret_gc_return"}
    /\ CollectGarbage({}, 0)
    /\ IF pc = "ret_gc_return"
       THEN Return
       ELSE /\ Goto(IF op = "check" THEN "check" ELSE "rb_begin")
            /\ UNCHANGED <<op, draft, todo, done>>
    /\ UNCHANGED <<stateFile, journal, installed, mem, process, restartDue>>

--------------------------------------------------------------------------------
(* checkAndApply(): looking for a release *)

\* What parseManifest() makes of the channel's manifest.  A manifest that it
\* rejects leaves its error code as the update state.
parseManifest == {"no_update", "no_headless_artifact", "manifest_rejected", "update_available"}

\* Outcomes of the manifest request that end the check.
SettledStates == {"disabled"} \cup parseManifest

CheckSettles ==
    /\ pc = "check"
    /\ \E s \in IF caller = "coordinator" THEN {"disabled"} ELSE SettledStates :
       \E o \in Outcomes :
          /\ SaveState(o, s, lastApplied, rb)
          /\ lastState' = s
          /\ IF o = "ok" THEN Return
             ELSE Fail("recovery_required") /\ UNCHANGED <<op, draft, todo, done>>
    /\ UNCHANGED <<journal, receipt, marker, markedReceipt, dirs, installed, lastApplied,
                   rb, curDir, valid, process, restartDue>>

\* Trust anchor, transport, network and storage errors.
CheckFails ==
    /\ pc = "check" /\ caller = "daemon"
    /\ Fail("update_failed")
    /\ UNCHANGED <<disk, mem, op, draft, todo, done, process, restartDue, bounds>>

\* A newer installable release: open a private transaction directory.
OpenTransaction ==
    /\ pc = "check" /\ caller = "daemon" /\ Room(4)
    /\ \E v \in Versions, d \in DirIds :
          /\ v > running /\ Fresh(d)
          /\ dirs' = MakeDir(d, "transaction", Blank)
          /\ draft' = [NoJournal EXCEPT !.op = "update", !.phase = "prepared",
                                        !.cand = v, !.cur = running, !.tx = d]
    /\ Goto("download")
    /\ UNCHANGED <<stateFile, journal, receipt, marker, markedReceipt, installed, mem,
                   op, todo, done, process, restartDue, bounds>>

\* download(), extract() and validateCandidateRuntime() accept the artifact.
Download ==
    /\ pc = "download"
    /\ dirs' = [dirs EXCEPT ![draft.tx].pair = Uniform(draft.cand)]
    /\ Goto("backup")
    /\ UNCHANGED <<stateFile, journal, receipt, marker, markedReceipt, installed, mem,
                   op, draft, todo, done, process, restartDue, bounds>>

\* Without a journal the staging directories are disposable.
Discard(staging, n) ==
    /\ CollectGarbage(staging, n)
    /\ Fail("update_failed")
    /\ UNCHANGED <<stateFile, journal, installed, mem, op, draft, todo, done,
                   process, restartDue>>

DownloadFails == pc = "download" /\ Discard({draft.tx}, 0)

--------------------------------------------------------------------------------
(* install() *)

\* Copy the installed pair into a new rollback directory.
Backup ==
    /\ pc = "backup"
    /\ \E d \in DirIds :
          /\ Fresh(d)
          /\ dirs' = MakeDir(d, "rollback", installed)
          /\ draft' = [draft EXCEPT !.rbDir = d, !.rbHash = installed,
                                    !.candHash = dirs[draft.tx].pair]
    /\ Goto("inst_prepared")
    /\ UNCHANGED <<stateFile, journal, receipt, marker, markedReceipt, installed, mem,
                   op, todo, done, process, restartDue, bounds>>

BackupFails == pc \in {"backup", "inst_prepared"}
               /\ Discard({draft.tx, draft.rbDir} \cap DirIds, 1)

\* Mutant of InstallPrepared: the replacement starts without a journal.
InstallUnprepared ==
    /\ pc = "inst_prepared"
    /\ rb' = [rb EXCEPT !.hash = draft.rbHash]
    /\ todo' = Files /\ done' = {}
    /\ Goto("inst_replace")
    /\ UNCHANGED <<disk, lastState, lastApplied, curDir, valid, op, draft, process,
                   restartDue, bounds>>

\* The journal comes before the first replacement; from here on the memory
\* holds the new backup's hashes beside the old backup's directory.
InstallPrepared ==
    /\ pc = "inst_prepared"
    /\ WriteJournal("ok", draft)
    /\ rb' = [rb EXCEPT !.hash = draft.rbHash]
    /\ todo' = Files /\ done' = {}
    /\ Goto("inst_replace")
    /\ UNCHANGED <<stateFile, receipt, marker, markedReceipt, dirs, installed, lastState,
                   lastApplied, curDir, valid, op, draft, process, restartDue>>

\* The journal is in place but the write reported an error.
InstallPreparedUnsynced ==
    /\ pc = "inst_prepared"
    /\ WriteJournal("unsynced", draft)
    /\ Goto("inst_discard")
    /\ UNCHANGED <<stateFile, receipt, marker, markedReceipt, dirs, installed, mem, op, draft,
                   todo, done, process, restartDue>>

\* discardRollbackStaging() spares the backup that the journal now references.
InstallDiscard == pc = "inst_discard" /\ Discard({draft.rbDir} \cap DirIds, 0)

\* atomicReplace() of one file: an unsynced rename has replaced it all the same.
InstallReplace ==
    /\ pc = "inst_replace" /\ todo # {}
    /\ \E f \in todo, o \in Outcomes :
             /\ First(f, todo)
             /\ Spend(o)
             /\ installed' = IF o = "lost" THEN installed
                             ELSE [installed EXCEPT ![f] = dirs[draft.tx].pair[f]]
             /\ done' = IF o = "lost" THEN done ELSE done \cup {f}
             /\ todo' = IF o = "ok" THEN todo \ {f} ELSE {}
             /\ Goto(IF o = "ok" THEN "inst_replace" ELSE "inst_restore")
    /\ UNCHANGED <<stateFile, journal, receipt, marker, markedReceipt, dirs, mem, op, draft,
                   process, restartDue>>

\* After a failed replacement the files already replaced come back from the
\* backup; the prepared journal stays.
InstallRestore ==
    /\ pc = "inst_restore" /\ done # {}
    /\ \E f \in done, o \in Outcomes :
             /\ First(f, done)
             /\ Spend(o)
             /\ installed' = IF o = "lost" THEN installed
                             ELSE [installed EXCEPT ![f] = dirs[draft.rbDir].pair[f]]
             /\ IF o = "ok"
                THEN done' = done \ {f} /\ UNCHANGED lastState /\ Goto("inst_restore")
                ELSE done' = done /\ lastState' = "recovery_required"
                     /\ Fail("recovery_required")
    /\ UNCHANGED <<stateFile, journal, receipt, marker, markedReceipt, dirs, lastApplied, rb,
                   curDir, valid, op, draft, todo, process, restartDue>>

InstallRestored ==
    /\ pc = "inst_restore" /\ done = {}
    /\ Fail("update_failed")
    /\ UNCHANGED <<disk, mem, op, draft, todo, done, process, restartDue, bounds>>

\* A durable step of install() after the replacements: any error ends in recovery.
InstallStep(at, next, o) ==
    /\ pc = at
    /\ IF o = "ok" THEN Goto(next) ELSE Fail("recovery_required")

InstallReplaced ==
    \E o \in Outcomes :
       /\ todo = {}
       /\ draft' = [draft EXCEPT !.phase = "replaced"]
       /\ WriteJournal(o, draft')
       /\ lastState' = IF o = "ok" THEN lastState ELSE "recovery_required"
       /\ InstallStep("inst_replace", "inst_receipt", o)
       /\ UNCHANGED <<stateFile, receipt, marker, markedReceipt, dirs, installed, lastApplied,
                      rb, curDir, valid, op, todo, done, process, restartDue>>

InstallReceipt ==
    \E o \in Outcomes :
       /\ rb' = [rb EXCEPT !.dir = draft.rbDir, !.ver = running]
       /\ SaveState(o, lastState, lastApplied, rb')
       /\ lastState' = IF o = "ok" THEN lastState ELSE "recovery_required"
       /\ InstallStep("inst_receipt", "inst_pending", o)
       /\ UNCHANGED <<journal, receipt, marker, markedReceipt, dirs, installed, lastApplied,
                      curDir, valid, op, draft, todo, done, process, restartDue>>

InstallPending ==
    \E o \in Outcomes :
       /\ draft' = [draft EXCEPT !.phase = "restart_pending"]
       /\ WriteJournal(o, draft')
       /\ lastApplied' = draft.cand
       /\ lastState' = IF o = "ok" THEN "restart_pending" ELSE "recovery_required"
       /\ InstallStep("inst_pending", "inst_publish", o)
       /\ UNCHANGED <<stateFile, receipt, marker, markedReceipt, dirs, installed, rb, curDir,
                      valid, op, todo, done, process, restartDue>>

InstallPublish ==
    \E o \in Outcomes :
       /\ SaveState(o, lastState, lastApplied, rb)
       /\ lastState' = IF o = "ok" THEN lastState ELSE "recovery_required"
       /\ InstallStep("inst_publish", "inst_restart", o)
       /\ UNCHANGED <<journal, receipt, marker, markedReceipt, dirs, installed, lastApplied,
                      rb, curDir, valid, op, draft, todo, done, process, restartDue>>

\* restartService(): the new pair stays installed even when systemd refuses.
InstallRestart ==
    /\ pc = "inst_restart"
    /\ \/ /\ Spend("ok") /\ restartDue' = TRUE
          /\ Goto("inst_commit") /\ UNCHANGED <<stateFile, lastState, valid>>
       \/ /\ UNCHANGED restartDue
          /\ \E o \in Outcomes :
                /\ Charge(IF o = "ok" THEN 1 ELSE 2)
                /\ stateFile' = IF o = "lost" THEN stateFile
                                ELSE Receipt("rollback_failed", lastApplied, rb)
                /\ lastState' = IF o = "ok" THEN "rollback_failed" ELSE "recovery_required"
                /\ valid' = (valid /\ o = "ok")
                /\ Fail(IF o = "ok" THEN "update_failed" ELSE "recovery_required")
    /\ UNCHANGED <<journal, receipt, marker, markedReceipt, dirs, installed, lastApplied, rb,
                   curDir, op, draft, todo, done, process>>

\* checkAndApplyWithLock() saves once more before it returns restart_pending,
\* and checkAutomaticUpdates() then stops the timer: the old image checks no more.
InstallCommit ==
    /\ pc = "inst_commit"
    /\ \E o \in Outcomes :
          /\ SaveState(o, lastState, lastApplied, rb)
          /\ IF o = "ok" THEN Return /\ timer' = FALSE
             ELSE Fail("recovery_required") /\ UNCHANGED <<op, draft, todo, done, timer>>
    /\ UNCHANGED <<journal, receipt, marker, markedReceipt, dirs, installed, mem, caller,
                   running, restartDue>>

--------------------------------------------------------------------------------
(* rollback() and restoreRollback() *)

\* An invalid state refuses without touching anything (a stuttering step).
RollbackRequested ==
    /\ pc = "idle" /\ caller = "daemon" /\ valid /\ Room(2)
    /\ op' = "rollback"
    /\ Goto(IF journal.phase \in Acked THEN "ret_marker" ELSE "rb_begin")
    /\ UNCHANGED <<disk, mem, draft, todo, done, process, restartDue, bounds>>

\* The state may be in recovery, but only with a complete rollback identity.
RollbackIdentityOk ==
    lastState = "recovery_required" =>
        rb.dir # NoDir /\ rb.ver # NoVersion /\ rb.hash # Blank

AlreadyRestored == lastState = "rollback_restart_pending" /\ installed = rb.hash

\* The rollback pair is installed already: only the restart is repeated.
RollbackRestartAgain ==
    /\ pc = "rb_begin" /\ RollbackIdentityOk /\ AlreadyRestored
    /\ \/ Spend("ok") /\ restartDue' = TRUE /\ UNCHANGED <<lastState, valid, stateFile>>
       \/ /\ lastState' = "rollback_failed" /\ UNCHANGED restartDue
          /\ \E o \in Outcomes :
                /\ Charge(IF o = "ok" THEN 1 ELSE 2)
                /\ stateFile' = IF o = "lost" THEN stateFile
                                ELSE Receipt("rollback_failed", lastApplied, rb)
                /\ valid' = (o = "ok")
    /\ Return
    /\ UNCHANGED <<journal, receipt, marker, markedReceipt, dirs, installed, lastApplied, rb,
                   curDir, process>>

\* No journal: a completed update still owns its rollback pair.
JournalFreeStates ==
    {"updated", "disabled", "no_update", "rollback_failed", "recovery_required"}

\* The journal that remains names the same rollback pair.
JournalBoundToRollback ==
    /\ journal.phase \in Pending \cup {"replaced", "prepared", "acknowledged"}
    /\ JournalRb = rb

RollbackAdmitted ==
    /\ Verified(rb.dir, rb.hash)
    /\ IF journal.phase = "none"
       THEN rb.ver # NoVersion /\ lastApplied # NoVersion /\ lastState \in JournalFreeStates
       ELSE JournalBoundToRollback

\* restoreRollback() returned false without marking the state itself.
RollbackErrorCode(state) ==
    IF state = "recovery_required" THEN "recovery_required" ELSE "rollback_failed"

RollbackRefused ==
    /\ pc = "rb_begin" /\ ~(RollbackIdentityOk /\ AlreadyRestored)
    /\ \/ /\ ~RollbackIdentityOk
          /\ Fail("recovery_required") /\ UNCHANGED lastState
       \/ /\ RollbackIdentityOk /\ rb.dir = NoDir
          /\ Fail("no_rollback") /\ UNCHANGED lastState
       \/ /\ RollbackIdentityOk /\ rb.dir # NoDir /\ ~RollbackAdmitted
          /\ Fail("recovery_required") /\ lastState' = "recovery_required"
    /\ UNCHANGED <<disk, lastApplied, rb, curDir, valid, op, draft, todo, done, process, restartDue, bounds>>

RollbackMayStart ==
    /\ pc = "rb_begin" /\ RollbackIdentityOk /\ ~AlreadyRestored
    /\ rb.dir # NoDir /\ RollbackAdmitted

\* Without a journal a recovery receipt directory stands for the transaction.
RollbackSynthesize ==
    /\ RollbackMayStart /\ journal.phase = "none"
    /\ \/ /\ \E d \in DirIds :
                /\ Fresh(d)
                /\ dirs' = MakeDir(d, "recovery-receipt", Blank)
                /\ draft' = [NoJournal EXCEPT !.op = "rollback", !.phase = "acknowledged",
                                !.cand = rb.ver, !.cur = rb.ver, !.tx = d, !.rbDir = rb.dir,
                                !.rbHash = rb.hash, !.candHash = rb.hash]
          /\ Spend("ok") /\ Goto("rb_stage")
       \/ Spend("lost") /\ Fail(RollbackErrorCode(lastState)) /\ UNCHANGED <<dirs, draft>>
    /\ UNCHANGED <<stateFile, journal, receipt, marker, markedReceipt, installed, mem, op,
                   todo, done, process, restartDue>>

\* Mutant of RollbackAdopt: the current-pair evidence is not verified again.
RollbackAdoptUnverified ==
    /\ RollbackMayStart /\ journal.phase # "none"
    /\ draft' = journal
    /\ IF journal.phase # "rollback_restart_pending"
       THEN Goto("rb_stage") /\ UNCHANGED curDir
       ELSE Goto("rb_journal") /\ curDir' = journal.prevDir
    /\ UNCHANGED <<disk, lastState, lastApplied, rb, valid, op, todo, done, process,
                   restartDue, bounds>>

\* An interrupted rollback resumes with the current-pair evidence it recorded.
RollbackAdopt ==
    /\ RollbackMayStart /\ journal.phase # "none"
    /\ draft' = journal
    /\ \/ /\ journal.phase # "rollback_restart_pending"
          /\ Goto("rb_stage") /\ UNCHANGED curDir
       \/ /\ journal.phase = "rollback_restart_pending"
          /\ IF Verified(journal.prevDir, journal.prevHash)
             THEN curDir' = journal.prevDir /\ Goto("rb_journal")
             ELSE curDir' = curDir /\ Fail(RollbackErrorCode(lastState))
    /\ UNCHANGED <<disk, lastState, lastApplied, rb, valid, op, todo, done, process,
                   restartDue, bounds>>

\* Stage the pair that is about to be replaced.
RollbackStage ==
    /\ pc = "rb_stage"
    /\ \/ /\ \E d \in DirIds :
                /\ Fresh(d)
                /\ dirs' = MakeDir(d, "rollback-current", installed)
                /\ curDir' = d
                /\ draft' = [draft EXCEPT !.prevDir = d, !.prevHash = installed]
          /\ Spend("ok") /\ Goto("rb_journal")
       \/ /\ Spend("lost") /\ Fail(RollbackErrorCode(lastState))
          /\ UNCHANGED <<dirs, curDir, draft>>
    /\ UNCHANGED <<stateFile, journal, receipt, marker, markedReceipt, installed, lastState,
                   lastApplied, rb, valid, op, todo, done, process, restartDue>>

\* The intent and the evidence are durable before the first replacement.  A
\* failed write removes the current-pair directory, the one just staged or the
\* one an interrupted rollback left.
RollbackJournal ==
    /\ pc = "rb_journal"
    /\ draft' = [draft EXCEPT !.op = "rollback", !.phase = "rollback_restart_pending",
                              !.cand = rb.ver, !.cur = rb.ver, !.rbHash = rb.hash,
                              !.candHash = rb.hash, !.prevDir = curDir]
    /\ \E o \in Outcomes :
          /\ WriteJournal(o, draft')
          /\ IF o = "ok"
             THEN /\ todo' = Files /\ done' = {} /\ Goto("rb_replace")
                  /\ UNCHANGED <<dirs, curDir>>
             ELSE /\ dirs' = [dirs EXCEPT ![curDir] = Gone] /\ curDir' = NoDir
                  /\ Fail(RollbackErrorCode(lastState)) /\ UNCHANGED <<todo, done>>
    /\ UNCHANGED <<stateFile, receipt, marker, markedReceipt, installed, lastState,
                   lastApplied, rb, valid, op, process, restartDue>>

RollbackReplace ==
    /\ pc = "rb_replace" /\ todo # {}
    /\ \E f \in todo, o \in Outcomes :
             /\ First(f, todo)
             /\ Spend(o)
             /\ installed' = IF o = "lost" THEN installed
                             ELSE [installed EXCEPT ![f] = dirs[rb.dir].pair[f]]
             /\ done' = IF o = "lost" THEN done ELSE done \cup {f}
             /\ todo' = IF o = "ok" THEN todo \ {f} ELSE {}
             /\ Goto(IF o = "ok" THEN "rb_replace" ELSE "rb_undo")
    /\ UNCHANGED <<stateFile, journal, receipt, marker, markedReceipt, dirs, mem, op, draft,
                   process, restartDue>>

RollbackCommit ==
    /\ pc = "rb_replace" /\ todo = {}
    /\ \E o \in Outcomes : WriteJournal(o, draft)
                           /\ Goto(IF o = "ok" THEN "rb_publish" ELSE "rb_undo")
    /\ UNCHANGED <<stateFile, receipt, marker, markedReceipt, dirs, installed, mem, op, draft,
                   todo, done, process, restartDue>>

\* restoreCurrent() goes on past a file it cannot restore.
RollbackUndo ==
    /\ pc = "rb_undo" /\ done # {}
    /\ \E f \in done, o \in Outcomes :
             /\ First(f, done)
             /\ Spend(o)
             /\ installed' = IF o = "lost" THEN installed
                             ELSE [installed EXCEPT ![f] = dirs[curDir].pair[f]]
             /\ done' = done \ {f}
             /\ code' = IF o = "ok" THEN code ELSE "undo_failed"
    /\ UNCHANGED <<stateFile, journal, receipt, marker, markedReceipt, dirs, mem, pc, op,
                   draft, todo, process, restartDue>>

RollbackUndone ==
    /\ pc = "rb_undo" /\ done = {}
    /\ IF code = "undo_failed"
       THEN /\ lastState' = "recovery_required" /\ Fail("recovery_required")
            /\ UNCHANGED <<journal, draft, bounds>>
       ELSE /\ draft' = [draft EXCEPT !.phase = "replaced"]
            /\ \E o \in Outcomes :
                  /\ WriteJournal(o, draft')
                  /\ lastState' = IF o = "ok" THEN lastState ELSE "recovery_required"
                  /\ Fail(RollbackErrorCode(lastState'))
    /\ UNCHANGED <<stateFile, receipt, marker, markedReceipt, dirs, installed, lastApplied,
                   rb, curDir, valid, op, todo, done, process, restartDue>>

RollbackPublish ==
    /\ pc = "rb_publish"
    /\ lastApplied' = rb.ver
    /\ \E o \in Outcomes :
          /\ SaveState(o, "rollback_restart_pending", rb.ver, rb)
          /\ IF o = "ok"
             THEN /\ lastState' = "rollback_restart_pending" /\ valid' = valid
                  /\ Goto("rb_restart") /\ UNCHANGED <<op, draft, todo, done>>
             ELSE /\ lastState' = "recovery_required" /\ valid' = FALSE /\ Return
    /\ UNCHANGED <<journal, receipt, marker, markedReceipt, dirs, installed, rb, curDir,
                   process, restartDue>>

RollbackRestart ==
    /\ pc = "rb_restart"
    /\ \/ /\ Spend("ok") /\ restartDue' = TRUE
          /\ UNCHANGED <<stateFile, lastState, valid>>
       \/ /\ UNCHANGED restartDue
          /\ \E o \in Outcomes :
                /\ Charge(IF o = "ok" THEN 1 ELSE 2)
                /\ stateFile' = IF o = "lost" THEN stateFile
                                ELSE Receipt("rollback_failed", lastApplied, rb)
                /\ lastState' = IF o = "ok" THEN "rollback_failed" ELSE "recovery_required"
                /\ valid' = (valid /\ o = "ok")
    /\ Return
    /\ UNCHANGED <<journal, receipt, marker, markedReceipt, dirs, installed, lastApplied, rb,
                   curDir, process>>

--------------------------------------------------------------------------------
(* failure() *)

\* An acknowledged journal over a stable state only waits for its retirement.
CleanupRetryable ==
    code = "recovery_required" /\ lastState \in Stable /\ journal.phase \in Acked

FailureState ==
    IF CleanupRetryable THEN lastState
    ELSE IF code \in {"recovery_required", "rollback_failed", "no_rollback"} THEN code
    ELSE IF lastState \in ValidStates THEN lastState
    ELSE "never_checked"

\* The state is saved, a retryable one twice, and the operation returns.  A
\* handler that has saved "recovery_required" itself just before is one save
\* here: both write the same receipt.
FailureSaves ==
    /\ pc = "failing"
    /\ \E first \in IF CleanupRetryable THEN Outcomes ELSE {"ok"}, o \in Outcomes :
          /\ Charge((IF first = "ok" THEN 0 ELSE 1) + (IF o = "ok" THEN 0 ELSE 1))
          /\ stateFile' = IF o = "lost" /\ (CleanupRetryable => first = "lost") THEN stateFile
                          ELSE Receipt(FailureState, lastApplied, rb)
          /\ lastState' = IF o = "ok" THEN FailureState ELSE "recovery_required"
          /\ valid' = (/\ valid /\ first = "ok" /\ o = "ok"
                       /\ code = "recovery_required" => CleanupRetryable)
    /\ Return
    /\ UNCHANGED <<journal, receipt, marker, markedReceipt, dirs, installed, lastApplied, rb,
                   curDir, process, restartDue>>

--------------------------------------------------------------------------------
(* Specification *)

Acknowledge ==
    AckJournal \/ AckState \/ AckReceipt \/ RollbackAckState \/ RollbackAckJournal

Retire == RetireMarker \/ RetireState \/ RetireUnlink \/ RetireCollect

Install ==
    \/ Backup \/ BackupFails \/ InstallPrepared \/ InstallPreparedUnsynced \/ InstallDiscard
    \/ InstallReplace \/ InstallRestore \/ InstallRestored \/ InstallReplaced
    \/ InstallReceipt \/ InstallPending \/ InstallPublish \/ InstallRestart \/ InstallCommit

RestoreRollback ==
    \/ RollbackRestartAgain \/ RollbackRefused \/ RollbackSynthesize \/ RollbackAdopt
    \/ RollbackStage \/ RollbackJournal \/ RollbackReplace \/ RollbackCommit
    \/ RollbackUndo \/ RollbackUndone \/ RollbackPublish \/ RollbackRestart

Check == CheckSettles \/ CheckFails \/ OpenTransaction \/ Download \/ DownloadFails

\* The steps of an operation that has begun, and of a process that has started.
Progress ==
    \/ InitCollect \/ InitReceipt \/ CoordinatorExit
    \/ Acknowledge \/ Retire \/ Check \/ Install \/ RestoreRollback \/ FailureSaves

\* The periodic check of an idle process.
CheckAndApply == CheckRefused \/ AcknowledgeUpdate \/ AcknowledgeRollback \/ CheckStable

Next ==
    \/ StartDaemon \/ StartCoordinator \/ ServiceRestart \/ Crash
    \/ CheckAndApply \/ RollbackRequested
    \/ Progress

Spec == Init /\ [][Next]_vars

\* systemd starts a stopped service and carries out a requested restart, the
\* check timer keeps firing, and an operation that has begun runs on.
Fairness ==
    /\ WF_vars(StartDaemon)
    /\ SF_vars(ServiceRestart)
    /\ SF_vars(CheckAndApply)
    /\ WF_vars(Progress)

FairSpec == Spec /\ Fairness

--------------------------------------------------------------------------------
(* Properties *)

Dirs0 == DirIds \cup {NoDir}
Versions0 == Versions \cup {NoVersion}
RbIds == [dir : Dirs0, ver : Versions0, hash : Pairs]
Phases == {"prepared", "replaced"} \cup Pending \cup Acked
Journals == [op : {"update", "rollback", "none"}, phase : Phases \cup {"none"},
             cand : Versions0, cur : Versions0, tx : Dirs0, rbDir : Dirs0, rbHash : Pairs,
             candHash : Pairs, prevDir : Dirs0, prevHash : Pairs]
States == ValidStates \cup {"manifest_rejected"}

DiskOK ==
    /\ stateFile \in [state : States \cup {"absent"}, applied : Versions0, rb : RbIds]
    /\ journal \in Journals /\ receipt \in RbIds
    /\ marker \subseteq DirIds /\ markedReceipt \in BOOLEAN
    /\ dirs \in [DirIds -> [kind : DirKinds \cup {"none"}, pair : Pairs]]
    /\ installed \in [Files -> Versions]

MemoryOK ==
    /\ lastState \in States /\ lastApplied \in Versions0 /\ rb \in RbIds
    /\ curDir \in Dirs0 /\ valid \in BOOLEAN

ControlOK ==
    /\ draft \in Journals /\ todo \subseteq Files /\ done \subseteq Files
    /\ caller \in {"daemon", "coordinator"} /\ running \in Versions0 /\ timer \in BOOLEAN
    /\ restartDue \in BOOLEAN
    /\ faults \in 0 .. MaxFaults /\ crashes \in 0 .. MaxCrashes

\* Type invariant of the durable files, the manager's memory and the control
\* state: no operation records a state, phase, version or directory of another
\* kind, and an installed file is never missing.
TypeOK == DiskOK /\ MemoryOK /\ ControlOK

\* As long as a transaction journal exists, the rollback directory it names
\* holds exactly the pair its hash receipt describes: no garbage pass, failed
\* cleanup, crash or interrupted retirement takes it away (install(),
\* collectGarbage(), retireAcknowledgedJournal()).
EvidenceIntact == journal.phase # "none" => Verified(journal.rbDir, journal.rbHash)

Complete(d) == Exists(d) /\ dirs[d].pair # Blank

\* What a journal must satisfy before it is written.
Sound(j) == /\ Verified(j.rbDir, j.rbHash)
            /\ j.phase = "rollback_restart_pending" => j.prevDir # j.rbDir

\* The steps that write the journal under construction, and those before them.
JournalSteps ==
    {"ack_journal", "rback_journal", "inst_prepared", "inst_replace",
     "inst_restore", "inst_receipt", "inst_pending", "rb_stage", "rb_journal", "rb_replace",
     "rb_undo"}

\* Every step finds on disk what it is about to rely on: a release is only
\* looked for without a journal, files are only replaced from directories that
\* hold a complete pair, a journal is only written with a rollback directory
\* that verifies, and the copy of the current pair, which a failed journal write
\* removes, is never that directory (install(), restoreRollback()).
StepsPrepared ==
    /\ pc \in {"check", "download", "backup", "inst_prepared", "ret_gc", "ret_gc_return"} =>
           journal.phase = "none"
    /\ pc = "download" => Exists(draft.tx) /\ draft.cand \in Versions
    /\ pc \in {"backup", "inst_prepared", "inst_replace"} => Complete(draft.tx)
    /\ pc \in JournalSteps \/ (pc = "rback_state" /\ journal.phase # "none") =>
           Sound(draft)
    /\ pc \in {"rb_stage", "rb_journal"} =>
           /\ draft.rbDir = rb.dir /\ draft.rbHash = rb.hash
           /\ journal.phase # "none" => journal.rbDir = rb.dir
    /\ pc \in {"rb_journal", "rb_replace", "rb_undo"} => Complete(curDir)
    /\ pc = "rb_journal" => curDir # rb.dir
    /\ pc = "rb_replace" => draft.rbDir = rb.dir
    /\ journal.phase = "rollback_restart_pending" => journal.prevDir # journal.rbDir

Coherent(pair) == \A f, g \in Files : pair[f] = pair[g]

\* Whenever the installed pair mixes two versions, a journal whose phase admits
\* restoreRollback() is durable and names a verified pair of one version.
MixedPairRepairable ==
    ~Coherent(installed) =>
        /\ journal.phase \in {"prepared", "replaced", "rollback_restart_pending"}
        /\ Verified(journal.rbDir, journal.rbHash)
        /\ Coherent(journal.rbHash)

\* An acknowledgement is only durable for the pair that is installed: neither
\* an acknowledged journal nor, after its retirement, the state "updated"
\* survives a replacement of a file behind it.
AcknowledgedMeansInstalled ==
    /\ journal.phase \in Acked => installed = journal.candHash
    /\ journal.phase = "none" /\ stateFile.state = "updated" =>
           installed = Uniform(stateFile.applied)

\* The journal is unlinked only when the state receipt has taken over: it names
\* the same rollback pair after an update, and none after a rollback
\* (retireAcknowledgedJournal()).
RetirementKeepsAuthority ==
    [][journal.phase # "none" /\ journal'.phase = "none" =>
          \/ journal.phase = "acknowledged" /\ stateFile.rb = JournalRb
          \/ journal.phase = "rollback_acknowledged" /\ stateFile.rb = NoRb]_vars

\* systemd is asked to restart the service only into the pair that a durable
\* pending journal describes, so the process it starts can acknowledge it
\* (restartService() in install() and rollback()).
RestartsIntoJournalledPair ==
    [][~restartDue /\ restartDue' =>
          journal.phase \in Pending /\ installed = journal.candHash]_vars

\* Neither step outruns what is durable: the journal goes after the receipt
\* that replaces it, the restart comes after the journal that describes it
\* (retireAcknowledgedJournal(), install(), rollback()).
DurableAuthority == RetirementKeepsAuthority /\ RestartsIntoJournalledPair

\* Once the rollback intent is durable, so is the verified copy of the pair
\* being replaced: what restoreCurrent() and a resumed rollback restore from.
CurrentPairEvidence ==
    journal.phase = "rollback_restart_pending" => Verified(journal.prevDir, journal.prevHash)

\* A rollback directory that the state receipt advertises exists and holds the
\* pair its hashes describe, across updates, rollbacks, crashes and garbage
\* passes (saveState()).
AdvertisedRollbackIntact ==
    stateFile.rb.dir # NoDir => Verified(stateFile.rb.dir, stateFile.rb.hash)

\* As long as no durable write fails, a rollback that was promised can be made:
\* both directions keep their verified copies through crashes and garbage
\* passes (restoreRollback(), collectGarbage()).
EvidenceWithoutFaults == faults = 0 => CurrentPairEvidence /\ AdvertisedRollbackIntact

\* Without crashes and failed writes a transaction does not stay open: every
\* journal is retired, by the acknowledgement of the update or of the rollback
\* that replaced it, whatever the order of checks, rollback requests and
\* restarts (checkAndApply(), rollback()).
JournalSettles == journal.phase # "none" ~> journal.phase = "none"

\* And the directory of every transaction is reclaimed (collectGarbage()).
TransactionsReclaimed ==
    \A d \in DirIds : dirs[d].kind = "transaction" ~> dirs[d].kind # "transaction"

\* A transaction ends, in its journal and on the disk (checkAndApply(),
\* rollback(), collectGarbage()).
Settles == JournalSettles /\ TransactionsReclaimed

================================================================================
