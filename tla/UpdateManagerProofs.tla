-------------------------- MODULE UpdateManagerProofs --------------------------
(***************************************************************************)
(* What the updater of UpdateManager.tla keeps, for any set of files,      *)
(* versions and directories and any number of faults and crashes: types,   *)
(* the integrity of the rollback evidence (IInv), what journal, receipt    *)
(* and memory say of the installed pair (Story), the authority that        *)
(* retirements and restarts rest on, and, as long as no durable write      *)
(* fails, everything a rollback was promised (Promises).                   *)
(***************************************************************************)
EXTENDS UpdateManager, TLAPS

StateFiles == [state : States \cup {"absent"}, applied : Versions0, rb : RbIds]
DirTable == [DirIds -> [kind : DirKinds \cup {"none"}, pair : Pairs]]
BoundsOK == faults \in 0 .. MaxFaults /\ crashes \in 0 .. MaxCrashes

Evidence == StepsPrepared /\ EvidenceIntact

\* The inductive invariant.
IInv == TypeOK /\ Evidence

--------------------------------------------------------------------------------
(* Values *)

\* The empty values of the durable files are well typed.
LEMMA BlankValues ==
    /\ Blank \in Pairs /\ NoVersion \in Versions0 /\ NoDir \in Dirs0
    /\ NoRb \in RbIds /\ NoJournal \in Journals
    /\ Gone \in [kind : DirKinds \cup {"none"}, pair : Pairs]
<1> QED BY DEF NoRb, RbIds, NoJournal, Journals, Phases, Gone, DirKinds, Pairs, Versions0, Dirs0

\* A pair of versions is a complete pair: at least the daemon's file is in it.
LEMMA CompletePairs ==
    /\ [Files -> Versions] \subseteq Pairs
    /\ \A p \in [Files -> Versions] : p # Blank
    /\ \A p \in Pairs : p # Blank => p \in [Files -> Versions]
    /\ \A v \in Versions : Uniform(v) \in [Files -> Versions]
<1> QED BY FilesAssumption, VersionsAssumption DEF Pairs, Uniform, Blank, NoVersion

\* A receipt made of typed parts is a typed state file.
LEMMA ReceiptType ==
    ASSUME NEW s \in States, NEW a \in Versions0, NEW r \in RbIds
    PROVE  Receipt(s, a, r) \in StateFiles
BY DEF Receipt, StateFiles

\* A step that charges n failed operations stays within the bounds.
LEMMA ChargeType ==
    ASSUME NEW n \in Nat, BoundsOK, Charge(n)
    PROVE  BoundsOK'
BY BoundsAssumption DEF BoundsOK, Charge

\* So does a step that charges one durable operation.
LEMMA SpendType ==
    ASSUME NEW o, BoundsOK, Spend(o)
    PROVE  BoundsOK'
BY ChargeType DEF Spend

\* saveState() leaves a typed state file, written or not.
LEMMA SaveStateType ==
    ASSUME NEW o, NEW s \in States, NEW a \in Versions0, NEW r \in RbIds,
           BoundsOK, stateFile \in StateFiles, SaveState(o, s, a, r)
    PROVE  stateFile' \in StateFiles /\ BoundsOK'
BY ReceiptType, SpendType DEF SaveState

\* writeJournal() leaves a typed journal, written or not.
LEMMA WriteJournalType ==
    ASSUME NEW o, NEW j \in Journals, BoundsOK, journal \in Journals, WriteJournal(o, j)
    PROVE  journal' \in Journals /\ BoundsOK'
BY SpendType DEF WriteJournal

\* A new directory holds its pair, and no other directory changes.
LEMMA MakeDirType ==
    ASSUME NEW d \in DirIds, NEW k \in DirKinds, NEW p \in Pairs, dirs \in DirTable,
           dirs' = MakeDir(d, k, p)
    PROVE  /\ dirs' \in DirTable
           /\ dirs'[d].kind = k /\ dirs'[d].pair = p /\ k # "none"
           /\ \A e \in DirIds \ {d} : dirs'[e] = dirs[e]
BY DEF MakeDir, DirTable, DirKinds

\* A garbage pass keeps every referenced directory.
LEMMA CollectGarbageKeeps ==
    ASSUME NEW extra \in SUBSET DirIds, NEW n \in Nat, DiskOK, BoundsOK,
           CollectGarbage(extra, n)
    PROVE  /\ dirs' \in DirTable /\ receipt' \in RbIds
           /\ marker' \subseteq DirIds /\ markedReceipt' \in BOOLEAN
           /\ BoundsOK'
           /\ \A d \in Referenced : dirs'[d] = dirs[d]
<1> DEFINE paths == {d \in marker \cup extra \cup Orphans : Exists(d)}
           doomed == paths \ Referenced
           without(s) == [d \in DirIds |-> IF d \in s THEN Gone ELSE dirs[d]]
<1>1. paths \subseteq DirIds /\ Referenced \subseteq DirIds BY DEF Exists, Referenced
<1>2. \A s \in SUBSET doomed : /\ without(s) \in DirTable
                               /\ \A d \in Referenced : without(s)[d] = dirs[d]
  BY <1>1, BlankValues DEF DiskOK, DirTable
<1>3. CASE /\ Charge(n)
           /\ dirs' = without(doomed)
           /\ receipt' = IF markedReceipt THEN NoRb ELSE receipt
           /\ marker' = paths \ doomed
           /\ markedReceipt' = (markedReceipt /\ paths # doomed)
  <2>1. doomed \in SUBSET doomed OBVIOUS
  <2>2. dirs' \in DirTable /\ \A d \in Referenced : dirs'[d] = dirs[d] BY <1>2, <1>3, <2>1
  <2> QED BY <1>1, <1>3, <2>2, ChargeType, BlankValues DEF DiskOK
<1>4. CASE /\ Charge(n + 1)
           /\ \E s \in SUBSET doomed : dirs' = without(s) /\ marker' = paths \ s
           /\ receipt' \in {receipt, IF markedReceipt THEN NoRb ELSE receipt}
           /\ UNCHANGED markedReceipt
  <2>2. receipt' \in RbIds /\ marker' \subseteq DirIds /\ markedReceipt' \in BOOLEAN
    BY <1>1, <1>4, BlankValues DEF DiskOK
  <2> QED BY <1>2, <1>4, <2>2, ChargeType
<1>5. CASE Charge(n + 1) /\ UNCHANGED <<dirs, receipt, marker, markedReceipt>>
  BY <1>1, <1>5, ChargeType DEF DiskOK, DirTable
<1> QED BY <1>3, <1>4, <1>5 DEF CollectGarbage

--------------------------------------------------------------------------------
(* Frames: what a step that ends between the critical ones has to keep *)

QuietSteps ==
    {"down", "init_gc", "init_receipt", "idle", "failing", "ret_marker", "ret_state",
     "ret_unlink", "rb_begin", "ack_state", "ack_receipt", "inst_discard", "inst_publish",
     "inst_restart", "inst_commit", "rb_publish", "rb_restart"}

\* A step that leaves journal and directories alone and ends at a quiet step
\* keeps the evidence.
LEMMA QuietFrame ==
    ASSUME Evidence, UNCHANGED <<journal, dirs>>, pc' \in QuietSteps
    PROVE  Evidence'
BY DEF Evidence, StepsPrepared, EvidenceIntact, Verified, Exists, QuietSteps, JournalSteps

\* So does one that may have written a sound journal.
LEMMA QuietJournal ==
    ASSUME Evidence, NEW j, Sound(j), UNCHANGED dirs, journal' \in {journal, j},
           pc' \in QuietSteps
    PROVE  Evidence'
BY DEF Evidence, StepsPrepared, EvidenceIntact, Sound, Verified, Exists, QuietSteps, JournalSteps

\* So does a garbage pass: what the journal names is referenced.
LEMMA QuietGarbage ==
    ASSUME Evidence, DiskOK, BoundsOK, NEW extra \in SUBSET DirIds, NEW n \in Nat,
           CollectGarbage(extra, n), UNCHANGED journal, pc' \in QuietSteps
    PROVE  Evidence'
<1>2. journal.phase # "none" => journal.rbDir \in Referenced
  BY DEF Evidence, EvidenceIntact, Verified, Exists, Referenced
<1> QED
  BY <1>2, CollectGarbageKeeps DEF Evidence, StepsPrepared, EvidenceIntact, Verified, Exists, QuietSteps, JournalSteps

\* A retired journal leaves nothing to protect.
LEMMA NoJournalFrame ==
    ASSUME journal'.phase = "none", pc' \in QuietSteps \cup {"check", "ret_gc", "ret_gc_return"}
    PROVE  Evidence'
BY DEF Evidence, StepsPrepared, EvidenceIntact, QuietSteps, JournalSteps

--------------------------------------------------------------------------------
(* Processes *)

\* What loadState() leaves in memory is typed.
LEMMA LoadedType ==
    ASSUME DiskOK
    PROVE  /\ Loaded.state \in States /\ Loaded.applied \in Versions0 /\ Loaded.rb \in RbIds
           /\ Loaded.cur \in Dirs0 /\ Loaded.valid \in BOOLEAN
<1>2. stateFile.state \in States \cup {"absent"} /\ stateFile.applied \in Versions0
      /\ stateFile.rb \in RbIds /\ journal.prevDir \in Dirs0 BY DEF DiskOK, Journals
<1> QED
  BY <1>2, BlankValues DEF Loaded, States, ValidStates, Checkable, Stable, Pending, DiskOK, JournalRb, AdoptedRb,
    AdoptedApplied, Journals, RbIds, ResumedState, Phases, Acked

\* The provisioned system satisfies the inductive invariant.
LEMMA InitIInv == Init => IInv
<1> SUFFICES ASSUME Init PROVE IInv OBVIOUS
<1>1. DiskOK
  <2>2. stateFile \in StateFiles BY BlankValues DEF Init, Receipt, StateFiles
  <2>3. Uniform(InitialVersion) \in [Files -> Versions] BY CompletePairs, VersionsAssumption
  <2> QED BY <2>2, <2>3, BlankValues DEF Init, DiskOK, StateFiles
<1>3. ControlOK
  <2>1. faults \in 0 .. MaxFaults /\ crashes \in 0 .. MaxCrashes BY BoundsAssumption DEF Init
  <2> QED BY <2>1, BlankValues DEF Init, ControlOK
<1> QED
  BY <1>1, <1>3, BlankValues DEF IInv, TypeOK, Evidence, Init, MemoryOK, States, ValidStates, Checkable, Stable,
    StepsPrepared, EvidenceIntact, NoJournal, JournalSteps

\* A process that ends leaves typed, empty memory.
LEMMA ForgetType ==
    ASSUME ControlOK, Forget, UNCHANGED <<caller, bounds>>, restartDue' \in BOOLEAN
    PROVE  MemoryOK' /\ ControlOK' /\ pc' \in QuietSteps
<1>2. ControlOK' BY BlankValues DEF Forget, ControlOK, bounds
<1> QED BY <1>2, BlankValues DEF Forget, QuietSteps, MemoryOK, States, ValidStates, Checkable, Stable

\* An operation that returns leaves typed, empty locals.
LEMMA ReturnType ==
    ASSUME ControlOK, Return, UNCHANGED <<caller, running>>, timer' \in BOOLEAN,
           restartDue' \in BOOLEAN, BoundsOK'
    PROVE  ControlOK' /\ pc' \in QuietSteps
BY BlankValues DEF ControlOK, Return, BoundsOK, QuietSteps

\* initializeState() of a new process, the daemon's or the coordinator's.
LEMMA LoadStep ==
    ASSUME IInv, NEW who \in {"daemon", "coordinator"}, Load(who)
    PROVE  IInv'
<1> QED
  BY QuietFrame, FilesAssumption, LoadedType DEF IInv, TypeOK, DiskOK, Load, disk, MemoryOK, Versions0, ControlOK,
    locals, bounds, QuietSteps

\* A step of a process that starts or ends.
LEMMA ProcessStep ==
    ASSUME IInv,
           StartDaemon \/ StartCoordinator \/ InitCollect \/ InitReceipt
           \/ CoordinatorExit \/ ServiceRestart \/ Crash
    PROVE  IInv'
<1> USE DEF IInv, TypeOK
<1>1. CASE StartDaemon \/ StartCoordinator BY <1>1, LoadStep DEF StartDaemon, StartCoordinator
<1>2. CASE InitCollect
  <2>1. BoundsOK /\ CollectGarbage({}, 0) BY <1>2 DEF InitCollect, BoundsOK, ControlOK
  <2>2. DiskOK' /\ BoundsOK' BY <1>2, <2>1, CollectGarbageKeeps DEF InitCollect, DiskOK, DirTable
  <2> QED
    BY <1>2, <2>1, <2>2, QuietGarbage DEF InitCollect, MemoryOK, ControlOK, BoundsOK, mem, process, Goto, QuietSteps
<1>3. CASE InitReceipt
  BY <1>3, BlankValues, QuietFrame DEF InitReceipt, DiskOK, MemoryOK, States, ValidStates, Checkable, ControlOK,
    process, bounds, Goto, QuietSteps
<1>4. CASE CoordinatorExit \/ ServiceRestart
  <2>1. /\ Forget /\ UNCHANGED <<disk, caller, bounds>> /\ restartDue' \in BOOLEAN
    BY <1>4 DEF CoordinatorExit, ServiceRestart, ControlOK
  <2>2. DiskOK' /\ MemoryOK' /\ ControlOK' /\ pc' \in QuietSteps BY <2>1, ForgetType DEF DiskOK, disk
  <2> QED BY <2>1, <2>2, QuietFrame DEF disk
<1>5. CASE Crash
  <2>1. DiskOK' /\ UNCHANGED <<journal, dirs>> BY <1>5 DEF Crash, DiskOK, disk
  <2>3. crashes' \in 0 .. MaxCrashes BY <1>5, BoundsAssumption DEF Crash, ControlOK
  <2>4. ControlOK' BY <1>5, <2>3, BlankValues DEF Crash, Forget, ControlOK
  <2> QED
    BY <1>5, <2>1, <2>4, QuietFrame, BlankValues DEF Crash, Forget, MemoryOK, States, ValidStates, Checkable, Stable,
      QuietSteps
<1> QED BY <1>1, <1>2, <1>3, <1>4, <1>5

--------------------------------------------------------------------------------
(* Checks, acknowledgement and retirement *)

\* A failed operation's memory is still typed: the states a step may store.
LEMMA StoredStates ==
    /\ Checkable \subseteq States /\ Stable \subseteq States
    /\ {"updated", "rolled_back", "restart_pending", "rollback_restart_pending",
        "rollback_failed", "recovery_required"} \subseteq States
    /\ SettledStates \subseteq States
BY DEF States, ValidStates, Checkable, Stable, Pending, SettledStates, parseManifest

\* A step that changes neither the disk nor what the draft names.
LEMMA AdmissionStep ==
    ASSUME IInv, CheckRefused \/ CheckStable \/ CheckFails \/ InstallRestored
    PROVE  IInv'
<1> USE DEF IInv, TypeOK
<1>1. /\ UNCHANGED <<disk, mem, draft, todo, done, process, restartDue, bounds>>
      /\ pc' \in QuietSteps \/ (pc' = "check" /\ journal.phase = "none")
  BY DEF CheckRefused, CheckStable, CheckFails, InstallRestored, Fail, Goto, QuietSteps
<1> QED BY <1>1, QuietFrame, NoJournalFrame DEF DiskOK, MemoryOK, ControlOK, disk, mem, process, bounds

\* The journals of both acknowledgements carry the evidence of the pending one.
LEMMA AcknowledgeStep ==
    ASSUME IInv, AcknowledgeUpdate \/ AcknowledgeRollback
    PROVE  IInv'
<1> USE DEF IInv, TypeOK
<1>1. /\ UNCHANGED <<disk, lastApplied, rb, curDir, valid, todo, done, process, restartDue, bounds>>
      /\ lastState' \in States BY StoredStates DEF AcknowledgeUpdate, AcknowledgeRollback, MemoryOK
<1>2. draft' \in Journals
  <2>1. CASE AcknowledgeUpdate BY <2>1 DEF AcknowledgeUpdate, DiskOK, ControlOK, Journals, Phases, Acked
  <2>2. CASE AcknowledgeRollback
    <3>1. rb.ver \in Versions0 /\ rb.hash \in Pairs BY DEF MemoryOK, RbIds
    <3>2. journal \in Journals /\ draft \in Journals BY DEF DiskOK, ControlOK
    <3>3. [journal EXCEPT !.op = "rollback", !.phase = "rollback_acknowledged",
                          !.cand = rb.ver, !.cur = rb.ver, !.candHash = rb.hash] \in Journals
      BY <3>1, <3>2 DEF Journals, Phases, Acked
    <3> QED BY <2>2, <3>2, <3>3 DEF AcknowledgeRollback
  <2> QED BY <2>1, <2>2
<1>4. Evidence'
  <2>1. CASE pc' = "failing" BY <1>1, <2>1, QuietFrame DEF disk, QuietSteps
  <2>2. CASE pc' # "failing"
    <3>1. /\ pc' \in {"ack_journal", "rback_state"}
          /\ draft'.rbDir = journal.rbDir /\ draft'.rbHash = journal.rbHash
          /\ draft'.phase \in Acked
      BY <2>2 DEF AcknowledgeUpdate, AcknowledgeRollback, Goto, Fail, DiskOK, Journals, Acked
    <3> QED
      BY <1>1, <2>2, <3>1 DEF disk, Evidence, StepsPrepared, EvidenceIntact, Sound, Verified, Exists, JournalSteps,
        Acked, AcknowledgeUpdate, AcknowledgeRollback, Fail, Goto
  <2> QED BY <2>1, <2>2
<1> QED BY <1>1, <1>2, <1>4 DEF DiskOK, MemoryOK, ControlOK, disk, process, bounds

\* The durable writes of both acknowledgements.
LEMMA AckStep ==
    ASSUME IInv, AckJournal \/ AckState \/ AckReceipt \/ RollbackAckState \/ RollbackAckJournal
    PROVE  IInv'
<1> USE DEF IInv, TypeOK
<1>1. BoundsOK /\ stateFile \in StateFiles /\ journal \in Journals /\ draft \in Journals
  BY DEF BoundsOK, StateFiles, DiskOK, ControlOK
<1>2. UNCHANGED <<marker, markedReceipt, dirs, installed, mem, op, draft, todo, done, process,
                  restartDue>> BY DEF AckJournal, AckState, AckReceipt, RollbackAckState, RollbackAckJournal
<1>3. CASE AckJournal \/ RollbackAckJournal
  BY <1>3, <1>1, WriteJournalType, <1>2, QuietJournal DEF AckJournal, RollbackAckJournal, Goto, Fail, QuietSteps,
    WriteJournal, Evidence, StepsPrepared, JournalSteps, DiskOK, MemoryOK, ControlOK, BoundsOK, mem, process
<1>4. CASE AckState \/ RollbackAckState
  BY <1>4, <1>1, SaveStateType, <1>2, QuietFrame DEF AckState, RollbackAckState, MemoryOK, DiskOK, ControlOK,
    BoundsOK, StateFiles, mem, process, Goto, Fail, QuietSteps, Evidence, StepsPrepared, EvidenceIntact, Sound,
    Verified, Exists, JournalSteps
<1>5. CASE AckReceipt
  BY <1>1, <1>5, SpendType, <1>2, QuietFrame DEF AckReceipt, DiskOK, MemoryOK, Goto, Fail, QuietSteps, ControlOK,
    BoundsOK, mem, process
<1> QED BY <1>3, <1>4, <1>5

\* The journal is retired: what is not referenced any more may go.
LEMMA RetireStep ==
    ASSUME IInv, RetireMarker \/ RetireState \/ RetireUnlink \/ RetireCollect
    PROVE  IInv'
<1> USE DEF IInv, TypeOK
<1>1. BoundsOK /\ stateFile \in StateFiles BY DEF BoundsOK, StateFiles, DiskOK, ControlOK
<1>2. CASE RetireMarker
  <2>1. UNCHANGED <<stateFile, journal, receipt, dirs, installed, mem, draft, todo, done, process,
                    restartDue>> BY <1>2 DEF RetireMarker
  <2>5. markedReceipt' \in BOOLEAN BY <1>2 DEF RetireMarker, DiskOK
  <2> QED
    BY <1>1, <1>2, <2>1, <2>5, SpendType, QuietFrame DEF RetireMarker, Goto, Fail, QuietSteps, DiskOK, MemoryOK,
      ControlOK, BoundsOK, mem, process, bounds, Journals, Dirs0
<1>3. CASE RetireState
  BY <1>3, BlankValues, <1>1, SaveStateType, StoredStates, QuietFrame DEF RetireState, MemoryOK, DiskOK, ControlOK,
    BoundsOK, StateFiles, process, Goto, Fail, QuietSteps
<1>4. CASE RetireUnlink
  BY <1>4, ReceiptType, <1>1, SpendType, ChargeType, BlankValues, NoJournalFrame, QuietFrame DEF RetireUnlink,
    JournalRb, RbIds, DiskOK, Journals, MemoryOK, ControlOK, BoundsOK, StateFiles, process, AfterRetirement, Goto,
    Fail, QuietSteps, NoJournal
<1>5. CASE RetireCollect
  <2>1. CollectGarbage({}, 0) /\ UNCHANGED <<stateFile, journal, installed, mem, process, restartDue>>
    BY <1>5 DEF RetireCollect
  <2>2. DiskOK' /\ BoundsOK' BY <1>1, <2>1, CollectGarbageKeeps DEF DiskOK, DirTable
  <2>4. ControlOK' /\ pc' \in QuietSteps \cup {"check"}
    BY <1>5, <2>1, <2>2, ReturnType DEF RetireCollect, process, ControlOK, Goto, QuietSteps, BoundsOK
  <2> QED BY <1>5, <2>1, <2>2, <2>4, NoJournalFrame DEF MemoryOK, mem, RetireCollect, Evidence, StepsPrepared
<1> QED BY <1>2, <1>3, <1>4, <1>5

\* Looking for a release, without a journal.
LEMMA CheckStep ==
    ASSUME IInv, CheckSettles \/ OpenTransaction \/ Download
    PROVE  IInv'
<1> USE DEF IInv, TypeOK
<1>1. BoundsOK /\ stateFile \in StateFiles /\ dirs \in DirTable
  BY DEF BoundsOK, StateFiles, DirTable, DiskOK, ControlOK
<1>2. CASE CheckSettles
  <2>1. UNCHANGED <<journal, receipt, marker, markedReceipt, dirs, installed, lastApplied, rb,
                    curDir, valid, process, restartDue>> BY <1>2 DEF CheckSettles
  <2>2. PICK s \in SettledStates, o \in Outcomes :
            /\ SaveState(o, s, lastApplied, rb) /\ lastState' = s
            /\ Return \/ (Fail("recovery_required") /\ UNCHANGED <<draft, todo, done>>)
    BY <1>2 DEF CheckSettles, SettledStates, parseManifest
  <2>3. stateFile' \in StateFiles /\ BoundsOK' /\ lastState' \in States
    BY <1>1, <2>2, SaveStateType, StoredStates DEF MemoryOK
  <2>4. ControlOK' /\ pc' \in QuietSteps
    BY <2>1, <2>3, ReturnType, <2>2 DEF process, ControlOK, Fail, QuietSteps, BoundsOK
  <2> QED BY <2>1, <2>3, <2>4, QuietFrame DEF DiskOK, MemoryOK, StateFiles
<1>3. CASE OpenTransaction
  <2>1. UNCHANGED <<stateFile, journal, receipt, marker, markedReceipt, installed, mem, todo, done,
                    process, restartDue, bounds>> /\ pc' = "download" /\ pc = "check"
    BY <1>3 DEF OpenTransaction, Goto
  <2>2. PICK v \in Versions, d \in DirIds :
            /\ dirs' = MakeDir(d, "transaction", Blank)
            /\ draft' = [NoJournal EXCEPT !.op = "update", !.phase = "prepared",
                                          !.cand = v, !.cur = running, !.tx = d] BY <1>3 DEF OpenTransaction
  <2>3. dirs' \in DirTable /\ dirs'[d].kind = "transaction" BY BlankValues, <1>1, <2>2, MakeDirType DEF DirKinds
  <2>4. draft' \in Journals /\ draft'.tx = d /\ draft'.cand = v
    BY <2>2, BlankValues DEF Journals, Phases, ControlOK, Versions0, Dirs0
  <2> QED
    BY <2>1, <2>3, <2>4 DEF DiskOK, DirTable, MemoryOK, ControlOK, mem, process, bounds, Evidence, StepsPrepared,
      EvidenceIntact, Exists, JournalSteps
<1>4. CASE Download
  <2>1. UNCHANGED <<stateFile, journal, receipt, marker, markedReceipt, installed, mem, draft, todo,
                    done, process, restartDue, bounds>> /\ pc' = "backup" /\ pc = "download"
    BY <1>4 DEF Download, Goto
  <2>2. /\ journal.phase = "none" /\ draft.tx \in DirIds /\ dirs[draft.tx].kind # "none"
        /\ draft.cand \in Versions BY <2>1 DEF Evidence, StepsPrepared, Exists
  <2>5. dirs' \in DirTable /\ dirs'[draft.tx].kind # "none" /\ dirs'[draft.tx].pair # Blank
    BY <1>1, <1>4, <2>2, CompletePairs DEF DirTable, Download
  <2> QED
    BY <2>1, <2>2, <2>5 DEF DiskOK, DirTable, MemoryOK, ControlOK, mem, process, bounds, Evidence, StepsPrepared,
      EvidenceIntact, Complete, Exists, JournalSteps
<1> QED BY <1>2, <1>3, <1>4

--------------------------------------------------------------------------------
(* install() *)

\* Staging that no journal names is given up.
LEMMA DiscardStep ==
    ASSUME IInv, DownloadFails \/ BackupFails \/ InstallDiscard
    PROVE  IInv'
<1> USE DEF IInv, TypeOK
<1>1. PICK staging \in SUBSET DirIds, n \in {0, 1} : Discard(staging, n)
  BY DEF DownloadFails, Evidence, StepsPrepared, Exists, BackupFails, InstallDiscard
<1>2. /\ CollectGarbage(staging, n) /\ n \in Nat /\ pc' = "failing"
      /\ UNCHANGED <<stateFile, journal, installed, mem, draft, todo, done, process, restartDue>>
  BY <1>1 DEF Discard, Fail
<1>3. BoundsOK BY DEF BoundsOK, ControlOK
<1>4. DiskOK' /\ BoundsOK' BY <1>2, <1>3, CollectGarbageKeeps DEF DiskOK, DirTable
<1> QED BY <1>2, <1>3, <1>4, QuietGarbage DEF MemoryOK, ControlOK, BoundsOK, mem, process, QuietSteps

\* Backup and the first journal.
LEMMA PrepareStep ==
    ASSUME IInv, Backup \/ InstallPrepared \/ InstallPreparedUnsynced
    PROVE  IInv'
<1> USE DEF IInv, TypeOK
<1>1. BoundsOK /\ stateFile \in StateFiles /\ dirs \in DirTable
      /\ journal \in Journals /\ draft \in Journals BY DEF BoundsOK, StateFiles, DirTable, DiskOK, ControlOK
<1>2. CASE Backup
  <2>1. UNCHANGED <<stateFile, journal, receipt, marker, markedReceipt, installed, mem, todo, done,
                    process, restartDue, bounds>> /\ pc' = "inst_prepared" /\ pc = "backup" BY <1>2 DEF Backup, Goto
  <2>2. PICK d \in DirIds :
            /\ Fresh(d) /\ dirs' = MakeDir(d, "rollback", installed)
            /\ draft' = [draft EXCEPT !.rbDir = d, !.rbHash = installed,
                                      !.candHash = dirs[draft.tx].pair] BY <1>2 DEF Backup
  <2>3. /\ journal.phase = "none" /\ draft.tx \in DirIds /\ dirs[draft.tx].kind # "none"
        /\ dirs[draft.tx].pair # Blank BY <2>1 DEF Evidence, StepsPrepared, Complete, Exists
  <2>4. installed \in Pairs /\ installed # Blank /\ "rollback" \in DirKinds BY CompletePairs DEF DiskOK, DirKinds
  <2>5. /\ dirs' \in DirTable /\ dirs'[d].kind # "none" /\ dirs'[d].pair = installed
        /\ dirs'[draft.tx] = dirs[draft.tx] BY <2>2, <2>3, <1>1, <2>4, MakeDirType DEF Fresh
  <2>6. dirs[draft.tx].pair \in Pairs BY <1>1, <2>3 DEF DirTable
  <2>7. /\ draft' \in Journals /\ draft'.tx = draft.tx
        /\ draft'.rbDir = d /\ draft'.rbHash = installed /\ draft'.phase = draft.phase
        /\ draft'.prevDir = draft.prevDir BY <1>1, <2>2, <2>4, <2>6 DEF Journals, Dirs0
  <2> QED
    BY <2>1, <2>2, <2>3, <2>4, <2>5, <2>7 DEF DiskOK, DirTable, MemoryOK, ControlOK, mem, process, bounds, Evidence,
      StepsPrepared, EvidenceIntact, Complete, Exists, JournalSteps, Sound, Verified, Fresh
<1>3. CASE InstallPrepared
  BY <1>3, <1>1, WriteJournalType DEF InstallPrepared, Goto, MemoryOK, RbIds, Journals, WriteJournal, DiskOK,
    ControlOK, BoundsOK, process, Evidence, StepsPrepared, EvidenceIntact, Sound, Verified, Complete, Exists,
    JournalSteps
<1>4. CASE InstallPreparedUnsynced
  BY <1>4, <1>1, WriteJournalType, QuietJournal DEF InstallPreparedUnsynced, Goto, WriteJournal, Evidence,
    StepsPrepared, JournalSteps, DiskOK, MemoryOK, ControlOK, BoundsOK, mem, process, QuietSteps
<1> QED BY <1>2, <1>3, <1>4

\* Files are replaced, and put back, from complete pairs only.
LEMMA ReplaceStep ==
    ASSUME IInv, InstallReplace \/ InstallRestore
    PROVE  IInv'
<1> USE DEF IInv, TypeOK
<1>1. BoundsOK /\ dirs \in DirTable /\ installed \in [Files -> Versions] BY DEF BoundsOK, DirTable, DiskOK, ControlOK
<1>2. CASE InstallReplace
  <2>1. UNCHANGED <<stateFile, journal, receipt, marker, markedReceipt, dirs, mem, draft, process,
                    restartDue>> /\ pc = "inst_replace" /\ pc' \in {"inst_replace", "inst_restore"}
    BY <1>2 DEF InstallReplace, Goto
  <2>2. PICK f \in todo, o \in Outcomes :
            /\ Spend(o)
            /\ installed' = IF o = "lost" THEN installed
                            ELSE [installed EXCEPT ![f] = dirs[draft.tx].pair[f]]
            /\ done' = IF o = "lost" THEN done ELSE done \cup {f}
            /\ todo' = IF o = "ok" THEN todo \ {f} ELSE {} BY <1>2 DEF InstallReplace
  <2>5. f \in Files BY DEF ControlOK
  <2>7. BoundsOK' BY <1>1, <2>2, SpendType
  <2>9. DiskOK' /\ MemoryOK' /\ ControlOK'
    BY <1>1, <2>1, <2>2, <2>5, <2>7, CompletePairs DEF DiskOK, MemoryOK, ControlOK, BoundsOK, mem, process, DirTable,
      Evidence, StepsPrepared, Complete, Exists
  <2> QED BY <2>1, <2>9 DEF Evidence, StepsPrepared, EvidenceIntact, Sound, Verified, Complete, Exists, JournalSteps
<1>3. CASE InstallRestore
  <2>1. UNCHANGED <<stateFile, journal, receipt, marker, markedReceipt, dirs, lastApplied, rb,
                    curDir, valid, draft, todo, process, restartDue>>
        /\ pc = "inst_restore" /\ pc' \in {"inst_restore", "failing"} BY <1>3 DEF InstallRestore, Goto, Fail
  <2>2. PICK f \in done, o \in Outcomes :
            /\ Spend(o)
            /\ installed' = IF o = "lost" THEN installed
                            ELSE [installed EXCEPT ![f] = dirs[draft.rbDir].pair[f]]
            /\ done' \in {done, done \ {f}} /\ lastState' \in {lastState, "recovery_required"}
    BY <1>3 DEF InstallRestore
  <2>9. DiskOK' /\ MemoryOK' /\ ControlOK'
    BY <1>1, <2>1, <2>2, CompletePairs, StoredStates, SpendType DEF DiskOK, MemoryOK, ControlOK, BoundsOK, process,
      DirTable, Evidence, StepsPrepared, Sound, Verified, Exists, JournalSteps
  <2> QED BY <2>1, <2>9 DEF Evidence, StepsPrepared, EvidenceIntact, Sound, Verified, Complete, Exists, JournalSteps
<1> QED BY <1>2, <1>3

\* The journal and the receipts after the replacement.
LEMMA PublishStep ==
    ASSUME IInv,
           InstallReplaced \/ InstallReceipt \/ InstallPending \/ InstallPublish
           \/ InstallRestart \/ InstallCommit
    PROVE  IInv'
<1> USE DEF IInv, TypeOK
<1>1. BoundsOK /\ stateFile \in StateFiles /\ journal \in Journals /\ draft \in Journals
  BY DEF BoundsOK, StateFiles, DiskOK, ControlOK
<1>2. CASE InstallReplaced \/ InstallPending
  BY <1>2, <1>1, WriteJournalType, StoredStates DEF InstallReplaced, InstallPending, InstallStep, Goto, Fail,
    Journals, Phases, Pending, WriteJournal, MemoryOK, DiskOK, ControlOK, BoundsOK, process, Evidence, StepsPrepared,
    Sound, Verified, Exists, JournalSteps, EvidenceIntact
<1>3. CASE InstallReceipt \/ InstallPublish
  <2>1. /\ UNCHANGED <<journal, receipt, marker, markedReceipt, dirs, installed, lastApplied,
                       curDir, valid, draft, todo, done, process, restartDue>>
        /\ pc \in {"inst_receipt", "inst_publish"}
        /\ pc' \in {"inst_pending", "inst_restart", "failing"}
        /\ pc' = "inst_pending" => pc = "inst_receipt"
    BY <1>3 DEF InstallReceipt, InstallPublish, InstallStep, Goto, Fail
  <2>2. rb' \in RbIds BY <1>1, <1>3 DEF InstallReceipt, InstallPublish, MemoryOK, ControlOK, RbIds, Journals
  <2>3. PICK o \in Outcomes : SaveState(o, lastState, lastApplied, rb') BY <1>3 DEF InstallReceipt, InstallPublish
  <2> QED
    BY <1>1, <1>3, <2>1, <2>2, <2>3, StoredStates, SaveStateType DEF Evidence, StepsPrepared, EvidenceIntact, Sound,
      Verified, Exists, JournalSteps, DiskOK, MemoryOK, ControlOK, BoundsOK, StateFiles, process, InstallReceipt,
      InstallPublish
<1>4. CASE InstallRestart
  <2>1. UNCHANGED <<journal, receipt, marker, markedReceipt, dirs, installed, lastApplied, rb,
                    curDir, draft, todo, done, process>>
        /\ pc' \in QuietSteps /\ restartDue' \in BOOLEAN BY <1>4 DEF InstallRestart, Goto, Fail, QuietSteps, ControlOK
  <2>2. lastState' \in States /\ valid' \in BOOLEAN BY <1>4, StoredStates DEF InstallRestart, MemoryOK
  <2> QED
    BY <1>1, <1>4, <2>1, <2>2, ReceiptType, StoredStates, SpendType, ChargeType, QuietFrame DEF DiskOK, MemoryOK,
      ControlOK, BoundsOK, StateFiles, process, InstallRestart
<1>5. CASE InstallCommit
  <2>1. UNCHANGED <<journal, receipt, marker, markedReceipt, dirs, installed, mem, caller, running,
                    restartDue>> BY <1>5 DEF InstallCommit
  <2>2. PICK o \in Outcomes :
            /\ SaveState(o, lastState, lastApplied, rb)
            /\ \/ Return /\ timer' = FALSE
               \/ Fail("recovery_required") /\ UNCHANGED <<draft, todo, done, timer>> BY <1>5 DEF InstallCommit
  <2>3. stateFile' \in StateFiles /\ BoundsOK' BY <1>1, <2>2, SaveStateType DEF MemoryOK
  <2>4. ControlOK' /\ pc' \in QuietSteps
    <3>1. CASE Return /\ timer' = FALSE BY <2>1, <2>3, <3>1, ReturnType DEF ControlOK
    <3>2. CASE Fail("recovery_required") /\ UNCHANGED <<draft, todo, done, timer>>
      BY <2>1, <2>3, <3>2 DEF Fail, QuietSteps, ControlOK, BoundsOK
    <3> QED BY <2>2, <3>1, <3>2
  <2> QED BY <2>1, <2>3, <2>4, QuietFrame DEF DiskOK, MemoryOK, StateFiles, mem
<1> QED BY <1>2, <1>3, <1>4, <1>5

--------------------------------------------------------------------------------
(* rollback() *)

\* Admission, and a restart that is only repeated.
LEMMA RollbackAdmissionStep ==
    ASSUME IInv, RollbackRequested \/ RollbackRefused \/ RollbackRestartAgain
    PROVE  IInv'
<1> USE DEF IInv, TypeOK
<1>1. BoundsOK /\ stateFile \in StateFiles BY DEF BoundsOK, StateFiles, DiskOK, ControlOK
<1>2. CASE RollbackRequested \/ RollbackRefused
  BY <1>2, StoredStates, QuietFrame DEF RollbackRequested, RollbackRefused, Goto, Fail, QuietSteps, MemoryOK, mem,
    DiskOK, ControlOK, disk, process, bounds
<1>3. CASE RollbackRestartAgain
  <2>1. /\ UNCHANGED <<journal, receipt, marker, markedReceipt, dirs, installed, lastApplied, rb,
                       curDir, process>>
        /\ Return BY <1>3 DEF RollbackRestartAgain
  <2>4. lastState' \in States /\ valid' \in BOOLEAN /\ restartDue' \in BOOLEAN
    BY <1>3, StoredStates DEF RollbackRestartAgain, MemoryOK, ControlOK
  <2> QED
    BY <1>1, <1>3, <2>1, <2>4, ReceiptType, StoredStates, SpendType, ChargeType, ReturnType, QuietFrame DEF process,
      ControlOK, RollbackRestartAgain, DiskOK, MemoryOK, StateFiles
<1> QED BY <1>2, <1>3

\* The journal under construction: a new one, or the one an interrupted
\* operation left.
LEMMA RollbackOpenStep ==
    ASSUME IInv, RollbackSynthesize \/ RollbackAdopt
    PROVE  IInv'
<1> USE DEF IInv, TypeOK
<1>1. BoundsOK /\ dirs \in DirTable /\ journal \in Journals /\ draft \in Journals /\ rb \in RbIds
  BY DEF BoundsOK, DirTable, DiskOK, ControlOK, MemoryOK
<1>2. Verified(rb.dir, rb.hash) /\ (journal.phase # "none" => JournalRb = rb)
  BY DEF RollbackSynthesize, RollbackAdopt, RollbackMayStart, RollbackAdmitted, JournalBoundToRollback
<1>3. CASE RollbackSynthesize
  <2>1. /\ UNCHANGED <<stateFile, journal, receipt, marker, markedReceipt, installed, mem, todo,
                       done, process, restartDue>>
        /\ journal.phase = "none" BY <1>3 DEF RollbackSynthesize
  <2>2. BoundsOK' BY <1>1, <1>3, SpendType DEF RollbackSynthesize
  <2>3. CASE pc' = "failing"
    BY <1>3, <2>3, <2>1, <2>2, QuietFrame DEF RollbackSynthesize, Goto, DiskOK, MemoryOK, ControlOK, BoundsOK, mem,
      process, QuietSteps
  <2>4. CASE pc' # "failing"
    <3>1. pc' = "rb_stage" BY <1>3, <2>4 DEF RollbackSynthesize, Goto, Fail
    <3>2. PICK d \in DirIds :
              /\ Fresh(d) /\ dirs' = MakeDir(d, "recovery-receipt", Blank)
              /\ draft' = [NoJournal EXCEPT !.op = "rollback", !.phase = "acknowledged",
                              !.cand = rb.ver, !.cur = rb.ver, !.tx = d, !.rbDir = rb.dir,
                              !.rbHash = rb.hash, !.candHash = rb.hash] BY <1>3, <2>4 DEF RollbackSynthesize, Fail
    <3>3. rb.ver \in Versions0 /\ rb.dir \in Dirs0 /\ rb.hash \in Pairs /\ d \in Dirs0 BY <1>1 DEF RbIds, Dirs0
    <3>4. /\ draft' \in Journals /\ draft'.rbDir = rb.dir /\ draft'.rbHash = rb.hash
          /\ draft'.phase = "acknowledged" BY <3>2, <3>3, BlankValues DEF Journals, Phases, Acked
    <3>5. dirs' \in DirTable /\ dirs'[rb.dir] = dirs[rb.dir]
      BY BlankValues, <1>2, <3>2, <1>1, MakeDirType DEF DirKinds, Verified, Exists, Fresh
    <3> QED
      BY <1>2, <2>1, <2>2, <3>1, <3>4, <3>5 DEF DiskOK, DirTable, MemoryOK, ControlOK, BoundsOK, mem, process,
        Evidence, StepsPrepared, EvidenceIntact, JournalSteps, Sound, Verified, Exists
  <2> QED BY <2>3, <2>4
<1>4. CASE RollbackAdopt
  BY <1>4, <1>1, QuietFrame, <1>2 DEF RollbackAdopt, MemoryOK, Journals, DiskOK, ControlOK, disk, process, bounds,
    QuietSteps, Evidence, StepsPrepared, EvidenceIntact, Sound, JournalRb, Verified, Complete, Goto, Fail, Exists,
    JournalSteps
<1> QED BY <1>3, <1>4

\* The copy of the current pair, and the intent.
LEMMA RollbackStageStep ==
    ASSUME IInv, RollbackStage \/ RollbackJournal
    PROVE  IInv'
<1> USE DEF IInv, TypeOK
<1>1. BoundsOK /\ dirs \in DirTable /\ journal \in Journals /\ draft \in Journals /\ rb \in RbIds
  BY DEF BoundsOK, DirTable, DiskOK, ControlOK, MemoryOK
<1>2. /\ pc \in {"rb_stage", "rb_journal"} /\ Sound(draft)
      /\ draft.rbDir = rb.dir /\ draft.rbHash = rb.hash
      /\ journal.phase # "none" => Sound(journal) /\ journal.rbDir = rb.dir
  BY DEF RollbackStage, RollbackJournal, Evidence, StepsPrepared, EvidenceIntact, Sound, JournalSteps
<1>3. CASE RollbackStage
  <2>1. UNCHANGED <<stateFile, journal, receipt, marker, markedReceipt, installed, lastState,
                    lastApplied, rb, valid, todo, done, process, restartDue>> BY <1>3 DEF RollbackStage
  <2>2. BoundsOK' BY <1>1, <1>3, SpendType DEF RollbackStage
  <2>3. CASE pc' = "failing"
    BY <1>3, <2>3, <2>1, <2>2, QuietFrame DEF RollbackStage, Goto, DiskOK, MemoryOK, ControlOK, BoundsOK, process,
      QuietSteps
  <2>4. CASE pc' # "failing"
    <3>1. pc' = "rb_journal" BY <1>3, <2>4 DEF RollbackStage, Goto, Fail
    <3>2. PICK d \in DirIds :
              /\ Fresh(d) /\ dirs' = MakeDir(d, "rollback-current", installed) /\ curDir' = d
              /\ draft' = [draft EXCEPT !.prevDir = d, !.prevHash = installed] BY <1>3, <2>4 DEF RollbackStage, Fail
    <3>3. installed \in Pairs /\ installed # Blank /\ "rollback-current" \in DirKinds
      BY CompletePairs DEF DiskOK, DirKinds
    <3>4. /\ draft' \in Journals /\ draft'.rbDir = draft.rbDir /\ draft'.rbHash = draft.rbHash
          /\ draft'.prevDir = d /\ d \in Dirs0 BY <1>1, <3>2, <3>3 DEF Journals, Dirs0
    <3>5. d # rb.dir /\ rb.dir \in DirIds BY <1>2, <3>2 DEF Sound, Verified, Exists, Fresh
    <3>6. /\ dirs' \in DirTable /\ dirs'[rb.dir] = dirs[rb.dir]
          /\ dirs'[d].kind # "none" /\ dirs'[d].pair = installed BY <1>1, <3>2, <3>3, <3>5, MakeDirType
    <3>10. Evidence'
      BY <1>2, <2>1, <3>1, <3>2, <3>3, <3>4, <3>5, <3>6 DEF Evidence, StepsPrepared, EvidenceIntact, Sound,
        JournalSteps, Complete, Verified, Exists
    <3> QED BY <2>1, <2>2, <3>2, <3>4, <3>6, <3>10 DEF DiskOK, DirTable, MemoryOK, ControlOK, BoundsOK, process
  <2> QED BY <2>3, <2>4
<1>4. CASE RollbackJournal
  <2>1. /\ UNCHANGED <<stateFile, receipt, marker, markedReceipt, installed, lastState, lastApplied,
                       rb, valid, process, restartDue>>
        /\ pc = "rb_journal" BY <1>4 DEF RollbackJournal
  <2>2. draft' = [draft EXCEPT !.op = "rollback", !.phase = "rollback_restart_pending",
                               !.cand = rb.ver, !.cur = rb.ver, !.rbHash = rb.hash,
                               !.candHash = rb.hash, !.prevDir = curDir] BY <1>4 DEF RollbackJournal
  <2>3. rb.ver \in Versions0 /\ rb.hash \in Pairs /\ curDir \in Dirs0 BY DEF MemoryOK, RbIds
  <2>4. /\ draft' \in Journals /\ draft'.rbDir = rb.dir /\ draft'.rbHash = rb.hash
        /\ draft'.prevDir = curDir BY <1>1, <1>2, <2>2, <2>3 DEF Journals, Phases, Pending
  <2>5. Complete(curDir) /\ curDir # rb.dir BY <2>1 DEF Evidence, StepsPrepared
  <2>6. Sound(draft') BY <1>2, <2>4, <2>5 DEF Sound, Verified, Exists
  <2>7. PICK o \in Outcomes :
            /\ WriteJournal(o, draft')
            /\ IF o = "ok"
               THEN /\ todo' = Files /\ done' = {} /\ pc' = "rb_replace"
                    /\ UNCHANGED <<dirs, curDir>>
               ELSE /\ dirs' = [dirs EXCEPT ![curDir] = Gone] /\ curDir' = NoDir
                    /\ pc' = "failing" /\ UNCHANGED <<todo, done>> BY <1>4 DEF RollbackJournal, Goto, Fail
  <2>8. journal' \in Journals /\ BoundsOK' /\ journal' \in {journal, draft'}
    BY <1>1, <2>4, <2>7, WriteJournalType DEF WriteJournal
  <2>9. dirs' \in DirTable /\ dirs'[rb.dir] = dirs[rb.dir]
    BY <1>2, <2>5, <1>1, <2>7, BlankValues DEF Sound, Verified, Complete, Exists, DirTable
  <2>14. Evidence'
    BY <1>2, <2>1, <2>4, <2>5, <2>6, <2>7, <2>8, <2>9 DEF Complete, Exists, Evidence, StepsPrepared, EvidenceIntact,
      Sound, JournalSteps, Verified
  <2> QED
    BY <2>1, <2>3, <2>4, <2>7, <2>8, <2>9, <2>14, BlankValues DEF DiskOK, DirTable, MemoryOK, ControlOK, BoundsOK,
      process
<1> QED BY <1>3, <1>4

\* The pair is replaced, or put back, from complete pairs only.
LEMMA RollbackReplaceStep ==
    ASSUME IInv, RollbackReplace \/ RollbackUndo
    PROVE  IInv'
<1> USE DEF IInv, TypeOK
<1>1. BoundsOK /\ dirs \in DirTable /\ installed \in [Files -> Versions] BY DEF BoundsOK, DirTable, DiskOK, ControlOK
<1>2. /\ UNCHANGED <<stateFile, journal, receipt, marker, markedReceipt, dirs, mem, draft, process,
                     restartDue>>
      /\ pc \in {"rb_replace", "rb_undo"}
      /\ pc' \in {"rb_replace", "rb_undo"} /\ (pc = "rb_undo" => pc' = "rb_undo")
  BY DEF RollbackReplace, RollbackUndo, Goto
<1>3. Complete(curDir) /\ (pc = "rb_replace" => Complete(rb.dir))
  BY <1>2 DEF Evidence, StepsPrepared, Sound, JournalSteps, Verified, Complete, Exists
<1>4. /\ dirs[curDir].pair \in [Files -> Versions]
      /\ pc = "rb_replace" => dirs[rb.dir].pair \in [Files -> Versions]
  BY <1>1, <1>3, CompletePairs DEF Complete, Exists, DirTable
<1> QED
  BY <1>1, <1>2, <1>4, SpendType DEF Evidence, StepsPrepared, EvidenceIntact, Sound, Verified, Complete, Exists,
    JournalSteps, mem, DiskOK, MemoryOK, ControlOK, BoundsOK, process, RollbackReplace, RollbackUndo

\* The journal after the replacement or its undoing.
LEMMA RollbackCommitStep ==
    ASSUME IInv, RollbackCommit \/ RollbackUndone
    PROVE  IInv'
<1> USE DEF IInv, TypeOK
<1>1. BoundsOK /\ journal \in Journals /\ draft \in Journals BY DEF BoundsOK, DiskOK, ControlOK
<1>2. /\ UNCHANGED <<stateFile, receipt, marker, markedReceipt, dirs, installed, lastApplied, rb,
                     curDir, valid, todo, done, process, restartDue>>
      /\ pc \in {"rb_replace", "rb_undo"} BY DEF RollbackCommit, RollbackUndone, mem
<1>4. draft' \in Journals /\ draft'.rbDir = draft.rbDir /\ draft'.rbHash = draft.rbHash
      /\ draft'.prevDir = draft.prevDir /\ draft'.phase \in {draft.phase, "replaced"}
  BY <1>1 DEF RollbackCommit, RollbackUndone, Journals, Phases
<1>7. journal' \in Journals /\ BoundsOK' /\ journal' \in {journal, draft'}
  BY <1>1, <1>4, WriteJournalType DEF bounds, BoundsOK, WriteJournal, RollbackCommit, RollbackUndone
<1>11. Evidence'
  BY <1>2, <1>4, <1>7, QuietJournal DEF Evidence, StepsPrepared, EvidenceIntact, Sound, Verified, Complete, Exists,
    JournalSteps, RollbackCommit, RollbackUndone, Goto, Fail, QuietSteps
<1> QED
  BY <1>2, <1>4, <1>7, <1>11, StoredStates DEF DiskOK, MemoryOK, ControlOK, BoundsOK, process, RollbackCommit,
    RollbackUndone, mem

\* The last writes of an operation: the state, and nothing else on disk.
LEMMA FinishStep ==
    ASSUME IInv, RollbackPublish \/ RollbackRestart \/ FailureSaves
    PROVE  IInv'
<1> USE DEF IInv, TypeOK
<1>1. BoundsOK /\ stateFile \in StateFiles BY DEF BoundsOK, StateFiles, DiskOK, ControlOK
<1>2. UNCHANGED <<journal, receipt, marker, markedReceipt, dirs, installed, rb, curDir, process>>
  BY DEF RollbackPublish, RollbackRestart, FailureSaves
<1>3. FailureState \in States BY DEF FailureState, MemoryOK, States, ValidStates, Checkable, Stable
<1>4. lastState' \in States /\ lastApplied' \in Versions0
  BY <1>3, StoredStates DEF RollbackPublish, RollbackRestart, FailureSaves, MemoryOK, RbIds
<1>5. valid' \in BOOLEAN /\ restartDue' \in BOOLEAN
  BY DEF RollbackPublish, RollbackRestart, FailureSaves, MemoryOK, ControlOK
<1>6. stateFile' \in StateFiles /\ BoundsOK'
  <2>1. CASE RollbackPublish BY <2>1, <1>1, SaveStateType, StoredStates DEF RollbackPublish, MemoryOK, RbIds
  <2>2. CASE RollbackRestart
    BY ReceiptType, StoredStates, <1>1, <2>2, SpendType, ChargeType DEF MemoryOK, RollbackRestart
  <2>3. CASE FailureSaves BY <1>3, ReceiptType, <2>3, <1>1, ChargeType DEF MemoryOK, FailureSaves
  <2> QED BY <2>1, <2>2, <2>3
<1>8. ControlOK' /\ pc' \in QuietSteps
  <2>1. CASE Return BY <1>2, <1>5, <1>6, <2>1, ReturnType DEF process, ControlOK
  <2>2. CASE ~Return
    <3>1. pc' = "rb_restart" /\ UNCHANGED <<draft, todo, done>>
      BY <2>2 DEF RollbackPublish, RollbackRestart, FailureSaves, Goto
    <3> QED BY <1>2, <1>5, <1>6, <3>1 DEF ControlOK, BoundsOK, process, QuietSteps
  <2> QED BY <2>1, <2>2
<1> QED BY <1>2, <1>4, <1>5, <1>6, <1>8, QuietFrame DEF DiskOK, MemoryOK, StateFiles

--------------------------------------------------------------------------------
(* Theorems *)

\* Every step of the updater, of its process and of its environment preserves
\* the inductive invariant.
LEMMA NextIInv == IInv /\ [Next]_vars => IInv'
<1> SUFFICES ASSUME IInv, [Next]_vars PROVE IInv' OBVIOUS
<1>1. CASE UNCHANGED vars
  BY <1>1 DEF vars, disk, mem, locals, process, bounds, IInv, TypeOK, DiskOK, MemoryOK, ControlOK, Evidence,
    StepsPrepared, EvidenceIntact, Sound, Verified, Complete, Exists
<1>2. CASE StartDaemon \/ StartCoordinator \/ ServiceRestart \/ Crash BY <1>2, ProcessStep
<1>3. CASE CheckAndApply BY <1>3, AdmissionStep, AcknowledgeStep DEF CheckAndApply
<1>4. CASE RollbackRequested BY <1>4, RollbackAdmissionStep
<1>5. CASE Progress
  BY ProcessStep, AckStep, RetireStep, CheckStep, AdmissionStep, DiscardStep, PrepareStep, ReplaceStep, PublishStep,
    RollbackAdmissionStep, RollbackOpenStep, RollbackStageStep, RollbackReplaceStep, RollbackCommitStep, FinishStep,
    <1>5 DEF Acknowledge, Retire, Check, Install, RestoreRollback, Progress
<1> QED BY <1>1, <1>2, <1>3, <1>4, <1>5 DEF Next

\* The inductive invariant holds in every behaviour of the updater, for every
\* instance of the constants.
THEOREM Invariance == Spec => []IInv
BY InitIInv, NextIInv, PTL DEF Spec

\* Type correctness of the durable files, the memory and the control state;
\* in particular every installed file is always one of a released version.
THEOREM TypeCorrect == Spec => []TypeOK
<1>1. IInv => TypeOK BY DEF IInv
<1> QED BY <1>1, Invariance, PTL

\* Every step finds on disk what it relies on: replacements read complete pairs
\* and journals are written over verified rollback directories.
THEOREM Preparation == Spec => []StepsPrepared
<1>1. IInv => StepsPrepared BY DEF IInv, Evidence
<1> QED BY <1>1, Invariance, PTL

\* As long as a journal exists, the rollback directory it names holds exactly
\* the pair its receipt describes, whatever fails and whenever the process dies.
THEOREM EvidenceIsIntact == Spec => []EvidenceIntact
<1>1. IInv => EvidenceIntact BY DEF IInv, Evidence
<1> QED BY <1>1, Invariance, PTL

--------------------------------------------------------------------------------
(* The installed pair and its journal                                      *)

\* The receipts of a pair, in files and in memory, are of one version each.
ReceiptsCoherent ==
    /\ Coherent(stateFile.rb.hash) /\ Coherent(rb.hash)
    /\ \A j \in {journal, draft} : Coherent(j.rbHash) /\ Coherent(j.candHash)

\* The phases in which the installed pair may be mixed.
Open == {"prepared", "replaced", "rollback_restart_pending"}

\* What the phase of the journal says of the installed pair.
JournalledPair ==
    /\ journal.phase \notin Open => Coherent(installed)
    /\ journal.phase \in {"restart_pending"} \cup Acked => installed = journal.candHash
    /\ journal.phase \in {"restart_pending", "acknowledged"} =>
           journal.op = "update" /\ journal.candHash = Uniform(journal.cand)
    /\ journal.phase = "rollback_restart_pending" => journal.candHash = journal.rbHash

\* install() between its durable steps.
InstallStory ==
    /\ pc \in {"download", "backup", "inst_prepared", "inst_discard", "inst_replace", "inst_restore",
               "inst_receipt", "inst_pending"} => draft.op = "update" /\ draft.cur = running
    /\ pc \in {"download", "backup", "inst_prepared", "inst_replace"} => draft.phase = "prepared"
    /\ pc \in {"backup", "inst_prepared", "inst_replace"} => dirs[draft.tx].pair = Uniform(draft.cand)
    /\ pc \in {"inst_prepared", "inst_replace", "inst_receipt", "inst_pending"} =>
           draft.candHash = Uniform(draft.cand)
    /\ pc \in {"inst_replace", "inst_restore"} => journal.phase = "prepared"
    /\ pc \in {"inst_replace", "inst_receipt", "inst_pending"} => rb.hash = draft.rbHash
    /\ pc = "inst_replace" => \A f \in Files \ todo : installed[f] = draft.candHash[f]
    /\ pc \in {"inst_receipt", "inst_pending"} => journal.phase = "replaced" /\ installed = draft.candHash
    /\ pc = "inst_pending" => rb.dir = draft.rbDir /\ rb.ver = running
    /\ pc \in {"inst_publish", "inst_restart", "inst_commit"} => journal.phase = "restart_pending"

\* restoreRollback() between its durable steps.
RollbackStory ==
    /\ pc \in {"rb_replace", "rb_undo", "rb_publish", "rb_restart"} =>
           /\ journal.phase = "rollback_restart_pending" /\ journal.candHash = rb.hash
    /\ pc = "rb_replace" =>
           /\ draft.phase = "rollback_restart_pending"
           /\ draft.candHash = rb.hash /\ draft.rbHash = rb.hash
           /\ \A f \in Files \ todo : installed[f] = rb.hash[f]
    /\ pc \in {"rb_publish", "rb_restart"} => installed = rb.hash

\* The acknowledgements and the retirement between their durable steps.
AcknowledgeStory ==
    /\ pc \in {"ack_journal", "ack_state", "ack_receipt", "rback_state", "rback_journal",
               "ret_marker", "ret_state", "ret_unlink"} => valid
    /\ pc = "ack_journal" =>
           /\ journal.phase = "restart_pending" /\ lastState = "updated" /\ lastApplied = draft.cand
           /\ draft.op = "update" /\ draft.phase = "acknowledged"
           /\ draft.candHash = Uniform(draft.cand) /\ installed = draft.candHash
           /\ rb = [dir |-> draft.rbDir, ver |-> draft.cur, hash |-> draft.rbHash]
    /\ pc \in {"ack_state", "ack_receipt"} => journal.phase = "acknowledged"
    /\ pc \in {"rback_state", "rback_journal"} =>
           /\ lastState = "rolled_back" /\ draft.phase = "rollback_acknowledged"
           /\ installed = draft.candHash
    /\ pc \in {"ret_state", "ret_unlink"} => journal.phase \in Acked
    /\ pc = "ret_unlink" =>
           /\ stateFile = Receipt(lastState, lastApplied, rb)
           /\ journal.phase = "rollback_acknowledged" => rb = NoRb

\* What the manager remembers of the installed pair and of its journal.
MemoryStory ==
    /\ journal.phase = "none" /\ stateFile.state = "updated" => installed = Uniform(stateFile.applied)
    /\ journal.phase \in {"none"} \cup Acked /\ lastState = "updated" => installed = Uniform(lastApplied)
    /\ lastState = "restart_pending" =>
           \/ journal.phase = "restart_pending" /\ lastApplied = journal.cand
           \/ pc \in {"rb_replace", "rb_undo", "rb_publish"}
           \/ pc = "failing" /\ code \in {"rollback_failed", "recovery_required"}
    /\ lastState = "rollback_restart_pending" =>
           \/ journal.phase = "rollback_restart_pending" /\ journal.candHash = rb.hash
           \/ pc = "failing" /\ code \in {"rollback_failed", "recovery_required"}
    /\ valid /\ pc # "down" /\ journal.phase \in {"restart_pending", "acknowledged"} => rb = JournalRb

\* The strengthening for the installed pair.
Story ==
    /\ ReceiptsCoherent /\ JournalledPair /\ InstallStory /\ RollbackStory
    /\ AcknowledgeStory /\ MemoryStory

Told == InstallStory /\ RollbackStory /\ AcknowledgeStory

\* The steps at which no operation is between two durable steps of which
\* Told says something.
PlainSteps ==
    {"down", "init_gc", "init_receipt", "idle", "failing", "check", "ret_gc", "ret_gc_return",
     "rb_begin", "rb_stage", "rb_journal"}

\* At a step that no story is about there is nothing to tell.
LEMMA PlainTold ==
    ASSUME pc' \in PlainSteps
    PROVE  Told'
BY DEF PlainSteps, Told, InstallStory, RollbackStory, AcknowledgeStory

\* The empty values and the pairs of a release are of one version.
LEMMA CoherentValues ==
    /\ \A v : Coherent(Uniform(v))
    /\ Coherent(Blank) /\ Coherent(NoRb.hash) /\ Coherent(NoJournal.rbHash) /\ Coherent(NoJournal.candHash)
    /\ NoJournal.phase = "none"
BY DEF Coherent, Uniform, Blank, NoRb, NoJournal

\* A step that keeps the journal, the state receipt and the pair.
LEMMA StillFrame ==
    ASSUME Story, UNCHANGED <<stateFile, journal, installed>>, 
           Coherent(rb'.hash), Coherent(draft'.rbHash), Coherent(draft'.candHash)
    PROVE  ReceiptsCoherent' /\ JournalledPair'
BY DEF Story, ReceiptsCoherent, JournalledPair, Coherent, Uniform

\* The provisioned pair.
LEMMA InitStory == Init => Story
<1> SUFFICES ASSUME Init PROVE Story OBVIOUS
<1> QED
  BY CoherentValues DEF Story, Init, ReceiptsCoherent, Receipt, JournalledPair, Open, Acked, InstallStory,
    RollbackStory, AcknowledgeStory, MemoryStory

\* A process that ends.
LEMMA EndStory ==
    ASSUME IInv, Story, CoordinatorExit \/ ServiceRestart \/ Crash
    PROVE  Story'
<1>1. Forget /\ UNCHANGED disk BY DEF CoordinatorExit, ServiceRestart, Crash
<1> QED BY <1>1, PlainTold, StillFrame, CoherentValues DEF Story, Told, Forget, disk, PlainSteps, MemoryStory, Uniform

\* loadState() takes the pair's identity from the journal or from the receipt.
LEMMA LoadStory ==
    ASSUME IInv, Story, NEW who, Load(who)
    PROVE  Story'
<1>1. /\ UNCHANGED <<disk, locals>> /\ pc' = "init_gc"
      /\ lastState' = Loaded.state /\ lastApplied' = Loaded.applied
      /\ rb' = Loaded.rb /\ valid' = Loaded.valid BY DEF Load
<1>5. Loaded.state = "updated" =>
          /\ journal.phase = "none" => Loaded.applied = stateFile.applied /\ stateFile.state = "updated"
          /\ journal.phase = "acknowledged" => Loaded.applied = journal.cand
          /\ journal.phase # "rollback_acknowledged"
  BY DEF Loaded, ResumedState, AdoptedApplied, UpdateJournalOwnsRollback, JournalIdentityOk, Pending
<1>9. MemoryStory'
  BY <1>1, <1>5 DEF disk, Story, MemoryStory, Uniform, JournalledPair, Acked, JournalRb, Loaded, ResumedState,
    AdoptedApplied, UpdateJournalOwnsRollback, JournalIdentityOk, Pending, ValidStates, Checkable, Stable,
    JournalBindingOk
<1> QED
  BY <1>1, <1>9, CoherentValues, StillFrame, PlainTold DEF Story, Told, PlainSteps, disk, locals, ReceiptsCoherent,
    Loaded, AdoptedRb, JournalRb

\* A garbage pass, when a process starts, after a retirement, or of staging.
LEMMA GarbageStory ==
    ASSUME IInv, Story, InitCollect \/ RetireCollect \/ DownloadFails \/ BackupFails \/ InstallDiscard
    PROVE  Story'
<1>1. /\ UNCHANGED <<stateFile, journal, installed, mem>>
      /\ draft' \in {draft, NoJournal}
      /\ pc' \in {"init_receipt", "idle", "check", "rb_begin"} \/ (pc' = "failing" /\ pc # "idle")
  BY DEF InitCollect, RetireCollect, DownloadFails, BackupFails, InstallDiscard, Discard, Fail, Goto, Return
<1> QED
  BY <1>1, PlainTold, StillFrame, CoherentValues DEF Story, Told, mem, ReceiptsCoherent, PlainSteps, MemoryStory,
    Uniform, JournalRb, InitCollect, RetireCollect, DownloadFails, BackupFails, InstallDiscard

\* The sidecar receipt of a new process.
LEMMA SidecarStory ==
    ASSUME IInv, Story, InitReceipt
    PROVE  Story'
<1>1. /\ UNCHANGED <<stateFile, journal, installed, lastApplied, rb, draft>>
      /\ pc = "init_receipt" /\ pc' = "idle"
      /\ valid' => valid
      /\ lastState' \in {lastState, "recovery_required"} BY DEF InitReceipt, Goto, IInv, TypeOK, MemoryOK
<1> QED BY <1>1, PlainTold, StillFrame DEF Story, Told, ReceiptsCoherent, PlainSteps, MemoryStory, Uniform, JournalRb

\* A step that leaves disk, memory and draft alone.
LEMMA AdmissionStory ==
    ASSUME IInv, Story, CheckRefused \/ CheckStable \/ CheckFails \/ InstallRestored
    PROVE  Story'
<1>1. /\ UNCHANGED <<disk, mem, draft>>
      /\ \/ pc' = "failing" /\ code' = "recovery_required"
         \/ pc' = "failing" /\ pc \in {"check", "inst_restore"}
         \/ pc' = "check" /\ pc = "idle"
         \/ pc' = "ret_marker" /\ valid /\ pc = "idle"
      /\ pc \in {"idle", "check", "inst_restore"}
  BY DEF CheckRefused, CheckStable, CheckFails, InstallRestored, Fail, Goto, MayCheck, CheckAdmitted
<1> QED
  BY <1>1, PlainTold, StillFrame DEF Story, Told, disk, mem, ReceiptsCoherent, InstallStory, RollbackStory,
    AcknowledgeStory, PlainSteps, MemoryStory, Uniform, JournalRb

\* The running image acknowledges the update that installed it.
LEMMA AcknowledgeUpdateStory ==
    ASSUME IInv, Story, AcknowledgeUpdate
    PROVE  Story'
<1>1. /\ UNCHANGED <<stateFile, journal, installed, lastApplied, rb, valid>>
      /\ valid /\ lastState = "restart_pending" /\ lastState' = "updated" /\ pc = "idle"
  BY DEF AcknowledgeUpdate, CheckAdmitted, MayCheck, disk
<1>2. journal.phase = "restart_pending" /\ lastApplied = journal.cand /\ rb = JournalRb BY <1>1 DEF Story, MemoryStory
<1>3. installed = journal.candHash /\ journal.op = "update" /\ journal.candHash = Uniform(journal.cand)
  BY <1>2 DEF Story, JournalledPair
<1>4. draft' = [journal EXCEPT !.phase = "acknowledged"] /\ pc' = "ack_journal"
  BY <1>2, <1>3 DEF AcknowledgeUpdate, Goto
<1>5. /\ draft'.phase = "acknowledged" /\ draft'.op = "update" /\ draft'.cand = journal.cand
      /\ draft'.cur = journal.cur /\ draft'.rbDir = journal.rbDir /\ draft'.rbHash = journal.rbHash
      /\ draft'.candHash = journal.candHash BY <1>3, <1>4 DEF IInv, TypeOK, DiskOK, Journals
<1> QED
  BY <1>1, <1>2, <1>3, <1>4, <1>5, StillFrame DEF Story, Told, ReceiptsCoherent, InstallStory, RollbackStory,
    AcknowledgeStory, JournalRb, Uniform, MemoryStory, Acked

\* The running image acknowledges the rollback that restored it.
LEMMA AcknowledgeRollbackStory ==
    ASSUME IInv, Story, AcknowledgeRollback
    PROVE  Story'
<1>1. /\ UNCHANGED <<stateFile, journal, installed, lastApplied, rb, valid>>
      /\ valid /\ lastState = "rollback_restart_pending" /\ pc = "idle"
  BY DEF AcknowledgeRollback, CheckAdmitted, MayCheck, disk
<1>2. CASE installed = rb.hash
  <2>1. /\ lastState' = "rolled_back" /\ pc' = "rback_state"
        /\ draft' = [journal EXCEPT !.op = "rollback", !.phase = "rollback_acknowledged",
                                    !.cand = rb.ver, !.cur = rb.ver, !.candHash = rb.hash]
    BY <1>2 DEF AcknowledgeRollback, Goto
  <2>2. draft'.phase = "rollback_acknowledged" /\ draft'.candHash = rb.hash /\ draft'.rbHash = journal.rbHash
    BY <2>1 DEF IInv, TypeOK, DiskOK, Journals
  <2> QED
    BY <1>1, <1>2, <2>1, <2>2, StillFrame DEF Story, Told, ReceiptsCoherent, InstallStory, RollbackStory,
      AcknowledgeStory, MemoryStory, Uniform, JournalRb
<1>3. CASE installed # rb.hash
  BY <1>3, <1>1, StillFrame, PlainTold DEF AcknowledgeRollback, Fail, Story, ReceiptsCoherent, PlainSteps,
    MemoryStory, Uniform, JournalRb, Told
<1> QED BY <1>2, <1>3

\* The durable writes of the acknowledgement of an update.
LEMMA AckStory ==
    ASSUME IInv, Story, AckJournal \/ AckState \/ AckReceipt
    PROVE  Story'
<1>1. UNCHANGED <<installed, mem, draft>> BY DEF AckJournal, AckState, AckReceipt
<1>2. CASE AckJournal
  BY <1>2, <1>1, PlainTold DEF AckJournal, WriteJournal, Goto, Fail, Outcomes, Story, AcknowledgeStory, mem,
    ReceiptsCoherent, JournalledPair, Open, Acked, Uniform, Coherent, PlainSteps, Told, InstallStory, RollbackStory,
    MemoryStory, JournalRb
<1>3. CASE AckState
  BY <1>3, <1>1, PlainTold DEF AckState, SaveState, Goto, Fail, Story, AcknowledgeStory, mem, Receipt,
    ReceiptsCoherent, JournalledPair, Uniform, Coherent, PlainSteps, Told, InstallStory, RollbackStory, MemoryStory,
    JournalRb
<1>4. CASE AckReceipt
  BY <1>4, <1>1, StillFrame, PlainTold DEF AckReceipt, Goto, Fail, Story, AcknowledgeStory, mem, ReceiptsCoherent,
    PlainSteps, Told, InstallStory, RollbackStory, MemoryStory, Uniform, JournalRb
<1> QED BY <1>2, <1>3, <1>4

\* The durable writes of the acknowledgement of a rollback.
LEMMA RollbackAckStory ==
    ASSUME IInv, Story, RollbackAckState \/ RollbackAckJournal
    PROVE  Story'
<1>1. UNCHANGED <<installed, mem, draft>> /\ pc \in {"rback_state", "rback_journal"}
  BY DEF RollbackAckState, RollbackAckJournal
<1>2. /\ valid /\ lastState = "rolled_back" /\ draft.phase = "rollback_acknowledged"
      /\ installed = draft.candHash BY <1>1 DEF Story, AcknowledgeStory
<1>3. /\ stateFile' \in {stateFile, Receipt(lastState, lastApplied, rb)}
      /\ journal' \in {journal, draft}
      /\ \/ pc' = "rback_journal"
         \/ pc' = "ret_marker"
         \/ pc' = "failing" /\ code' = "recovery_required"
  BY DEF RollbackAckState, RollbackAckJournal, SaveState, WriteJournal, Goto, Fail
<1> QED
  BY <1>1, <1>2, <1>3, PlainTold DEF Story, Told, mem, Receipt, ReceiptsCoherent, JournalledPair, Open, Acked,
    Uniform, Coherent, PlainSteps, InstallStory, RollbackStory, AcknowledgeStory, MemoryStory, JournalRb

\* retireAcknowledgedJournal(): the receipt takes over from the journal.
LEMMA RetireStory ==
    ASSUME IInv, Story, RetireMarker \/ RetireState \/ RetireUnlink
    PROVE  Story'
<1>1. UNCHANGED <<installed, draft, lastApplied>> /\ pc \in {"ret_marker", "ret_state", "ret_unlink"} /\ valid
  BY DEF RetireMarker, RetireState, RetireUnlink, mem, Story, AcknowledgeStory
<1>2. CASE RetireMarker
  BY <1>2, <1>1, StillFrame, PlainTold DEF RetireMarker, Retirable, Acked, Goto, Fail, mem, Story, ReceiptsCoherent,
    PlainSteps, Told, InstallStory, RollbackStory, AcknowledgeStory, MemoryStory, Uniform, JournalRb
<1>3. CASE RetireState
  <2>1. journal.phase \in Acked /\ UNCHANGED journal BY <1>3 DEF RetireState, Story, AcknowledgeStory
  <2>2. /\ rb' = IF journal.phase = "rollback_acknowledged" THEN NoRb ELSE rb
        /\ stateFile' \in {stateFile, Receipt(lastState, lastApplied, rb')}
        /\ \/ /\ pc' = "ret_unlink" /\ stateFile' = Receipt(lastState, lastApplied, rb')
              /\ UNCHANGED <<lastState, valid>>
           \/ pc' = "failing" /\ lastState' = "recovery_required" /\ ~valid'
    BY <1>1, <1>3 DEF RetireState, SaveState, Goto, Fail, Outcomes
  <2>5. Told'
    <3>1. CASE pc' = "failing" BY <3>1, PlainTold DEF PlainSteps
    <3>2. CASE pc' # "failing"
      BY <1>1, <2>1, <2>2, <3>2 DEF Told, InstallStory, RollbackStory, AcknowledgeStory, Receipt
    <3> QED BY <3>1, <3>2
  <2>6. MemoryStory' BY <1>1, <2>1, <2>2 DEF Story, MemoryStory, Uniform, JournalRb, Acked
  <2> QED
    BY <1>1, <2>1, <2>2, <2>5, <2>6, CoherentValues DEF Story, Told, Receipt, ReceiptsCoherent, JournalledPair,
      Uniform, Coherent
<1>4. CASE RetireUnlink
  BY <1>4, <1>1, PlainTold, CoherentValues DEF RetireUnlink, Story, AcknowledgeStory, AfterRetirement, Goto, Fail,
    NoJournal, Acked, Told, Receipt, JournalRb, ReceiptsCoherent, JournalledPair, Open, Uniform, Coherent, PlainSteps,
    MemoryStory, Pending
<1> QED BY <1>2, <1>3, <1>4

\* Looking for a release: without a journal nothing pends.
LEMMA CheckStory ==
    ASSUME IInv, Story, CheckSettles \/ OpenTransaction \/ Download
    PROVE  Story'
<1>1. /\ UNCHANGED <<journal, installed, lastApplied, rb, valid>>
      /\ pc \in {"check", "download"} /\ journal.phase = "none"
  BY DEF CheckSettles, OpenTransaction, Download, mem, IInv, Evidence, StepsPrepared
<1>2. CASE CheckSettles
  <2>1. PICK s \in SettledStates :
            /\ stateFile' \in {stateFile, Receipt(s, lastApplied, rb)} /\ lastState' = s
    BY <1>2 DEF CheckSettles, SaveState, SettledStates, parseManifest
  <2>2. pc' \in {"idle", "failing"} /\ draft' \in {draft, NoJournal} BY <1>2 DEF CheckSettles, Return, Fail
  <2> QED
    BY <1>1, <2>1, <2>2, PlainTold, CoherentValues DEF Story, Told, Receipt, ReceiptsCoherent, JournalledPair,
      Uniform, Coherent, PlainSteps, MemoryStory, SettledStates, parseManifest
<1>3. CASE OpenTransaction
  <2>1. PICK v \in Versions, d \in DirIds :
            draft' = [NoJournal EXCEPT !.op = "update", !.phase = "prepared",
                                       !.cand = v, !.cur = running, !.tx = d] BY <1>3 DEF OpenTransaction
  <2>2. /\ draft'.op = "update" /\ draft'.phase = "prepared" /\ draft'.cur = running
        /\ draft'.rbHash = Blank /\ draft'.candHash = Blank BY <2>1 DEF NoJournal
  <2>3. UNCHANGED <<stateFile, lastState, running>> /\ pc' = "download"
    BY <1>3 DEF OpenTransaction, mem, process, Goto
  <2> QED
    BY <1>1, <2>2, <2>3, StillFrame, CoherentValues DEF Story, Told, ReceiptsCoherent, InstallStory, RollbackStory,
      AcknowledgeStory, MemoryStory, Uniform
<1>4. CASE Download
  BY <1>4, <1>1, StillFrame DEF Download, mem, process, Goto, IInv, Evidence, StepsPrepared, Exists, TypeOK, DiskOK,
    Story, InstallStory, ReceiptsCoherent, Told, RollbackStory, AcknowledgeStory, Uniform, MemoryStory
<1> QED BY <1>2, <1>3, <1>4

\* The backup is a copy of a pair of one version, and so is what is staged.
LEMMA PrepareStory ==
    ASSUME IInv, Story, Backup \/ InstallPrepared \/ InstallPreparedUnsynced
    PROVE  Story'
<1>1. /\ UNCHANGED <<stateFile, installed, lastState, lastApplied, valid, running>>
      /\ pc \in {"backup", "inst_prepared"} /\ journal.phase = "none" /\ Complete(draft.tx)
  BY DEF Backup, InstallPrepared, InstallPreparedUnsynced, mem, process, IInv, Evidence, StepsPrepared
<1>2. /\ draft.op = "update" /\ draft.cur = running /\ draft.phase = "prepared"
      /\ dirs[draft.tx].pair = Uniform(draft.cand)
      /\ pc = "inst_prepared" => draft.candHash = Uniform(draft.cand) BY <1>1 DEF Story, InstallStory
<1>3. lastState \notin Pending BY <1>1 DEF Story, MemoryStory, Pending
<1>5. CASE Backup
  <2>1. PICK d \in DirIds :
            /\ Fresh(d) /\ dirs' = MakeDir(d, "rollback", installed)
            /\ draft' = [draft EXCEPT !.rbDir = d, !.rbHash = installed,
                                      !.candHash = dirs[draft.tx].pair] BY <1>5 DEF Backup
  <2>2. /\ draft'.op = "update" /\ draft'.cur = running /\ draft'.phase = "prepared"
        /\ draft'.tx = draft.tx /\ draft'.cand = draft.cand
        /\ draft'.rbHash = installed /\ draft'.candHash = Uniform(draft.cand)
    BY <1>2, <2>1 DEF IInv, TypeOK, ControlOK, Journals
  <2>4. UNCHANGED <<journal, rb>> /\ pc' = "inst_prepared" BY <1>5 DEF Backup, mem, Goto
  <2>5. ReceiptsCoherent' /\ JournalledPair'
    BY <1>1, <2>2, <2>4, StillFrame, CoherentValues DEF Story, ReceiptsCoherent, JournalledPair, Open
  <2> QED
    BY <1>1, <1>2, <1>3, <2>1, <2>2, <2>4, <2>5 DEF Story, Told, MemoryStory, Uniform, Pending, InstallStory,
      RollbackStory, AcknowledgeStory, Fresh, Complete, Exists, MakeDir, IInv, TypeOK, DiskOK
<1>6. CASE InstallPrepared
  BY <1>6, <1>1, <1>2, <1>3 DEF InstallPrepared, WriteJournal, Goto, IInv, TypeOK, MemoryOK, RbIds, Story,
    ReceiptsCoherent, JournalledPair, Open, Acked, Told, InstallStory, RollbackStory, AcknowledgeStory, Uniform,
    MemoryStory, Pending
<1>7. CASE InstallPreparedUnsynced
  BY <1>7, <1>1, <1>2, <1>3 DEF InstallPreparedUnsynced, WriteJournal, Goto, mem, Story, ReceiptsCoherent,
    JournalledPair, Open, Acked, Told, InstallStory, RollbackStory, AcknowledgeStory, MemoryStory, Pending
<1> QED BY <1>5, <1>6, <1>7

\* The installed pair changes under a prepared journal only.
LEMMA ReplaceStory ==
    ASSUME IInv, Story, InstallReplace \/ InstallRestore
    PROVE  Story'
<1>1. /\ UNCHANGED <<stateFile, journal, dirs, lastApplied, rb, valid, draft, running>>
      /\ pc \in {"inst_replace", "inst_restore"} /\ journal.phase = "prepared"
      /\ draft.op = "update" /\ draft.cur = running
      /\ lastState' \in {lastState, "recovery_required"}
  BY DEF InstallReplace, InstallRestore, mem, process, Story, InstallStory
<1>6. Told'
  BY PlainTold, <1>1 DEF PlainSteps, Told, InstallStory, RollbackStory, AcknowledgeStory, InstallReplace,
    InstallRestore, Goto, Fail, Outcomes, Story, IInv, TypeOK, DiskOK, Uniform
<1> QED BY <1>1, <1>6 DEF Story, Told, ReceiptsCoherent, JournalledPair, Open, Acked, MemoryStory, Pending

\* The pair is complete when the journal says so.
LEMMA ReplacedStory ==
    ASSUME IInv, Story, InstallReplaced \/ InstallReceipt
    PROVE  Story'
<1>1. /\ UNCHANGED <<installed, dirs, lastApplied, valid, running>>
      /\ pc \in {"inst_replace", "inst_receipt"} /\ journal.phase \in {"prepared", "replaced"}
      /\ draft.op = "update" /\ draft.cur = running
      /\ draft.candHash = Uniform(draft.cand) /\ rb.hash = draft.rbHash
      /\ lastState' \in {lastState, "recovery_required"}
  BY DEF InstallReplaced, InstallReceipt, InstallStep, mem, process, Story, InstallStory
<1>2. installed = draft.candHash
  BY <1>1 DEF Story, InstallStory, InstallReplaced, InstallReceipt, InstallStep, IInv, TypeOK, DiskOK, Uniform
<1>3. lastState \notin Pending BY <1>1 DEF Story, MemoryStory, Pending
<1>4. CASE InstallReplaced
  <2>1. /\ draft' = [draft EXCEPT !.phase = "replaced"] /\ journal' \in {journal, draft'}
        /\ UNCHANGED <<stateFile, rb>>
        /\ pc' = "failing" \/ (pc' = "inst_receipt" /\ journal' = draft')
    BY <1>4 DEF InstallReplaced, InstallStep, WriteJournal, Goto, Fail, Outcomes
  <2>2. /\ draft'.op = "update" /\ draft'.cur = running /\ draft'.phase = "replaced"
        /\ draft'.candHash = draft.candHash /\ draft'.rbHash = draft.rbHash /\ draft'.cand = draft.cand
    BY <1>1, <2>1 DEF IInv, TypeOK, ControlOK, Journals
  <2>3. ReceiptsCoherent' BY <2>1, <2>2 DEF Story, ReceiptsCoherent
  <2>4. journal'.phase \in {"prepared", "replaced"} BY <1>1, <2>1, <2>2
  <2>7. Told'
    <3>1. CASE pc' = "failing" BY <3>1, PlainTold DEF PlainSteps
    <3>2. CASE pc' # "failing"
      BY <1>1, <1>2, <2>1, <2>2, <3>2 DEF Told, InstallStory, RollbackStory, AcknowledgeStory, Uniform
    <3> QED BY <3>1, <3>2
  <2> QED BY <1>1, <1>3, <2>3, <2>4, <2>7 DEF Story, Told, JournalledPair, Open, Acked, MemoryStory, Pending
<1>5. CASE InstallReceipt
  <2>1. /\ rb' = [rb EXCEPT !.dir = draft.rbDir, !.ver = running]
        /\ stateFile' \in {stateFile, Receipt(lastState, lastApplied, rb')}
        /\ UNCHANGED <<journal, draft>>
        /\ pc' \in {"failing", "inst_pending"} /\ pc = "inst_receipt"
    BY <1>5 DEF InstallReceipt, InstallStep, SaveState, Goto, Fail
  <2>2. rb'.hash = rb.hash /\ rb'.dir = draft.rbDir /\ rb'.ver = running BY <2>1 DEF IInv, TypeOK, MemoryOK, RbIds
  <2>3. ReceiptsCoherent'
    <3>1. Coherent(rb'.hash) BY <2>2 DEF Story, ReceiptsCoherent
    <3>2. stateFile'.rb \in {stateFile.rb, rb'} BY <2>1 DEF Receipt
    <3> QED BY <2>1, <3>1, <3>2 DEF Story, ReceiptsCoherent
  <2>4. journal.phase = "replaced" BY <2>1 DEF Story, InstallStory
  <2> QED
    BY <1>1, <1>2, <1>3, <2>1, <2>2, <2>3, <2>4, PlainTold DEF Story, Told, JournalledPair, Open, Acked, MemoryStory,
      Pending, PlainSteps, InstallStory, RollbackStory, AcknowledgeStory, Uniform
<1> QED BY <1>4, <1>5

\* The pending journal is written over the pair it describes.
LEMMA PendingStory ==
    ASSUME IInv, Story, InstallPending
    PROVE  Story'
<1>1. /\ UNCHANGED <<stateFile, installed, rb, valid, running>>
      /\ pc = "inst_pending" /\ journal.phase = "replaced"
      /\ draft.op = "update" /\ draft.cur = running
      /\ draft.candHash = Uniform(draft.cand) /\ installed = draft.candHash
      /\ rb.hash = draft.rbHash /\ rb.dir = draft.rbDir /\ rb.ver = running
  BY DEF InstallPending, InstallStep, process, Story, InstallStory
<1>2. /\ draft' = [draft EXCEPT !.phase = "restart_pending"] /\ journal' \in {journal, draft'}
      /\ lastApplied' = draft.cand
      /\ \/ pc' = "failing" /\ lastState' = "recovery_required"
         \/ pc' = "inst_publish" /\ journal' = draft' /\ lastState' = "restart_pending"
  BY DEF InstallPending, InstallStep, WriteJournal, Goto, Fail, Outcomes
<1>3. /\ draft'.op = "update" /\ draft'.cur = running /\ draft'.phase = "restart_pending"
      /\ draft'.candHash = draft.candHash /\ draft'.rbHash = draft.rbHash /\ draft'.cand = draft.cand
      /\ draft'.rbDir = draft.rbDir BY <1>1, <1>2 DEF IInv, TypeOK, ControlOK, Journals
<1>4. rb = [dir |-> rb.dir, ver |-> rb.ver, hash |-> rb.hash] BY DEF IInv, TypeOK, MemoryOK, RbIds
<1>5. ReceiptsCoherent' BY <1>1, <1>2, <1>3, ZenonT(40) DEF Story, ReceiptsCoherent
<1>6. JournalledPair'
  <2>1. Coherent(installed') BY <1>1, CoherentValues
  <2>2. journal'.phase = "replaced"
        \/ /\ journal'.phase = "restart_pending" /\ journal'.op = "update" /\ installed' = journal'.candHash
           /\ journal'.candHash = Uniform(journal'.cand) BY <1>1, <1>2, <1>3
  <2> QED BY <2>1, <2>2 DEF JournalledPair, Open, Acked, Uniform
<1>7. Told'
  <2>1. CASE pc' = "failing" BY <2>1, PlainTold DEF PlainSteps
  <2>2. CASE pc' # "failing" BY <1>2, <1>3, <2>2 DEF Told, InstallStory, RollbackStory, AcknowledgeStory
  <2> QED BY <2>1, <2>2
<1>8. MemoryStory' BY <1>1, <1>2, <1>3, <1>4 DEF MemoryStory, Acked, JournalRb
<1> QED BY <1>5, <1>6, <1>7, <1>8 DEF Story, Told

\* The last steps of install() change the state, not the journal or the pair.
LEMMA PublishStory ==
    ASSUME IInv, Story, InstallPublish \/ InstallRestart \/ InstallCommit
    PROVE  Story'
<1>1. /\ UNCHANGED <<journal, installed, lastApplied, rb>>
      /\ pc \in {"inst_publish", "inst_restart", "inst_commit"} /\ journal.phase = "restart_pending"
      /\ draft' \in {draft, NoJournal}
      /\ valid' => valid
      /\ lastState' \in {lastState, "recovery_required", "rollback_failed"}
      /\ stateFile' \in {stateFile} \cup {Receipt(s, lastApplied, rb) : s \in {lastState, "rollback_failed"}}
      /\ pc' \in {"failing", "inst_restart", "inst_commit", "idle"}
  BY DEF InstallPublish, InstallRestart, InstallCommit, InstallStep, SaveState, Return, Fail, Goto, mem, Story,
    InstallStory, IInv, TypeOK, MemoryOK
<1> QED
  BY <1>1, PlainTold, CoherentValues DEF Story, Told, Receipt, ReceiptsCoherent, JournalledPair, Uniform, Coherent,
    PlainSteps, InstallStory, RollbackStory, AcknowledgeStory, MemoryStory, Acked, JournalRb

\* rollback() before its first durable write.
LEMMA RollbackAdmissionStory ==
    ASSUME IInv, Story, RollbackRequested \/ RollbackRestartAgain \/ RollbackRefused
    PROVE  Story'
<1>1. /\ UNCHANGED <<journal, installed, lastApplied, rb>> /\ pc \in {"idle", "rb_begin"}
      /\ draft' \in {draft, NoJournal}
      /\ valid' /\ journal.phase # "rollback_restart_pending" => valid
      /\ lastState' \in {lastState, "recovery_required", "rollback_failed"}
      /\ stateFile' \in {stateFile, Receipt("rollback_failed", lastApplied, rb)}
      /\ \/ pc' = "failing" \/ pc' = "rb_begin" \/ pc' = "idle"
         \/ pc' = "ret_marker" /\ valid'
  BY DEF RollbackRequested, Goto, disk, mem, RollbackRestartAgain, AlreadyRestored, Story, MemoryStory, Return,
    RollbackRefused, Fail
<1> QED
  BY <1>1, PlainTold, CoherentValues DEF Story, Told, Receipt, ReceiptsCoherent, JournalledPair, Uniform, Coherent,
    InstallStory, RollbackStory, AcknowledgeStory, PlainSteps, MemoryStory, Acked, JournalRb

\* The rollback's journal is opened, from the one that is there or anew.
LEMMA RollbackOpenStory ==
    ASSUME IInv, Story, RollbackSynthesize \/ RollbackAdopt \/ RollbackStage
    PROVE  Story'
<1>1. /\ UNCHANGED <<stateFile, journal, installed, lastState, lastApplied, rb, valid>>
      /\ pc \in {"rb_begin", "rb_stage"}
      /\ pc' \in {"rb_stage", "rb_journal"} \/ (pc' = "failing" /\ code' \in {"rollback_failed", "recovery_required"})
  BY DEF RollbackSynthesize, RollbackAdopt, RollbackStage, RollbackMayStart, RollbackErrorCode, Goto, Fail, disk, mem
<1>2. Coherent(draft'.rbHash) /\ Coherent(draft'.candHash)
  <2>1. CASE RollbackSynthesize BY <2>1 DEF RollbackSynthesize, Story, ReceiptsCoherent, NoJournal
  <2>2. CASE RollbackAdopt BY <2>2 DEF RollbackAdopt, Story, ReceiptsCoherent
  <2>3. CASE RollbackStage
    <3>1. draft'.rbHash = draft.rbHash /\ draft'.candHash = draft.candHash
      BY <2>3 DEF RollbackStage, IInv, TypeOK, ControlOK, Journals
    <3> QED BY <3>1 DEF Story, ReceiptsCoherent
  <2> QED BY <2>1, <2>2, <2>3
<1> QED
  BY <1>1, <1>2, PlainTold, StillFrame DEF Story, Told, ReceiptsCoherent, PlainSteps, MemoryStory, JournalRb, Uniform

\* The intent to roll back ends what the journal said before.
LEMMA RollbackIntentStory ==
    ASSUME IInv, Story, RollbackJournal
    PROVE  Story'
<1>1. /\ UNCHANGED <<stateFile, installed, lastState, lastApplied, rb, valid>> /\ pc = "rb_journal"
      /\ journal' \in {journal, draft'}
      /\ draft' = [draft EXCEPT !.op = "rollback", !.phase = "rollback_restart_pending",
                                !.cand = rb.ver, !.cur = rb.ver, !.rbHash = rb.hash,
                                !.candHash = rb.hash, !.prevDir = curDir]
      /\ \/ pc' = "rb_replace" /\ journal' = draft' /\ todo' = Files
         \/ pc' = "failing" /\ code' \in {"rollback_failed", "recovery_required"}
  BY DEF RollbackJournal, WriteJournal, RollbackErrorCode, Goto, Fail, Outcomes
<1>2. draft'.phase = "rollback_restart_pending" /\ draft'.rbHash = rb.hash /\ draft'.candHash = rb.hash
  BY <1>1 DEF IInv, TypeOK, ControlOK, Journals
<1>3. ReceiptsCoherent' BY <1>1, <1>2 DEF Story, ReceiptsCoherent
<1>4. JournalledPair' BY <1>1, <1>2 DEF Story, JournalledPair, Open, Acked, Uniform, Coherent
<1>5. Told'
  <2>1. CASE pc' = "failing" BY <2>1, PlainTold DEF PlainSteps
  <2>2. CASE pc' # "failing" BY <1>1, <1>2, <2>2 DEF Told, InstallStory, RollbackStory, AcknowledgeStory
  <2> QED BY <2>1, <2>2
<1>6. MemoryStory' BY <1>1, <1>2 DEF Story, MemoryStory, Acked, JournalRb, Uniform
<1> QED BY <1>3, <1>4, <1>5, <1>6 DEF Story, Told

\* The installed pair changes under a journal that says it is rolled back.
LEMMA RollbackReplaceStory ==
    ASSUME IInv, Story, RollbackReplace \/ RollbackUndo
    PROVE  Story'
<1>1. /\ UNCHANGED <<stateFile, journal, dirs, lastState, lastApplied, rb, valid, draft>>
      /\ pc \in {"rb_replace", "rb_undo"} /\ pc' \in {"rb_replace", "rb_undo"}
      /\ journal.phase = "rollback_restart_pending" /\ journal.candHash = rb.hash
  BY DEF RollbackReplace, RollbackUndo, mem, Goto, Story, RollbackStory
<1>5. Told'
  BY <1>1 DEF Told, InstallStory, RollbackStory, AcknowledgeStory, RollbackReplace, RollbackUndo, Goto, Outcomes,
    Story, IInv, Evidence, StepsPrepared, Sound, Verified, JournalSteps, TypeOK, DiskOK
<1> QED BY <1>1, <1>5 DEF Story, Told, ReceiptsCoherent, JournalledPair, Open, Acked, MemoryStory

\* The journal after the replacement.
LEMMA RollbackCommitStory ==
    ASSUME IInv, Story, RollbackCommit
    PROVE  Story'
<1>1. /\ UNCHANGED <<stateFile, installed, mem, draft, todo>> /\ pc = "rb_replace" /\ todo = {}
      /\ journal' \in {journal, draft}
      /\ pc' \in {"rb_publish", "rb_undo"} BY DEF RollbackCommit, WriteJournal, Goto
<1>2. /\ journal.phase = "rollback_restart_pending" /\ journal.candHash = rb.hash
      /\ draft.phase = "rollback_restart_pending"
      /\ draft.candHash = rb.hash /\ draft.rbHash = rb.hash
      /\ \A f \in Files : installed[f] = rb.hash[f] BY <1>1 DEF Story, RollbackStory
<1>4. journal'.phase = "rollback_restart_pending" /\ journal'.candHash = rb.hash BY <1>1, <1>2
<1>7. Told'
  BY <1>1, <1>2, <1>4, CompletePairs DEF mem, Told, InstallStory, RollbackStory, AcknowledgeStory, IInv, Evidence,
    StepsPrepared, Sound, JournalSteps, Verified, TypeOK, MemoryOK, RbIds, DiskOK
<1> QED BY <1>1, <1>2, <1>4, <1>7 DEF Story, Told, mem, ReceiptsCoherent, JournalledPair, Open, Acked, MemoryStory

\* The journal after the replacement was undone.
LEMMA RollbackUndoneStory ==
    ASSUME IInv, Story, RollbackUndone
    PROVE  Story'
<1>1. /\ UNCHANGED <<stateFile, installed, lastApplied, rb, valid>> /\ pc = "rb_undo"
      /\ draft' \in {draft, [draft EXCEPT !.phase = "replaced"]}
      /\ journal' = journal \/ (journal' = draft' /\ draft' = [draft EXCEPT !.phase = "replaced"])
      /\ lastState' \in {lastState, "recovery_required"}
      /\ pc' = "failing" /\ code' \in {"rollback_failed", "recovery_required"}
  BY DEF RollbackUndone, WriteJournal, RollbackErrorCode, Fail
<1>2. journal.phase = "rollback_restart_pending" /\ journal.candHash = rb.hash BY <1>1 DEF Story, RollbackStory
<1>4. journal' = journal \/ (journal'.phase = "replaced" /\ journal' = draft')
  BY <1>1 DEF IInv, TypeOK, ControlOK, Journals
<1> QED
  BY <1>1, <1>2, <1>4, PlainTold DEF Story, Told, JournalledPair, Open, Acked, ReceiptsCoherent, IInv, TypeOK,
    ControlOK, Journals, PlainSteps, MemoryStory

\* The state after a rollback, and the restart it asks for.
LEMMA RollbackPublishStory ==
    ASSUME IInv, Story, RollbackPublish \/ RollbackRestart
    PROVE  Story'
<1>1. /\ UNCHANGED <<journal, installed, rb>> /\ pc \in {"rb_publish", "rb_restart"}
      /\ stateFile'.rb \in {stateFile.rb, rb}
      /\ draft' \in {draft, NoJournal}
      /\ lastState' \in {lastState, "recovery_required", "rollback_failed", "rollback_restart_pending"}
      /\ lastState' = lastState => lastState # "restart_pending" \/ pc = "rb_restart"
      /\ pc' \in {"rb_restart", "idle"} BY DEF RollbackPublish, RollbackRestart, SaveState, Receipt, Return, Goto
<1>2. journal.phase = "rollback_restart_pending" /\ journal.candHash = rb.hash /\ installed = rb.hash
  BY <1>1 DEF Story, RollbackStory
<1> QED
  BY <1>1, <1>2, PlainTold, CoherentValues DEF Story, Told, ReceiptsCoherent, JournalledPair, Open, Acked, PlainSteps,
    InstallStory, RollbackStory, AcknowledgeStory, MemoryStory

\* failure(): the state it saves is about the pair that is there.
LEMMA FailureStory ==
    ASSUME IInv, Story, FailureSaves
    PROVE  Story'
<1>1. /\ UNCHANGED <<journal, installed, lastApplied, rb>> /\ pc = "failing" /\ pc' = "idle"
      /\ draft' = NoJournal /\ (valid' => valid)
      /\ lastState' \in {FailureState, "recovery_required"}
      /\ stateFile' \in {stateFile, Receipt(FailureState, lastApplied, rb)}
  BY DEF FailureSaves, Return, IInv, TypeOK, MemoryOK
<1> QED
  BY <1>1, PlainTold, CoherentValues DEF Story, Told, Receipt, ReceiptsCoherent, JournalledPair, Uniform, Coherent,
    PlainSteps, MemoryStory, Acked, Pending, JournalRb, FailureState, CleanupRetryable, Stable

\* Every step keeps the story of the installed pair.
LEMMA NextStory == IInv /\ Story /\ [Next]_vars => Story'
<1> SUFFICES ASSUME IInv, Story, [Next]_vars PROVE Story' OBVIOUS
<1>1. CASE UNCHANGED vars
  BY <1>1, StillFrame DEF vars, disk, mem, locals, process, Story, ReceiptsCoherent, InstallStory, RollbackStory,
    AcknowledgeStory, MemoryStory, Uniform, JournalRb, Receipt
<1>2. CASE StartDaemon \/ StartCoordinator BY <1>2, LoadStory DEF StartDaemon, StartCoordinator
<1>3. CASE ServiceRestart \/ Crash BY <1>3, EndStory
<1>4. CASE CheckAndApply BY <1>4, AdmissionStory, AcknowledgeUpdateStory, AcknowledgeRollbackStory DEF CheckAndApply
<1>5. CASE RollbackRequested BY <1>5, RollbackAdmissionStory
<1>6. CASE Progress
  BY GarbageStory, SidecarStory, EndStory, AckStory, RollbackAckStory, RetireStory, CheckStory, AdmissionStory,
    PrepareStory, ReplaceStory, ReplacedStory, PendingStory, PublishStory, RollbackAdmissionStory, RollbackOpenStory,
    RollbackIntentStory, RollbackReplaceStory, RollbackCommitStory, RollbackUndoneStory, RollbackPublishStory,
    FailureStory, <1>6 DEF Acknowledge, Retire, Check, Install, RestoreRollback, Progress
<1> QED BY <1>2, <1>3, <1>4, <1>5, <1>6, <1>1 DEF Next

\* What the journal, the receipt and the memory say of the installed pair holds
\* in every behaviour of the updater.
THEOREM StoryHolds == Spec => [](IInv /\ Story)
<1>1. Init => IInv /\ Story BY InitIInv, InitStory
<1>2. (IInv /\ Story) /\ [Next]_vars => (IInv /\ Story)' BY NextIInv, NextStory
<1> QED BY <1>1, <1>2, PTL DEF Spec

\* Whenever the installed pair mixes two versions, a durable journal admits the
\* rollback and names a verified pair of one version.
THEOREM MixedIsRepairable == Spec => []MixedPairRepairable
<1>1. IInv /\ Story => MixedPairRepairable
  BY DEF IInv, Evidence, EvidenceIntact, Story, ReceiptsCoherent, JournalledPair, Open, MixedPairRepairable
<1> QED BY <1>1, StoryHolds, PTL

\* An acknowledgement, in the journal or after its retirement in the state
\* receipt, is about the pair that is installed.
THEOREM AcknowledgedIsInstalled == Spec => []AcknowledgedMeansInstalled
<1>1. Story => AcknowledgedMeansInstalled BY DEF Story, JournalledPair, MemoryStory, AcknowledgedMeansInstalled
<1> QED BY <1>1, StoryHolds, PTL

\* Only the last step of a retirement takes a journal away.
LEMMA OnlyRetirementUnlinks ==
    ASSUME IInv, Story, [Next]_vars, journal.phase # "none", journal'.phase = "none"
    PROVE  RetireUnlink
<1>1. \A j \in {draft} : pc \in {"ack_journal", "rback_journal", "rb_replace"} => j.phase # "none"
  BY DEF Story, AcknowledgeStory, RollbackStory
<1>2. draft \in Journals BY DEF IInv, TypeOK, ControlOK
<1>3. pc \notin {"check", "download", "backup", "inst_prepared"} BY DEF IInv, Evidence, StepsPrepared
<1>4. ~UNCHANGED journal OBVIOUS
<1>5. CASE Install
  BY <1>2, <1>3, <1>4, <1>5 DEF Install, Backup, BackupFails, InstallPrepared, InstallPreparedUnsynced,
    InstallDiscard, InstallReplace, InstallRestore, InstallRestored, InstallReplaced, InstallReceipt, InstallPending,
    InstallPublish, InstallRestart, InstallCommit, InstallStep, Discard, WriteJournal, Journals, disk
<1>6. CASE RestoreRollback
  BY <1>1, <1>2, <1>4, <1>6 DEF RestoreRollback, RollbackRestartAgain, RollbackRefused, RollbackSynthesize,
    RollbackAdopt, RollbackStage, RollbackJournal, RollbackReplace, RollbackCommit, RollbackUndo, RollbackUndone,
    RollbackPublish, RollbackRestart, WriteJournal, Journals, disk
<1>7. CASE Acknowledge
  BY <1>1, <1>4, <1>7 DEF Acknowledge, AckJournal, AckState, AckReceipt, RollbackAckState, RollbackAckJournal,
    WriteJournal
<1>8. CASE Check \/ FailureSaves \/ InitCollect \/ InitReceipt \/ CoordinatorExit \/ CheckAndApply
           \/ RollbackRequested \/ ServiceRestart \/ Crash \/ StartDaemon \/ StartCoordinator \/ UNCHANGED vars
  BY <1>4, <1>8 DEF Check, CheckSettles, CheckFails, OpenTransaction, Download, DownloadFails, Discard, FailureSaves,
    InitCollect, InitReceipt, CoordinatorExit, CheckAndApply, CheckRefused, AcknowledgeUpdate, AcknowledgeRollback,
    CheckStable, RollbackRequested, ServiceRestart, Crash, StartDaemon, StartCoordinator, Load, vars, disk
<1>9. CASE Retire BY <1>4, <1>9 DEF Retire, RetireMarker, RetireState, RetireCollect
<1> QED BY <1>5, <1>6, <1>7, <1>8, <1>9 DEF Next, Progress

\* Only three steps ask for a restart.
LEMMA OnlyThreeRestart ==
    ASSUME [Next]_vars, ~restartDue, restartDue'
    PROVE  InstallRestart \/ RollbackRestart \/ RollbackRestartAgain
<1>1. CASE Install
  BY <1>1 DEF Install, Backup, BackupFails, InstallPrepared, InstallPreparedUnsynced, InstallDiscard, InstallReplace,
    InstallRestore, InstallRestored, InstallReplaced, InstallReceipt, InstallPending, InstallPublish, InstallCommit,
    Discard
<1>2. CASE RestoreRollback
  BY <1>2 DEF RestoreRollback, RollbackRefused, RollbackSynthesize, RollbackAdopt, RollbackStage, RollbackJournal,
    RollbackReplace, RollbackCommit, RollbackUndo, RollbackUndone, RollbackPublish
<1>3. CASE Acknowledge \/ Retire
  BY <1>3 DEF Acknowledge, AckJournal, AckState, AckReceipt, RollbackAckState, RollbackAckJournal, Retire,
    RetireMarker, RetireState, RetireUnlink, RetireCollect
<1>4. CASE Check \/ FailureSaves \/ InitCollect \/ InitReceipt \/ CoordinatorExit \/ CheckAndApply
           \/ RollbackRequested \/ ServiceRestart \/ Crash \/ StartDaemon \/ StartCoordinator \/ UNCHANGED vars
  BY <1>4 DEF Check, CheckSettles, CheckFails, OpenTransaction, Download, DownloadFails, Discard, FailureSaves,
    InitCollect, InitReceipt, CoordinatorExit, CheckAndApply, CheckRefused, AcknowledgeUpdate, AcknowledgeRollback,
    CheckStable, RollbackRequested, ServiceRestart, Crash, StartDaemon, StartCoordinator, Load, vars
<1> QED BY <1>1, <1>2, <1>3, <1>4 DEF Next, Progress

\* The journal is unlinked only when the state receipt names the same rollback
\* pair, or none after a rollback; and a restart is asked for only into the pair
\* a durable pending journal describes.
THEOREM AuthorityIsDurable == Spec => DurableAuthority
<1> DEFINE Retirement ==
               journal.phase # "none" /\ journal'.phase = "none" =>
                   \/ journal.phase = "acknowledged" /\ stateFile.rb = JournalRb
                   \/ journal.phase = "rollback_acknowledged" /\ stateFile.rb = NoRb
           Restart ==
               ~restartDue /\ restartDue' => journal.phase \in Pending /\ installed = journal.candHash
<1>2. IInv /\ Story /\ [Next]_vars => Restart
  <2> SUFFICES ASSUME IInv, Story, [Next]_vars, ~restartDue, restartDue'
               PROVE  journal.phase \in Pending /\ installed = journal.candHash OBVIOUS
  <2>1. CASE InstallRestart BY <2>1 DEF InstallRestart, Story, InstallStory, JournalledPair, Pending
  <2>2. CASE RollbackRestart BY <2>2 DEF RollbackRestart, Story, RollbackStory, Pending
  <2>3. CASE RollbackRestartAgain BY <2>3 DEF RollbackRestartAgain, AlreadyRestored, Story, MemoryStory, Pending
  <2> QED BY <2>1, <2>2, <2>3, OnlyThreeRestart
<1>3. IInv /\ Story /\ [Next]_vars => [Retirement]_vars /\ [Restart]_vars
  BY <1>2, OnlyRetirementUnlinks DEF RetireUnlink, Story, AcknowledgeStory, Receipt, MemoryStory, Acked
<1> QED BY <1>3, StoryHolds, PTL DEF Spec, DurableAuthority, RetirementKeepsAuthority, RestartsIntoJournalledPair

--------------------------------------------------------------------------------
(* What is promised as long as no durable write fails                      *)

\* A rollback identity whose directory is there and is a backup.
Backed(r) == Verified(r.dir, r.hash) /\ dirs[r.dir].kind = "rollback"

NotBackup(d) == d \in DirIds => dirs[d].kind # "rollback"

\* Where the identities in files and in memory point to.
PromisesBacked ==
    /\ stateFile.rb.dir # NoDir => Backed(stateFile.rb)
    /\ rb.dir # NoDir /\ pc \notin {"inst_replace", "inst_receipt"} => Backed(rb)
    /\ journal.phase # "none" => dirs[journal.rbDir].kind = "rollback"

\* No directory of another class, and nothing that is still promised, is taken
\* for a disposable backup.
OthersAreOthers ==
    /\ \A d \in {journal.tx, journal.prevDir, draft.tx, draft.prevDir, curDir} : NotBackup(d)
    /\ \A d \in marker : dirs[d].kind = "rollback" =>
           \/ journal.phase = "rollback_acknowledged" /\ d = journal.rbDir
           \/ d \notin {stateFile.rb.dir, rb.dir, journal.rbDir}

\* The steps of which StepsKeep says something.
PromisingSteps ==
    {"inst_prepared", "inst_replace", "inst_receipt", "inst_restore", "inst_discard",
     "rb_stage", "rb_journal", "rb_replace", "rb_undo", "rback_state", "rback_journal"}

\* What the steps of an operation without failures find.
StepsKeep ==
    /\ pc \in {"inst_prepared", "inst_replace", "inst_receipt"} =>
           /\ dirs[draft.rbDir].kind = "rollback" /\ draft.rbDir \notin marker
           /\ Verified(draft.rbDir, draft.rbHash)
    /\ pc = "rb_journal" => Verified(curDir, draft.prevHash)
    /\ pc = "rb_replace" => Verified(draft.prevDir, draft.prevHash)
    /\ pc \in {"rb_stage", "rb_journal"} => journal.phase # "rollback_acknowledged"
    /\ pc \in {"rback_state", "rback_journal"} => journal.phase # "none" /\ draft.rbDir = journal.rbDir
    /\ pc \notin {"inst_restore", "inst_discard", "rb_undo"}

Kept == PromisesBacked /\ OthersAreOthers /\ StepsKeep /\ CurrentPairEvidence

\* What holds as long as no durable write has failed.
Promises == faults = 0 => Kept

\* An operation that fails shows in the count of faults.
LEMMA CleanSpend ==
    ASSUME faults \in Nat, faults' = 0, NEW o, Spend(o)
    PROVE  faults = 0 /\ o = "ok"
BY DEF Spend, Charge

\* So does a step that charges a number of them.
LEMMA CleanCharge ==
    ASSUME faults \in Nat, faults' = 0, NEW n \in Nat, Charge(n)
    PROVE  faults = 0 /\ n = 0
BY DEF Charge

\* The count never falls.
LEMMA FaultsStay ==
    ASSUME IInv
    PROVE  faults \in Nat
BY BoundsAssumption DEF IInv, TypeOK, ControlOK

\* Between those steps StepsKeep says nothing.
LEMMA PlainKeep ==
    ASSUME pc' \notin PromisingSteps
    PROVE  StepsKeep'
BY DEF PromisingSteps, StepsKeep

\* A step that changes no directory and forgets identities at most.
LEMMA KeptFrame ==
    ASSUME IInv, Kept, UNCHANGED dirs, marker' \subseteq marker,
           rb' \in {rb, NoRb}, pc \notin {"inst_replace", "inst_receipt"} \/ rb' = NoRb,
           stateFile'.rb \in {stateFile.rb, rb'}, journal' = journal,
           {draft'.tx, draft'.prevDir, curDir'} \subseteq
               {draft.tx, draft.prevDir, journal.tx, journal.prevDir, curDir, NoDir},
           StepsKeep'
    PROVE  Kept'
<1>1. marker \subseteq DirIds /\ NoDir \notin DirIds BY DirAssumption DEF IInv, TypeOK, DiskOK
<1> QED
  BY <1>1 DEF Kept, PromisesBacked, Backed, Verified, Exists, NoRb, OthersAreOthers, NotBackup, CurrentPairEvidence

\* The provisioned system promises nothing.
LEMMA InitKept == Init => Kept
BY DEF Init, Kept, PromisesBacked, OthersAreOthers, StepsKeep, CurrentPairEvidence, Receipt, NoRb, NoJournal,
  NotBackup, Gone

\* A process that ends, refuses or is asked.
LEMMA StillKept ==
    ASSUME IInv, Story, Kept, faults' = 0,
           CoordinatorExit \/ ServiceRestart \/ Crash \/ InitReceipt \/ CheckRefused \/ CheckStable
           \/ CheckFails \/ InstallRestored \/ RollbackRequested \/ RollbackRefused
    PROVE  Kept'
<1>1. CASE CoordinatorExit \/ ServiceRestart \/ Crash
  BY <1>1, KeptFrame, PlainKeep DEF CoordinatorExit, ServiceRestart, Crash, Forget, disk, PromisingSteps, NoJournal
<1>2. CASE InitReceipt BY <1>2, KeptFrame, PlainKeep DEF InitReceipt, Goto, PromisingSteps
<1>3. CASE CheckRefused \/ CheckStable \/ CheckFails \/ InstallRestored \/ RollbackRequested
           \/ RollbackRefused
  BY <1>3, KeptFrame, PlainKeep DEF CheckRefused, CheckStable, CheckFails, InstallRestored, RollbackRequested,
    RollbackRefused, MayCheck, mem, Goto, Fail, PromisingSteps, disk
<1> QED BY <1>1, <1>2, <1>3

\* Both sources of a loaded identity are backed.
LEMMA LoadKept ==
    ASSUME IInv, Story, Kept, NEW who, Load(who)
    PROVE  Kept'
<1>1. /\ UNCHANGED <<disk, locals>> /\ pc' = "init_gc"
      /\ rb' = Loaded.rb /\ curDir' = Loaded.cur BY DEF Load
<1>2. Loaded.rb \in {NoRb, stateFile.rb} \/ (Loaded.rb = JournalRb /\ journal.phase # "none") BY DEF Loaded, AdoptedRb
<1>9. OthersAreOthers'
  BY <1>1, <1>2, DirAssumption DEF disk, locals, Kept, OthersAreOthers, NotBackup, Loaded, IInv, TypeOK, DiskOK, NoRb,
    JournalRb
<1> QED
  BY <1>1, <1>2, <1>9, PlainKeep DEF Kept, PromisingSteps, disk, locals, PromisesBacked, Backed, Verified, Exists,
    NoRb, JournalRb, IInv, Evidence, EvidenceIntact, CurrentPairEvidence

\* A garbage pass keeps what is promised: it is referenced, or a backup that no
\* marker names.
LEMMA GarbageKept ==
    ASSUME IInv, Kept, faults' = 0, NEW extra \in SUBSET DirIds, NEW n \in Nat, CollectGarbage(extra, n),
           \A d \in extra : NotBackup(d),
           UNCHANGED <<stateFile, journal, installed, mem>>, draft' \in {draft, NoJournal},
           pc \notin {"inst_replace", "inst_receipt"}, pc' \notin PromisingSteps
    PROVE  Kept'
<1> DEFINE paths == {d \in marker \cup extra \cup Orphans : Exists(d)}
           doomed == paths \ Referenced
<1>1. /\ dirs' = [d \in DirIds |-> IF d \in doomed THEN Gone ELSE dirs[d]]
      /\ marker' = paths \ doomed BY FaultsStay, CleanCharge DEF CollectGarbage
<1>2. marker \subseteq DirIds /\ NoDir \notin DirIds /\ paths \subseteq DirIds
  BY DirAssumption DEF IInv, TypeOK, DiskOK, Exists
<1>3. \A d \in paths : dirs[d].kind = "rollback" => d \in marker BY <1>2 DEF Orphans, NotBackup, Exists
<1>6. PromisesBacked'
  BY <1>1, <1>3 DEF Kept, PromisesBacked, Backed, Verified, Exists, mem, IInv, Evidence, EvidenceIntact, Referenced,
    OthersAreOthers
<1> QED
  BY <1>1, <1>2, <1>3, <1>6, PlainKeep DEF Kept, CurrentPairEvidence, Verified, Exists, Referenced, NotBackup, Gone,
    mem, OthersAreOthers, NoJournal

\* The garbage passes of a start, of a retirement and of a failed download; the
\* other two follow a failed write.
LEMMA CollectKept ==
    ASSUME IInv, Story, Kept, faults' = 0,
           InitCollect \/ RetireCollect \/ DownloadFails \/ BackupFails \/ InstallDiscard
    PROVE  Kept'
<1>1. CASE InitCollect BY <1>1, GarbageKept DEF InitCollect, Goto, PromisingSteps
<1>2. CASE RetireCollect BY <1>2, GarbageKept DEF RetireCollect, Goto, Return, PromisingSteps
<1>3. CASE DownloadFails
  BY <1>3, GarbageKept DEF DownloadFails, IInv, Evidence, StepsPrepared, Exists, Discard, Fail, PromisingSteps, Kept,
    OthersAreOthers
<1>4. CASE BackupFails BY <1>4, FaultsStay DEF BackupFails, Discard, CollectGarbage, Charge
<1>5. CASE InstallDiscard BY <1>5 DEF InstallDiscard, Kept, StepsKeep
<1> QED BY <1>1, <1>2, <1>3, <1>4, <1>5

\* Steps that write the state only, or the draft.
LEMMA StateKept ==
    ASSUME IInv, Story, Kept, faults' = 0,
           AcknowledgeUpdate \/ AcknowledgeRollback \/ AckState \/ AckReceipt \/ RollbackAckState \/ RetireState
           \/ CheckSettles \/ InstallPublish \/ InstallRestart \/ InstallCommit
           \/ RollbackRestartAgain \/ RollbackPublish \/ RollbackRestart \/ FailureSaves
    PROVE  Kept'
<1>1. CASE AcknowledgeUpdate
  BY <1>1, KeptFrame, PlainKeep DEF AcknowledgeUpdate, MayCheck, Goto, Fail, IInv, TypeOK, DiskOK, Journals, disk,
    PromisingSteps
<1>2. CASE AcknowledgeRollback
  <2>1. /\ UNCHANGED <<disk, rb, curDir>> /\ pc = "idle" /\ pc' \in {"rback_state", "failing"}
        /\ {draft'.tx, draft'.prevDir} \subseteq {draft.tx, draft.prevDir, journal.tx, journal.prevDir}
        /\ pc' = "rback_state" => draft'.rbDir = journal.rbDir
        /\ lastState = "rollback_restart_pending"
    BY <1>2 DEF AcknowledgeRollback, MayCheck, Goto, Fail, IInv, TypeOK, DiskOK, Journals
  <2> QED BY <2>1, KeptFrame DEF disk, StepsKeep, Story, MemoryStory
<1>3. CASE RollbackAckState
  BY <1>3, KeptFrame DEF RollbackAckState, SaveState, Receipt, mem, Goto, Fail, Kept, StepsKeep
<1>4. CASE RetireState BY <1>4, KeptFrame, PlainKeep DEF RetireState, SaveState, Receipt, Goto, Fail, PromisingSteps
<1>5. CASE AckState \/ AckReceipt \/ CheckSettles \/ InstallPublish \/ InstallRestart \/ InstallCommit
           \/ RollbackRestartAgain \/ RollbackPublish \/ RollbackRestart \/ FailureSaves
  <2>1. /\ UNCHANGED <<journal, dirs, marker, rb, curDir>> /\ draft' \in {draft, NoJournal}
    BY <1>5 DEF AckState, AckReceipt, CheckSettles, InstallPublish, InstallRestart, InstallCommit,
      RollbackRestartAgain, RollbackPublish, RollbackRestart, FailureSaves, Return, mem
  <2>2. stateFile'.rb \in {stateFile.rb, rb}
    <3>1. CASE AckState \/ AckReceipt \/ InstallPublish \/ InstallCommit
      BY <3>1 DEF AckState, AckReceipt, InstallPublish, InstallCommit, SaveState, Receipt
    <3>2. CASE CheckSettles \/ RollbackPublish BY <3>2 DEF CheckSettles, RollbackPublish, SaveState, Receipt
    <3>3. CASE InstallRestart \/ RollbackRestartAgain \/ RollbackRestart
      BY <3>3 DEF InstallRestart, RollbackRestartAgain, RollbackRestart, Receipt
    <3>4. CASE FailureSaves BY <3>4 DEF FailureSaves, Receipt
    <3> QED BY <1>5, <3>1, <3>2, <3>3, <3>4
  <2>3. pc \notin {"inst_replace", "inst_receipt"} /\ pc' \notin PromisingSteps
    BY <1>5 DEF AckState, AckReceipt, CheckSettles, InstallPublish, InstallRestart, InstallCommit, InstallStep,
      RollbackRestartAgain, RollbackPublish, RollbackRestart, FailureSaves, Return, Goto, Fail, PromisingSteps
  <2> QED BY <2>1, <2>2, <2>3, KeptFrame, PlainKeep DEF NoJournal
<1> QED BY <1>1, <1>2, <1>3, <1>4, <1>5

\* Steps that write a journal over an identity that is backed.
LEMMA JournalKept ==
    ASSUME IInv, Kept, NEW j, journal' = j, UNCHANGED <<dirs, marker, stateFile>>,
           rb'.dir = rb.dir, j.phase # "none" /\ Verified(j.rbDir, j.rbHash),
           \/ rb' = rb /\ pc \notin {"inst_replace", "inst_receipt"}
           \/ pc' \in {"inst_replace", "inst_receipt"},
           dirs[j.rbDir].kind = "rollback",
           \/ journal.phase # "rollback_acknowledged" /\ (j.rbDir \notin marker \/ j.rbDir = rb.dir)
           \/ j.phase = "rollback_acknowledged" /\ j.rbDir = journal.rbDir,
           {j.tx, j.prevDir, draft'.tx, draft'.prevDir, curDir'} \subseteq
               {draft.tx, draft.prevDir, journal.tx, journal.prevDir, curDir, NoDir},
           j.phase = "rollback_restart_pending" => Verified(j.prevDir, j.prevHash),
           StepsKeep'
    PROVE  Kept'
<1>3. (\A d \in {journal.tx, journal.prevDir, draft.tx, draft.prevDir, curDir} : NotBackup(d))'
  BY DirAssumption DEF Kept, OthersAreOthers, NotBackup, IInv, TypeOK, DiskOK
<1> QED BY <1>3 DEF Kept, OthersAreOthers, PromisesBacked, Backed, Verified, Exists, CurrentPairEvidence

\* The journals of the acknowledgements.
LEMMA AckKept ==
    ASSUME IInv, Story, Kept, faults' = 0, AckJournal \/ RollbackAckJournal
    PROVE  Kept'
<1>1. /\ journal' = draft /\ UNCHANGED <<stateFile, dirs, marker, rb, curDir, draft>>
      /\ pc' \in {"ack_state", "ret_marker"} /\ pc \in {"ack_journal", "rback_journal"}
  BY FaultsStay, CleanSpend DEF AckJournal, RollbackAckJournal, WriteJournal, Goto, mem
<1>2. Verified(draft.rbDir, draft.rbHash) BY <1>1 DEF IInv, Evidence, StepsPrepared, JournalSteps, Sound
<1>4. CASE pc = "ack_journal"
  BY <1>1, <1>2, <1>4, DirAssumption, JournalKept, PlainKeep DEF Story, AcknowledgeStory, Kept, PromisesBacked,
    Backed, Verified, Exists, PromisingSteps, Acked
<1>5. CASE pc = "rback_journal"
  BY <1>5, <1>1, <1>2, JournalKept, PlainKeep DEF Kept, StepsKeep, Story, AcknowledgeStory, PromisesBacked,
    PromisingSteps
<1> QED BY <1>1, <1>4, <1>5

\* The journals of an update, without failures.
LEMMA InstallKept ==
    ASSUME IInv, Story, Kept, faults' = 0,
           InstallPrepared \/ InstallPreparedUnsynced \/ InstallReplace \/ InstallRestore \/ InstallReplaced
           \/ InstallReceipt \/ InstallPending
    PROVE  Kept'
<1>1. CASE InstallPrepared
  BY <1>1, JournalKept DEF InstallPrepared, WriteJournal, Goto, IInv, TypeOK, MemoryOK, RbIds, Kept, StepsKeep,
    Evidence, StepsPrepared, Story, InstallStory, Verified, Exists
<1>2. CASE InstallPreparedUnsynced BY <1>2, FaultsStay, CleanSpend DEF InstallPreparedUnsynced, WriteJournal
<1>3. CASE InstallReplace
  BY <1>3, FaultsStay, CleanSpend DEF InstallReplace, Goto, mem, Kept, PromisesBacked, OthersAreOthers, StepsKeep,
    CurrentPairEvidence, Backed, NotBackup, Verified, Exists
<1>4. CASE InstallRestore BY <1>4 DEF InstallRestore, Kept, StepsKeep
<1>5. CASE InstallReplaced
  BY <1>5, FaultsStay, CleanSpend, JournalKept DEF InstallReplaced, InstallStep, WriteJournal, Goto, IInv, TypeOK,
    ControlOK, Journals, Kept, StepsKeep, Story, InstallStory, Verified, Exists
<1>6. CASE InstallReceipt
  BY <1>6, FaultsStay, CleanSpend, PlainKeep DEF InstallReceipt, InstallStep, SaveState, Receipt, Goto, IInv, TypeOK,
    MemoryOK, RbIds, Kept, StepsKeep, Story, InstallStory, PromisesBacked, Backed, Verified, Exists, OthersAreOthers,
    NotBackup, CurrentPairEvidence, PromisingSteps
<1>7. CASE InstallPending
  BY <1>7, FaultsStay, CleanSpend, DirAssumption, JournalKept, PlainKeep DEF InstallPending, InstallStep,
    WriteJournal, Goto, IInv, TypeOK, ControlOK, Journals, Story, InstallStory, Evidence, StepsPrepared, JournalSteps,
    Sound, Kept, PromisesBacked, Backed, Verified, Exists, PromisingSteps
<1> QED BY <1>1, <1>2, <1>3, <1>4, <1>5, <1>6, <1>7

\* The retirement queues a backup only of a finished rollback.
LEMMA RetireKept ==
    ASSUME IInv, Story, Kept, faults' = 0, RetireMarker \/ RetireUnlink
    PROVE  Kept'
<1>1. CASE RetireMarker
  BY <1>1, RetireStep, PlainKeep DEF RetireMarker, mem, Goto, Fail, IInv, TypeOK, DiskOK, Kept, OthersAreOthers,
    NotBackup, PromisesBacked, CurrentPairEvidence, Backed, Verified, Exists, PromisingSteps
<1>2. CASE RetireUnlink
  BY <1>2, FaultsStay, CleanSpend, CleanCharge, DirAssumption, PlainKeep DEF RetireUnlink, AfterRetirement, Goto,
    Charge, Story, AcknowledgeStory, Receipt, IInv, TypeOK, DiskOK, Kept, OthersAreOthers, NotBackup, NoJournal, NoRb,
    PromisesBacked, CurrentPairEvidence, Backed, Verified, Exists, PromisingSteps
<1> QED BY <1>1, <1>2

\* A new directory is none that anything names.
LEMMA FreshKept ==
    ASSUME IInv, Kept, NEW d \in DirIds, Fresh(d), NEW k \in DirKinds, NEW p \in Pairs,
           dirs' = MakeDir(d, k, p), UNCHANGED <<stateFile, journal, marker, rb>>,
           pc \notin {"inst_replace", "inst_receipt"},
           \A e \in {draft'.tx, draft'.prevDir, curDir'} :
               \/ e \in {draft.tx, draft.prevDir, journal.tx, journal.prevDir, curDir, NoDir}
               \/ e = d /\ k # "rollback",
           StepsKeep'
    PROVE  Kept'
<1>1. marker \subseteq DirIds /\ NoDir \notin DirIds BY DirAssumption DEF IInv, TypeOK, DiskOK
<1>2. dirs'[d].kind = k /\ \A e \in DirIds \ {d} : dirs'[e] = dirs[e]
  BY MakeDirType DEF IInv, TypeOK, DiskOK, DirTable
<1>3. /\ d \notin marker /\ d \notin {stateFile.rb.dir, rb.dir, curDir, journal.tx, journal.rbDir,
                                       journal.prevDir, draft.tx, draft.prevDir} BY DEF Fresh
<1>5. \A e : e # d /\ NotBackup(e) => NotBackup(e)' BY <1>2 DEF NotBackup
<1> QED
  BY <1>1, <1>2, <1>3, <1>5 DEF Kept, PromisesBacked, Backed, Verified, Exists, IInv, Evidence, EvidenceIntact,
    CurrentPairEvidence, OthersAreOthers, NotBackup

\* The directories of an update and of a rollback.
LEMMA DirectoriesKept ==
    ASSUME IInv, Story, Kept, faults' = 0,
           OpenTransaction \/ Backup \/ RollbackSynthesize \/ RollbackStage
    PROVE  Kept'
<1> USE DEF DirKinds
<1>1. installed \in Pairs /\ installed # Blank /\ Blank \in Pairs
  BY CompletePairs, BlankValues DEF IInv, TypeOK, DiskOK
<1>0. ~Spend("lost") BY FaultsStay, CleanSpend
<1>2. CASE OpenTransaction
  <2>1. PICK d \in DirIds :
            /\ Fresh(d) /\ dirs' = MakeDir(d, "transaction", Blank)
            /\ draft'.tx = d /\ draft'.prevDir = NoDir BY <1>2 DEF OpenTransaction, NoJournal
  <2>2. UNCHANGED <<stateFile, journal, marker, rb, curDir>> /\ pc = "check" /\ pc' = "download"
    BY <1>2 DEF OpenTransaction, mem, Goto
  <2> QED BY <1>1, <2>1, <2>2, PlainKeep, FreshKept DEF PromisingSteps
<1>3. CASE Backup
  <2>1. PICK d \in DirIds :
            /\ Fresh(d) /\ dirs' = MakeDir(d, "rollback", installed)
            /\ draft'.rbDir = d /\ draft'.rbHash = installed
            /\ draft'.tx = draft.tx /\ draft'.prevDir = draft.prevDir
    BY <1>3 DEF Backup, IInv, TypeOK, ControlOK, Journals
  <2>2. UNCHANGED <<stateFile, journal, marker, rb, curDir>> /\ pc = "backup" /\ pc' = "inst_prepared"
    BY <1>3 DEF Backup, mem, Goto
  <2> QED
    BY <1>1, <2>1, <2>2, MakeDirType, FreshKept DEF StepsKeep, Fresh, Verified, Exists, IInv, TypeOK, DiskOK, DirTable
<1>4. CASE RollbackSynthesize
  <2>1. PICK d \in DirIds :
            /\ Fresh(d) /\ dirs' = MakeDir(d, "recovery-receipt", Blank)
            /\ draft'.tx = d /\ draft'.prevDir = NoDir BY <1>4, <1>0 DEF RollbackSynthesize, NoJournal
  <2>2. /\ UNCHANGED <<stateFile, journal, marker, rb, curDir>> /\ pc = "rb_begin"
        /\ journal.phase = "none" /\ pc' = "rb_stage"
    BY <1>4, <1>0 DEF RollbackSynthesize, RollbackMayStart, mem, Goto
  <2> QED BY <1>1, <2>1, <2>2, FreshKept DEF StepsKeep
<1>5. CASE RollbackStage
  <2>1. PICK d \in DirIds :
            /\ Fresh(d) /\ dirs' = MakeDir(d, "rollback-current", installed) /\ curDir' = d
            /\ draft'.prevDir = d /\ draft'.prevHash = installed /\ draft'.tx = draft.tx
    BY <1>5, <1>0 DEF RollbackStage, IInv, TypeOK, ControlOK, Journals
  <2>2. /\ UNCHANGED <<stateFile, journal, marker, rb>> /\ pc = "rb_stage" /\ pc' = "rb_journal"
    BY <1>5, <1>0 DEF RollbackStage, Goto
  <2> QED
    BY <1>1, <2>1, <2>2, MakeDirType, FreshKept DEF Kept, StepsKeep, Verified, Exists, IInv, TypeOK, DiskOK, DirTable
<1> QED BY <1>2, <1>3, <1>4, <1>5

\* The artifact goes to the transaction's own directory.
LEMMA DownloadKept ==
    ASSUME IInv, Story, Kept, Download
    PROVE  Kept'
<1>1. /\ UNCHANGED <<stateFile, journal, marker, rb, curDir, draft>>
      /\ pc = "download" /\ pc' = "backup"
      /\ dirs' = [dirs EXCEPT ![draft.tx].pair = Uniform(draft.cand)] BY DEF Download, mem, Goto
<1>2. draft.tx \in DirIds /\ dirs[draft.tx].kind # "rollback" /\ journal.phase = "none"
  BY <1>1 DEF IInv, Evidence, StepsPrepared, Exists, Kept, OthersAreOthers, NotBackup
<1>3. \A d \in DirIds : dirs'[d].kind = dirs[d].kind /\ (d # draft.tx => dirs'[d] = dirs[d])
  BY <1>1, <1>2 DEF IInv, TypeOK, DiskOK
<1> QED
  BY <1>1, <1>2, <1>3, PlainKeep DEF Kept, PromisingSteps, PromisesBacked, Backed, Verified, Exists, OthersAreOthers,
    NotBackup, IInv, TypeOK, DiskOK, CurrentPairEvidence

\* The journals of a rollback, without failures.
LEMMA RollbackKept ==
    ASSUME IInv, Story, Kept, faults' = 0,
           RollbackAdopt \/ RollbackJournal \/ RollbackReplace \/ RollbackCommit \/ RollbackUndo
           \/ RollbackUndone
    PROVE  Kept'
<1>1. CASE RollbackAdopt
  BY <1>1, KeptFrame DEF RollbackAdopt, RollbackMayStart, Goto, Fail, RollbackAdmitted, JournalBoundToRollback,
    Pending, disk, StepsKeep, Verified, Exists
<1>2. CASE RollbackJournal
  <2>1. /\ draft' = [draft EXCEPT !.op = "rollback", !.phase = "rollback_restart_pending",
                                  !.cand = rb.ver, !.cur = rb.ver, !.rbHash = rb.hash,
                                  !.candHash = rb.hash, !.prevDir = curDir]
        /\ journal' = draft' /\ UNCHANGED <<stateFile, dirs, marker, rb, curDir>>
        /\ pc = "rb_journal" /\ pc' = "rb_replace"
    BY <1>2, FaultsStay, CleanSpend DEF RollbackJournal, WriteJournal, Goto
  <2>2. /\ draft'.rbDir = draft.rbDir /\ draft'.rbHash = rb.hash /\ draft'.tx = draft.tx
        /\ draft'.prevDir = curDir /\ draft'.prevHash = draft.prevHash
        /\ draft'.phase = "rollback_restart_pending" BY <2>1 DEF IInv, TypeOK, ControlOK, Journals
  <2>3. /\ draft.rbDir = rb.dir /\ draft.rbHash = rb.hash /\ Verified(draft.rbDir, draft.rbHash)
        /\ Verified(curDir, draft.prevHash) /\ journal.phase # "rollback_acknowledged"
    BY <2>1 DEF IInv, Evidence, StepsPrepared, JournalSteps, Sound, Kept, StepsKeep
  <2>4. dirs[draft.rbDir].kind = "rollback"
    BY <2>1, <2>3, DirAssumption DEF Kept, PromisesBacked, Backed, Verified, Exists
  <2>5. StepsKeep' BY <2>1, <2>2, <2>3 DEF StepsKeep, Verified, Exists
  <2> QED BY <2>1, <2>2, <2>3, <2>4, <2>5, JournalKept
<1>3. CASE RollbackReplace
  BY <1>3, FaultsStay, CleanSpend, KeptFrame DEF RollbackReplace, mem, Goto, Kept, StepsKeep, Verified, Exists
<1>4. CASE RollbackCommit
  BY <1>4, FaultsStay, CleanSpend, DirAssumption, JournalKept, PlainKeep DEF RollbackCommit, WriteJournal, mem, Goto,
    IInv, Evidence, StepsPrepared, JournalSteps, Sound, Kept, StepsKeep, Story, RollbackStory, PromisesBacked, Backed,
    Verified, Exists, PromisingSteps
<1>5. CASE RollbackUndo \/ RollbackUndone BY <1>5 DEF RollbackUndo, RollbackUndone, Kept, StepsKeep
<1> QED BY <1>1, <1>2, <1>3, <1>4, <1>5

\* No step takes a fault back.
LEMMA FaultsGrow ==
    ASSUME faults \in Nat, [Next]_vars, faults' = 0
    PROVE  faults = 0
<1>1. \A o : Spend(o) => faults = 0 BY CleanSpend
<1>2. \A n \in Nat : Charge(n) => faults = 0 BY CleanCharge
<1>3. \A s : \A n \in Nat : CollectGarbage(s, n) => faults = 0 BY <1>2 DEF CollectGarbage
<1>4. UNCHANGED bounds => faults = 0 BY DEF bounds
<1>5. CASE Install
  <2>1. CASE BackupFails \/ InstallDiscard BY <1>3, <2>1 DEF BackupFails, InstallDiscard, Discard
  <2>2. CASE Backup \/ InstallRestored BY <1>4, <2>2 DEF Backup, InstallRestored
  <2>3. CASE InstallRestart BY <1>1, <1>2, <2>3 DEF InstallRestart
  <2>4. CASE InstallPrepared \/ InstallPreparedUnsynced \/ InstallReplace \/ InstallRestore
    BY <1>1, <2>4 DEF InstallPrepared, InstallPreparedUnsynced, InstallReplace, InstallRestore, WriteJournal
  <2>5. CASE InstallReplaced \/ InstallReceipt \/ InstallPending \/ InstallPublish \/ InstallCommit
    BY <1>1, <2>5 DEF InstallReplaced, InstallReceipt, InstallPending, InstallPublish, InstallCommit, WriteJournal,
      SaveState
  <2> QED BY <1>5, <2>1, <2>2, <2>3, <2>4, <2>5 DEF Install
<1>6. CASE RestoreRollback
  <2>1. CASE RollbackRestartAgain \/ RollbackRestart BY <1>1, <1>2, <2>1 DEF RollbackRestartAgain, RollbackRestart
  <2>2. CASE RollbackRefused \/ RollbackAdopt BY <1>4, <2>2 DEF RollbackRefused, RollbackAdopt
  <2>3. CASE RollbackSynthesize \/ RollbackStage \/ RollbackJournal \/ RollbackReplace \/ RollbackCommit
    BY <1>1, <2>3 DEF RollbackSynthesize, RollbackStage, RollbackJournal, RollbackReplace, RollbackCommit,
      WriteJournal
  <2>4. CASE RollbackUndo \/ RollbackUndone \/ RollbackPublish
    BY <1>1, <1>4, <2>4 DEF RollbackUndo, RollbackUndone, RollbackPublish, WriteJournal, SaveState
  <2> QED BY <1>6, <2>1, <2>2, <2>3, <2>4 DEF RestoreRollback
<1>7. CASE Acknowledge
  BY <1>1, <1>7 DEF Acknowledge, AckJournal, AckState, AckReceipt, RollbackAckState, RollbackAckJournal, WriteJournal,
    SaveState
<1>8. CASE Retire
  BY <1>1, <1>2, <1>3, <1>4, <1>8 DEF Retire, RetireMarker, RetireState, RetireUnlink, RetireCollect, SaveState
<1>9. CASE Check
  BY <1>1, <1>3, <1>4, <1>9 DEF Check, CheckSettles, CheckFails, OpenTransaction, Download, DownloadFails, Discard,
    SaveState
<1>10. CASE FailureSaves BY <1>2, <1>10 DEF FailureSaves
<1>11. CASE InitCollect BY <1>3, <1>11 DEF InitCollect
<1>12. CASE InitReceipt \/ CoordinatorExit \/ CheckAndApply \/ RollbackRequested \/ ServiceRestart
            \/ StartDaemon \/ StartCoordinator \/ UNCHANGED vars
  BY <1>4, <1>12 DEF InitReceipt, CoordinatorExit, CheckAndApply, CheckRefused, AcknowledgeUpdate,
    AcknowledgeRollback, CheckStable, RollbackRequested, ServiceRestart, StartDaemon, StartCoordinator, Load, vars
<1>13. CASE Crash BY <1>13 DEF Crash
<1> QED BY <1>5, <1>6, <1>7, <1>8, <1>9, <1>10, <1>11, <1>12, <1>13 DEF Next, Progress

\* Every step keeps what is promised as long as no durable write fails.
LEMMA NextKept == IInv /\ Story /\ Promises /\ [Next]_vars => Promises'
<1> SUFFICES ASSUME IInv, Story, Promises, [Next]_vars, faults' = 0 PROVE Kept' BY DEF Promises
<1>1. Kept BY FaultsStay, FaultsGrow DEF Promises
<1>2. CASE UNCHANGED vars
  BY <1>2, <1>1 DEF vars, disk, mem, locals, Kept, PromisesBacked, OthersAreOthers, StepsKeep, CurrentPairEvidence,
    Backed, NotBackup, Verified, Exists
<1>3. CASE StartDaemon \/ StartCoordinator BY <1>1, <1>3, LoadKept DEF StartDaemon, StartCoordinator
<1>4. CASE ServiceRestart \/ Crash \/ RollbackRequested BY <1>1, <1>4, StillKept
<1>5. CASE CheckAndApply BY <1>1, <1>5, StillKept, StateKept DEF CheckAndApply
<1>6. CASE Progress
  BY <1>1, CollectKept, StillKept, StateKept, AckKept, RetireKept, DirectoriesKept, DownloadKept, InstallKept,
    RollbackKept, <1>6 DEF Acknowledge, Retire, Check, Install, RestoreRollback, Progress
<1> QED BY <1>2, <1>3, <1>4, <1>5, <1>6 DEF Next

\* As long as no durable write fails, both directions of a promised rollback
\* keep their verified copies, however often the process crashes or collects
\* garbage.
THEOREM PromisesKept == Spec => []EvidenceWithoutFaults
<1>1. Init => Promises BY InitKept DEF Promises
<1>2. IInv /\ Story /\ Promises /\ [Next]_vars => Promises' BY NextKept
<1>3. Promises => EvidenceWithoutFaults
  BY DEF Promises, Kept, PromisesBacked, Backed, EvidenceWithoutFaults, AdvertisedRollbackIntact
<1> QED BY <1>1, <1>2, <1>3, StoryHolds, PTL DEF Spec

================================================================================
