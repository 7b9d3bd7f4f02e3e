---------------------------- MODULE ClientUpdater ----------------------------
(***************************************************************************)
(* The desktop and mobile client's own updates (UpdateController): the     *)
(* check for a signed manifest, the one-shot install intent, the download, *)
(* the durable health receipt written before an installer starts, and the  *)
(* rollback of an update whose health was never confirmed, by hand or by   *)
(* itself, under a lease kept in the receipt.                              *)
(*                                                                         *)
(* Versions are numbers and stand for the artifact whose hash the manifest *)
(* gives.  Clocks are abstracted to whether an instant has passed: `late`  *)
(* (deadlineAt), `leaseOver`, `retry = "due"` and the set of expired       *)
(* policies are set by the environment at any time.                        *)
(***************************************************************************)
EXTENDS Naturals, FiniteSets

CONSTANTS FirstVersion,    \* the version installed at the start
          Platforms,       \* "desktop", "android" or both
          MaxIds,          \* bound: receipts, intents and leases created
          MaxChecks,       \* bound: update checks
          MaxCrashes,      \* bound: exits and crashes of the application
          MaxPreHandoff    \* kMaximumAutomaticRollbackPreHandoffFailures

ASSUME ClientAssumption == {FirstVersion, MaxIds, MaxChecks, MaxCrashes, MaxPreHandoff} \subseteq Nat

VARIABLES disk,   \* the settings: accepted policy, receipts, authorization
          mem,    \* the controller's memory
          world   \* running version, installers, expired policies, counters

clientVars == <<disk, mem, world>>

NoPolicy == [gen |-> 0, payload |-> 0]
NoHealthReceipt == [id |-> 0]
NoAuth == [state |-> "none"]
NoIntent == [kind |-> "none", id |-> 0, receipt |-> 0, lease |-> 0, version |-> 0,
             gen |-> 0, payload |-> 0, used |-> FALSE]
\* m_selectedArtifact with m_version, and m_selectedReleasePolicy
NoSelection == [version |-> 0, gen |-> 0, back |-> 0, auto |-> FALSE]
Memory(floor) ==
    [at |-> "running", highest |-> floor, token |-> 0, checking |-> FALSE,
     replies |-> {}, sel |-> NoSelection, selfHosted |-> FALSE, intent |-> NoIntent,
     rollback |-> FALSE, busy |-> FALSE, permission |-> FALSE, prepared |-> FALSE,
     autoMark |-> FALSE, autoQueued |-> FALSE, queue |-> {}, retries |-> {},
     wake |-> FALSE, poll |-> TRUE, download |-> 0]

ClientInit ==
    /\ disk = [acc |-> NoPolicy, receipt |-> NoHealthReceipt, last |-> "none",
               marker |-> 0, auth |-> NoAuth]
    /\ mem = Memory(0)
    /\ \E platform \in Platforms :
          world = [platform |-> platform, version |-> FirstVersion, procs |-> {},
                   expired |-> {}, autoStarts |-> {}, ids |-> 0, checks |-> 0,
                   crashes |-> 0]

(* A handler is a function of [d: disk, m: memory, n: identifiers used].   *)
Here == [d |-> disk, m |-> mem, n |-> world.ids]
ClientBecomes(st) ==
    /\ st.n <= MaxIds
    /\ disk' = st.d
    /\ mem' = st.m
    /\ world' = [world EXCEPT !.ids = st.n]

Running == world.version

-----------------------------------------------------------------------------
(* Receipts.                                                               *)

\* isPendingHealthReceiptValid
ReceiptValid(r) ==
    /\ r.id > 0 /\ r.gen > 0
    /\ r.fails \in 0..MaxPreHandoff
    /\ r.retry # "none" => r.fails \in 1..(MaxPreHandoff - 1) /\ ~r.terminal
    /\ r.state = "pending" => /\ r.rb = "" /\ r.intent = 0 /\ r.lease = 0 /\ r.handoff = 0
                              /\ r.fails = 0 /\ r.retry = "none" /\ ~r.terminal
    /\ r.rb = "" => r.intent = 0 /\ r.lease = 0 /\ r.handoff = 0
    /\ r.rb = "leased" => /\ r.intent > 0 /\ r.lease > 0 /\ r.handoff = 0
                          /\ r.origin = "automatic" => r.retry = "none"
                          /\ r.recoveries \in 0..1
    /\ r.rb = "confirming" => /\ r.intent > 0 /\ r.lease = 0 /\ r.handoff > 0
                              /\ r.retry = "none"

Pending(d) == d.receipt # NoHealthReceipt

\* receiptMatchesAcceptedPolicy
MatchesAccepted(d, r) == d.acc.gen = r.gen /\ d.acc.payload = r.payload

\* rollbackArtifactFromReceipt: an Android build never installs one
HasArtifact(r) == world.platform # "android" /\ r.back # 0

\* automaticRollbackRunningVersionAllowed
RunningTarget(r) == Running = r.target /\ Running # r.back

\* the receipt of an update about to be handed to its installer
NewReceipt(st, id) ==
    [id |-> id, target |-> st.m.sel.version, source |-> Running, gen |-> st.m.sel.gen,
     payload |-> st.d.acc.payload, back |-> st.m.sel.back, state |-> "pending",
     late |-> FALSE, sourceLate |-> FALSE, rb |-> "", origin |-> "none", intent |-> 0,
     lease |-> 0, leaseOver |-> FALSE, recoveries |-> 0, handoff |-> 0, fails |-> 0,
     retry |-> "none", terminal |-> FALSE]

\* finishPendingHealthReceipt
FinishReceipt(st, status, clear) ==
    [st EXCEPT !.d.last = status,
               !.d.receipt = IF clear THEN NoHealthReceipt
                             ELSE [@ EXCEPT !.state = "failed"]]

\* the fields every end of an attempt removes
WithoutAttempt(r) ==
    [r EXCEPT !.rb = "", !.intent = 0, !.origin = "none", !.lease = 0,
              !.leaseOver = FALSE, !.recoveries = 0, !.handoff = 0]

\* rollbackSourceDeadlineAt is put back when a handoff is undone
SourceDeadline(r) == IF r.rb = "confirming" THEN [r EXCEPT !.late = r.sourceLate] ELSE r

Attempt(r) == [receipt |-> r.id, intent |-> r.intent, lease |-> r.lease]

-----------------------------------------------------------------------------
(* Rollback: the lease, its recovery and its end.                          *)

\* claimRollbackIntent
MayClaim(d, origin) ==
    LET r == d.receipt IN
    /\ Pending(d) /\ ReceiptValid(r) /\ MatchesAccepted(d, r)
    /\ r.state = "failed" /\ r.rb = "" /\ RunningTarget(r) /\ HasArtifact(r)
    /\ origin = "automatic" => /\ r.fails < MaxPreHandoff
                               /\ ~r.terminal /\ r.retry # "waiting"

Leased(r, origin, intent, lease) ==
    [r EXCEPT !.rb = "leased", !.origin = origin, !.intent = intent, !.lease = lease,
              !.leaseOver = FALSE, !.recoveries = 0,
              !.retry = IF origin = "automatic" THEN "none" ELSE @]

Claim(st, origin) ==
    [st EXCEPT !.n = @ + 2, !.d.receipt = Leased(st.d.receipt, origin, st.n + 1, st.n + 2)]

\* scheduleAutomaticRollbackRetry
ScheduleRetry(st) ==
    LET r == st.d.receipt IN
    IF ReceiptValid(r) /\ r.state = "failed" /\ r.rb = "" /\ ~r.terminal
       /\ r.fails \in 1..(MaxPreHandoff - 1) /\ r.retry # "none"
    THEN [st EXCEPT !.m.retries = @ \cup {[receipt |-> r.id, fails |-> r.fails]}]
    ELSE st

\* the controller's own installation attempt holds exactly this lease
OwnsLease(m, r) ==
    /\ m.busy /\ m.rollback /\ m.intent.kind = "rollback" /\ m.intent.used
    /\ m.intent.receipt = r.id /\ m.intent.id = r.intent /\ m.intent.lease = r.lease

\* recoverAutomaticRollbackLease with evaluateRollbackLease: once, then terminal
RecoverLease(st) ==
    LET r == st.d.receipt IN
    CASE OwnsLease(st.m, r) \/ ~r.leaseOver -> [st EXCEPT !.m.wake = TRUE]
      [] r.leaseOver /\ ~OwnsLease(st.m, r) /\ r.recoveries >= 1 ->
            [st EXCEPT !.d.receipt = [WithoutAttempt(r) EXCEPT !.terminal = TRUE]]
      [] OTHER ->
            LET renewed == [r EXCEPT !.lease = st.n + 1, !.leaseOver = FALSE,
                                     !.recoveries = @ + 1]
            IN [st EXCEPT !.n = @ + 1, !.d.receipt = renewed,
                          !.m.queue = @ \cup {Attempt(renewed)}]

\* scheduleAutomaticRollbackIfEligible
ScheduleAutomatic(st) ==
    LET r == st.d.receipt IN
    IF st.m.busy \/ st.m.permission \/ st.m.rollback \/ r.state # "failed" \/ r.rb = "confirming"
    THEN st
    ELSE IF r.rb = "leased" THEN IF r.origin = "automatic" THEN RecoverLease(st) ELSE st
    ELSE IF ~r.terminal /\ r.retry = "waiting" THEN ScheduleRetry(st)
    ELSE IF ~r.terminal /\ r.back = r.source /\ MayClaim(st.d, "automatic")
         THEN LET claimed == Claim(st, "automatic")
              IN [claimed EXCEPT !.m.queue = @ \cup {Attempt(claimed.d.receipt)}]
    ELSE st

\* the receipt after a failed attempt: an automatic one is counted, retried
\* later or given up
CountedFailure(r, permanent) ==
    LET fails == IF r.fails + 1 > MaxPreHandoff THEN MaxPreHandoff ELSE r.fails + 1
        retry == ~permanent /\ fails < MaxPreHandoff
        ended == WithoutAttempt(SourceDeadline(r))
    IN IF r.origin # "automatic" THEN ended
       ELSE [ended EXCEPT !.fails = fails, !.retry = IF retry THEN "waiting" ELSE "none",
                          !.terminal = ~retry]

\* recordRollbackHandoffFailure: a stale attempt changes nothing
RecordFailure(st, a, permanent) ==
    LET r == st.d.receipt
        stored == [st EXCEPT !.d.receipt = CountedFailure(r, permanent)]
    IN IF \/ a.receipt = 0 \/ a.intent = 0 \/ a.lease = 0
          \/ ~Pending(st.d) \/ ~ReceiptValid(r) \/ r.rb = ""
          \/ a.receipt # r.id \/ a.intent # r.intent
          \/ a.lease # (IF r.rb = "confirming" THEN r.handoff ELSE r.lease)
       THEN st
       ELSE IF stored.d.receipt.retry # "none" THEN ScheduleRetry(stored) ELSE stored

-----------------------------------------------------------------------------
(* refreshPendingUpdateHealth: what the stored receipt means by now.       *)

\* a handed-off rollback that is simply tried again
RefreshConfirmingRetry(st) ==
    LET r == st.d.receipt IN
    IF ~r.late THEN [st EXCEPT !.m.wake = TRUE]
    ELSE ScheduleAutomatic([st EXCEPT !.d.receipt = WithoutAttempt(SourceDeadline(r))])

\* the confirmation window of a handed-off rollback
RefreshConfirming(st) ==
    LET r == st.d.receipt IN
    CASE ~r.late -> [st EXCEPT !.m.wake = TRUE]
      [] r.late /\ Running = r.back -> FinishReceipt(st, "failed", TRUE)
      [] OTHER -> [st EXCEPT !.d.receipt =
                     [WithoutAttempt(SourceDeadline(r)) EXCEPT !.terminal = TRUE]]

\* a lease left by an interrupted attempt
RefreshLeased(st) ==
    LET r == st.d.receipt IN
    CASE r.origin = "automatic" -> RecoverLease(st)
      [] r.origin # "automatic" /\ ~r.leaseOver -> [st EXCEPT !.m.wake = TRUE]
      [] OTHER -> LET cleared == [st EXCEPT !.d.receipt = WithoutAttempt(r)]
                  IN IF r.retry # "none" THEN ScheduleRetry(cleared) ELSE cleared

Refresh(st) ==
    LET r == st.d.receipt IN
    CASE ~Pending(st.d) -> st
      [] Pending(st.d) /\ ~ReceiptValid(r) ->
            [st EXCEPT !.d.last = "failed", !.d.receipt = NoHealthReceipt]
      [] Pending(st.d) /\ ReceiptValid(r) /\ r.state = "failed" ->
            (CASE r.rb = "confirming" -> RefreshConfirming(st)
               [] r.rb = "leased" -> RefreshLeased(st)
               [] r.rb = "" /\ r.back # 0 /\ Running = r.back ->
                     FinishReceipt(st, "failed", TRUE)
               [] OTHER -> ScheduleAutomatic(st))
      [] Pending(st.d) /\ ReceiptValid(r) /\ r.state = "pending" ->
            IF ~r.late THEN st
            ELSE LET keep == HasArtifact(r) /\ Running # r.back
                     over == FinishReceipt(st, "failed", ~keep)
                 IN IF keep THEN ScheduleAutomatic(over) ELSE over

\* confirmRunningVersionHealthy
ConfirmHealthy(st) ==
    LET r == st.d.receipt IN
    IF ~Pending(st.d) \/ ~ReceiptValid(r) \/ r.late THEN Refresh(st)
    ELSE IF r.rb = "confirming" /\ r.back # 0 /\ Running = r.back
         THEN FinishReceipt(st, "rolled_back", TRUE)
    ELSE IF r.state = "pending" /\ Running = r.target THEN FinishReceipt(st, "healthy", TRUE)
    ELSE st

\* isUpdateHealthConfirmationPending
ConfirmationPending(d) ==
    Pending(d) /\ ReceiptValid(d.receipt)
    /\ (d.receipt.rb = "confirming" \/ d.receipt.state # "failed")

-----------------------------------------------------------------------------
(* The install intent and the end of an attempt.                           *)

\* clearInstallSelection
ClearSelection(m) ==
    [m EXCEPT !.intent = NoIntent, !.sel = NoSelection, !.selfHosted = FALSE,
              !.rollback = FALSE]

\* installIntentMatchesSelection
IntentMatches(st) ==
    LET i == st.m.intent  r == st.d.receipt IN
    /\ st.m.selfHosted /\ i.kind # "none" /\ i.version = st.m.sel.version
    /\ i.kind = "update" =>
          /\ ~st.m.rollback /\ i.gen = st.m.sel.gen
          /\ i.gen > 0 => st.d.acc.gen = i.gen /\ st.d.acc.payload = i.payload
    /\ i.kind = "rollback" =>
          /\ st.m.rollback /\ Pending(st.d) /\ ReceiptValid(r) /\ MatchesAccepted(st.d, r)
          /\ r.rb = "leased" /\ r.id = i.receipt /\ r.intent = i.id /\ r.lease = i.lease
          /\ Running = r.target

IntentAttempt(m) == [receipt |-> m.intent.receipt, intent |-> m.intent.id,
                     lease |-> m.intent.lease]

PolicyExpired(sel) == sel.gen > 0 /\ sel.gen \in world.expired

\* finishSelfHostedInstallerAttempt(Failed), with
\* cancelPreparedSelfHostedInstallerHandoff
Withdraw(st) ==
    IF st.m.prepared /\ st.d.auth # NoAuth THEN [st EXCEPT !.d.auth = NoAuth]
    ELSE IF st.m.rollback THEN RecordFailure(st, IntentAttempt(st.m), FALSE)
    ELSE IF st.m.prepared /\ Pending(st.d) /\ st.m.sel.gen > 0
            /\ st.d.receipt.target = st.m.sel.version
         THEN [st EXCEPT !.d.receipt = NoHealthReceipt]
         ELSE st

\* what every end of an attempt resets in memory
Released(m) ==
    [ClearSelection(m) EXCEPT !.prepared = FALSE, !.permission = FALSE, !.busy = FALSE,
                              !.autoMark = FALSE]

InstallFailed(st) ==
    LET w == Withdraw(st) IN [w EXCEPT !.m = Released(w.m)]

\* finishSelfHostedInstallerAttempt(Started)
InstallStarted(st) ==
    [st EXCEPT !.d.marker = IF st.m.autoMark THEN st.m.sel.version ELSE @,
               !.m = Released(st.m)]

\* runInstaller up to the start of the download
RunInstaller(st) ==
    CASE ~st.m.selfHosted -> st
      [] st.m.selfHosted /\ st.m.busy -> st
      [] st.m.selfHosted /\ ~st.m.busy
         /\ (st.m.intent.used \/ ~IntentMatches(st)
             \/ (~st.m.rollback /\ PolicyExpired(st.m.sel))) ->
            [st EXCEPT !.m = [ClearSelection(@) EXCEPT !.autoMark = FALSE]]
      [] OTHER ->
            [st EXCEPT !.m.intent.used = TRUE, !.m.busy = TRUE,
                       !.m.download = st.m.sel.version]

Started(before, after) == after.m.download # 0 /\ before.m.download = 0

\* the selection and the one-shot intent of a rollback
ArmRollback(m, r, a) ==
    [m EXCEPT !.sel = [@ EXCEPT !.version = r.back], !.selfHosted = TRUE, !.autoMark = FALSE,
              !.rollback = TRUE,
              !.intent = [kind |-> "rollback", id |-> a.intent, receipt |-> a.receipt,
                          lease |-> a.lease, version |-> r.back, gen |-> r.gen,
                          payload |-> r.payload, used |-> FALSE]]

\* runPendingRollbackWithIntent
RunRollback(st, a) ==
    LET r == st.d.receipt IN
    CASE ~Pending(st.d) \/ r.rb # "leased" \/ Attempt(r) # a -> st
      [] Pending(st.d) /\ r.rb = "leased" /\ Attempt(r) = a
         /\ (~ReceiptValid(r) \/ r.leaseOver) -> Refresh(st)
      [] Pending(st.d) /\ r.rb = "leased" /\ Attempt(r) = a /\ ReceiptValid(r) /\ ~r.leaseOver
         /\ (~MatchesAccepted(st.d, r) \/ Running # r.target \/ ~HasArtifact(r)) ->
            RecordFailure(st, a, TRUE)
      [] OTHER ->
            LET armed == [st EXCEPT !.m = ArmRollback(st.m, r, a)]
                ran == RunInstaller(armed)
            IN IF Started(armed, ran) THEN ran
               ELSE LET failed == RecordFailure(ran, a, FALSE)
                    IN [failed EXCEPT !.m = ClearSelection(@)]

\* recordInstallerHandoffReceipt; a receipt of another target is superseded
RecordHandoff(st) ==
    IF st.m.sel.gen = 0 \/ PolicyExpired(st.m.sel) \/ st.d.acc.gen # st.m.sel.gen
    THEN [ok |-> FALSE, st |-> st]
    ELSE LET other == Pending(st.d) /\ st.d.receipt.target # st.m.sel.version
             s1 == IF other THEN FinishReceipt(st, "failed", TRUE) ELSE st
         IN [ok |-> TRUE,
             st |-> [s1 EXCEPT !.n = @ + 1, !.d.receipt = NewReceipt(st, st.n + 1)]]

\* the lease turned into the handoff of the rollback's installer
HandedOff(r, lease) ==
    [r EXCEPT !.rb = "confirming", !.handoff = lease, !.lease = 0, !.leaseOver = FALSE,
              !.sourceLate = r.late, !.late = FALSE, !.retry = "none"]

\* a rollback handed off without looking at its lease again
RecordRollbackUnchecked(st) ==
    LET r == st.d.receipt IN
    IF ~Pending(st.d) \/ r.rb # "leased" THEN [ok |-> TRUE, st |-> st]
    ELSE [ok |-> TRUE, st |-> [st EXCEPT !.d.receipt = HandedOff(r, st.m.intent.lease)]]

\* recordRollbackHandoff: only the exact, unexpired lease may hand off
RecordRollback(st) ==
    LET r == st.d.receipt  i == st.m.intent IN
    IF \/ i.kind # "rollback" \/ ~i.used \/ ~Pending(st.d) \/ ~ReceiptValid(r)
       \/ ~MatchesAccepted(st.d, r) \/ r.rb # "leased" \/ r.intent # i.id \/ r.id # i.receipt
       \/ r.lease # i.lease \/ Running # r.target \/ r.back # i.version \/ r.leaseOver
    THEN [ok |-> FALSE, st |-> st]
    ELSE [ok |-> TRUE, st |-> Refresh([st EXCEPT !.d.receipt = HandedOff(r, r.lease)])]

\* prepareSelfHostedInstallerHandoff on the desktop; a manifest without a
\* policy has no health contract
PrepareHandoff(st) ==
    CASE ~st.m.rollback /\ st.m.sel.gen = 0 -> [ok |-> TRUE, st |-> st]
      [] st.m.rollback -> RecordRollback(st)
      [] OTHER -> RecordHandoff(st)

-----------------------------------------------------------------------------
(* Android: the package installer is started by the system's activity, so  *)
(* the handoff is an authorization that becomes the receipt when the       *)
(* activity reports the start.                                             *)

\* isAndroidApkInstallerAuthorizationValid
AuthValid(d) ==
    /\ d.auth # NoAuth
    /\ d.auth.gen > 0 => d.auth.gen = d.acc.gen /\ d.auth.payload = d.acc.payload

\* the authorization of an update about to be handed to the activity
NewAuthorization(st, id) ==
    LET governed == st.m.sel.gen > 0 IN
    [state |-> "prepared", id |-> id, source |-> Running, version |-> st.m.sel.version,
     gen |-> st.m.sel.gen, payload |-> IF governed THEN st.d.acc.payload ELSE 0,
     over |-> FALSE, auto |-> st.m.autoMark,
     receipt |-> IF governed THEN NewReceipt(st, id) ELSE NoHealthReceipt]

\* prepareAndroidApkInstallerAuthorization: never a rollback, never over a
\* valid authorization; a receipt of another target is superseded already here
PrepareApk(st) ==
    IF \/ st.m.rollback \/ AuthValid(st.d) \/ PolicyExpired(st.m.sel)
       \/ (st.m.sel.gen > 0 /\ st.d.acc.gen # st.m.sel.gen)
    THEN [ok |-> FALSE, st |-> IF st.m.rollback \/ AuthValid(st.d) THEN st
                               ELSE [st EXCEPT !.d.auth = NoAuth]]
    ELSE LET governed == st.m.sel.gen > 0
             other == governed /\ Pending(st.d) /\ ReceiptValid(st.d.receipt)
                      /\ st.d.receipt.target # st.m.sel.version
             s1 == IF other THEN FinishReceipt(st, "failed", TRUE) ELSE st
         IN [ok |-> TRUE,
             st |-> [s1 EXCEPT !.n = @ + 1,
                       !.d.auth = NewAuthorization(st, st.n + 1)]]

\* authorizeAndroidApkInstallerLaunch
MayAuthorize(d) ==
    AuthValid(d) /\ d.auth.state = "prepared" /\ ~d.auth.over /\ Running = d.auth.source

\* finalizeAndroidApkInstallerLaunch: the receipt, the marker, then the end of
\* the authorization
FinalizeApk(st) ==
    LET a == st.d.auth IN
    IF ~AuthValid(st.d) \/ a.state # "authorized" THEN st
    ELSE [st EXCEPT !.d.receipt = IF a.gen > 0 THEN [a.receipt EXCEPT !.late = FALSE] ELSE @,
                    !.d.marker = IF a.auto THEN a.version ELSE @,
                    !.d.auth = NoAuth]

\* failAndroidApkInstallerLaunch
FailApk(st) ==
    IF ~AuthValid(st.d) THEN st
    ELSE [st EXCEPT !.d.auth = NoAuth, !.m = Released(st.m)]

\* recoverAndroidApkInstallerAuthorization, after a restart
RecoverApk(st) ==
    LET a == st.d.auth IN
    CASE a = NoAuth -> st
      [] a # NoAuth /\ ~AuthValid(st.d) -> [st EXCEPT !.d.auth = NoAuth]
      [] a # NoAuth /\ AuthValid(st.d) /\ a.state = "authorized" /\ Running = a.version ->
            FinalizeApk(st)
      [] a # NoAuth /\ AuthValid(st.d) /\ Running # a.source
         /\ ~(a.state = "authorized" /\ Running = a.version) -> FailApk(st)
      [] OTHER -> IF a.over THEN FailApk(st)
                  ELSE [st EXCEPT !.m.busy = TRUE, !.m.permission = TRUE]

-----------------------------------------------------------------------------
(* The update check.                                                       *)

\* evaluateGenerationBinding, acceptPolicyGeneration
Binding(st, mf) ==
    LET floor == IF st.m.highest > st.d.acc.gen THEN st.m.highest ELSE st.d.acc.gen IN
    CASE mf.gen < floor -> "stale"
      [] mf.gen > floor -> "advance"
      [] mf.gen = floor /\ st.d.acc.gen # mf.gen -> "unbound"
      [] mf.gen = floor /\ st.d.acc.gen = mf.gen ->
            IF st.d.acc.payload = mf.payload THEN "existing" ELSE "conflict"

AcceptPolicy(st, mf) ==
    [st EXCEPT !.d.acc = [gen |-> mf.gen, payload |-> mf.payload], !.m.highest = mf.gen]

\* the shape a signed policy must have: it rolls back to an older version only
WellFormedPolicy(mf) == mf.gen > 0 => (mf.rollback = 0 \/ mf.rollback < mf.version)

\* the end of evaluateReleasePolicy; `eligible` stands for the version range and
\* the rollout cohort
PolicyAdmits(mf, eligible) == mf.gen = 0 \/ (eligible /\ mf.gen \notin world.expired)

\* selectSelfHostedArtifact: this platform's artifact and the one to roll back to
SelectArtifact(mf) == [version |-> mf.version, gen |-> mf.gen, back |-> mf.rollback,
                       auto |-> mf.auto]

\* armUpdateInstallIntent: a fresh one-shot intent for exactly this selection
ArmUpdate(st, sel) ==
    [st EXCEPT !.n = @ + 1, !.m.sel = sel, !.m.selfHosted = TRUE,
               !.m.intent = [NoIntent EXCEPT !.kind = "update", !.id = st.n + 1,
                                !.version = sel.version, !.gen = sel.gen,
                                !.payload = IF sel.gen > 0 THEN st.d.acc.payload ELSE 0]]

\* evaluateReleasePolicy and processSelfHostedManifest: a channel that once had a
\* policy never goes back to none, an unbound or conflicting generation is refused
ProcessManifest(st, mf, eligible) ==
    LET downgrade == mf.gen = 0 /\ (st.m.highest > 0 \/ st.d.acc.gen > 0)
        bound == mf.gen = 0 \/ Binding(st, mf) \in {"advance", "existing"}
        accepted == IF mf.gen = 0 THEN st ELSE AcceptPolicy(st, mf)
    IN CASE downgrade \/ ~WellFormedPolicy(mf) -> [result |-> "invalid", st |-> st]
         [] ~downgrade /\ WellFormedPolicy(mf) /\ ~bound -> [result |-> "stale", st |-> st]
         [] OTHER -> IF PolicyAdmits(mf, eligible) /\ mf.version > Running
                     THEN [result |-> "available",
                           st |-> ArmUpdate(accepted, SelectArtifact(mf))]
                     ELSE [result |-> "none", st |-> accepted]

FinishCheck(st) == [st EXCEPT !.m.checking = FALSE]

\* scheduleSelfHostedAutoInstall: once a day for one artifact
ScheduleAutoInstall(st) ==
    IF st.m.sel.auto /\ st.d.marker # st.m.sel.version
    THEN [st EXCEPT !.m.autoMark = TRUE, !.m.autoQueued = TRUE] ELSE st

ClientAlive == mem.at = "running"

\* checkForUpdates
CheckForUpdates ==
    /\ ClientAlive /\ ~mem.checking /\ ~mem.busy /\ ~mem.permission /\ world.checks < MaxChecks
    /\ LET token == world.checks + 1
       IN mem' = [ClearSelection(mem) EXCEPT !.checking = TRUE, !.token = token,
                                             !.autoMark = FALSE,
                                             !.replies = @ \cup {token}]
    /\ world' = [world EXCEPT !.checks = @ + 1]
    /\ UNCHANGED disk

\* the finished callback of fetchSelfHostedManifestFromUrls for manifest mf;
\* a refused one is asked for at the next address, which the same reply stands for
ManifestReply(mf, eligible) ==
    /\ ClientAlive
    /\ \E t \in mem.replies :
        LET st == [Here EXCEPT !.m.replies = @ \ {t}]
            p == ProcessManifest(st, mf, eligible)
        IN CASE ~mem.checking \/ t # mem.token -> ClientBecomes(st)
             [] mem.checking /\ t = mem.token /\ p.result = "available" ->
                    ClientBecomes(FinishCheck(ScheduleAutoInstall(p.st)))
             [] OTHER -> ClientBecomes(FinishCheck(p.st))

\* the same callback when no address answers with a manifest
NoManifestReply ==
    /\ ClientAlive
    /\ \E t \in mem.replies :
        LET st == [Here EXCEPT !.m.replies = @ \ {t}]
        IN ClientBecomes(IF mem.checking /\ t = mem.token THEN FinishCheck(st) ELSE st)

\* the timeout of the check; its replies become inert
CheckTimeout ==
    /\ ClientAlive /\ mem.checking
    /\ ClientBecomes([FinishCheck(Here) EXCEPT !.m.token = 0])

-----------------------------------------------------------------------------
(* Installing.                                                             *)

\* the user's runInstaller
UserInstall ==
    /\ ClientAlive /\ mem.selfHosted
    /\ ClientBecomes(RunInstaller(Here))

\* the runInstaller queued by scheduleSelfHostedAutoInstall
AutoInstall ==
    /\ ClientAlive /\ mem.autoQueued
    /\ ClientBecomes(RunInstaller([Here EXCEPT !.m.autoQueued = FALSE]))

\* the download ends: startArtifactDownload's finished callback compares the
\* bytes with the artifact selected now, and launchDownloadedArtifact records
\* the handoff before the installer may start
DownloadFinished ==
    /\ ClientAlive /\ mem.download # 0
    /\ \E received \in BOOLEAN :
        LET st == [Here EXCEPT !.m.download = 0]
            verified == received /\ mem.download = mem.sel.version
            expired == ~mem.rollback /\ PolicyExpired(mem.sel)
            prepared == IF mem.prepared THEN [ok |-> TRUE, st |-> st]
                        ELSE IF world.platform = "android" THEN PrepareApk(st)
                        ELSE PrepareHandoff(st)
        IN CASE ~verified \/ expired -> ClientBecomes(InstallFailed(st))
             [] verified /\ ~expired /\ ~prepared.ok -> ClientBecomes(InstallFailed(prepared.st))
             [] OTHER -> ClientBecomes([prepared.st EXCEPT !.m.prepared = TRUE, !.m.at = "launch"])

\* an installer process: what it installs and which attempt started it
Process(m) == [kind |-> m.intent.kind, version |-> m.sel.version, gen |-> m.sel.gen,
               lease |-> m.intent.lease]

\* runWindowsInstaller, runMacInstaller, runLinuxInstaller start the process
LaunchInstaller ==
    /\ mem.at = "launch" /\ world.platform = "desktop"
    /\ disk' = InstallStarted(Here).d
    /\ mem' = [InstallStarted(Here).m EXCEPT !.at = "running"]
    /\ world' = [world EXCEPT
          !.procs = @ \cup {Process(mem)},
          !.autoStarts = IF mem.rollback /\ disk.receipt.origin = "automatic"
                         THEN @ \cup {[receipt |-> disk.receipt.id, lease |-> mem.intent.lease]}
                         ELSE @]

\* the process cannot be started
LaunchFails ==
    /\ mem.at = "launch" /\ world.platform = "desktop"
    /\ ClientBecomes([InstallFailed(Here) EXCEPT !.m.at = "running"])

\* installApk opens the system's permission settings instead
ApkPermissionNeeded ==
    /\ mem.at = "launch" /\ world.platform = "android"
    /\ ClientBecomes([Here EXCEPT !.m.at = "running", !.m.prepared = FALSE, !.m.permission = TRUE])

\* the activity asks for authorization, at once or after the permission came;
\* without it the launch is reported as failed
ApkAuthorize ==
    /\ mem.at = "launch" \/ (ClientAlive /\ mem.permission)
    /\ world.platform = "android"
    /\ IF MayAuthorize(disk)
       THEN ClientBecomes([Here EXCEPT !.d.auth.state = "authorized", !.m.at = "starting"])
       ELSE ClientBecomes([FailApk(Here) EXCEPT !.m.at = "running"])

\* the package installer's activity starts
ApkStart ==
    /\ mem.at = "starting"
    /\ mem' = [mem EXCEPT !.at = "started"]
    /\ world' = [world EXCEPT
          !.procs = @ \cup {[kind |-> "update", version |-> disk.auth.version,
                             gen |-> disk.auth.gen, lease |-> 0]}]
    /\ UNCHANGED disk

\* onAndroidApkInstallerStarted, and the end of the attempt that waited for it
ApkStarted ==
    /\ mem.at = "started"
    /\ IF AuthValid(disk)
       THEN ClientBecomes([FinalizeApk(Here) EXCEPT !.m = [Released(mem) EXCEPT !.at = "running"]])
       ELSE ClientBecomes([Here EXCEPT !.m.at = "running"])

\* onAndroidApkInstallerStartFailed
ApkStartFails ==
    /\ mem.at \in {"launch", "starting"} /\ world.platform = "android"
    /\ ClientBecomes([FailApk(Here) EXCEPT !.m.at = "running"])

\* the timer of the authorization
ExpireApk ==
    /\ ClientAlive /\ AuthValid(disk) /\ disk.auth.over
    /\ ClientBecomes(FailApk(Here))

\* the wait for the permission ends
AuthorizationEnds ==
    /\ disk.auth # NoAuth /\ ~disk.auth.over
    /\ disk' = [disk EXCEPT !.auth.over = TRUE]
    /\ UNCHANGED <<mem, world>>

\* the installer replaces the application and ends it if it still runs
InstallerFinishes ==
    /\ \E p \in world.procs :
          world' = [world EXCEPT !.procs = @ \ {p}, !.version = p.version]
    /\ mem' = [Memory(0) EXCEPT !.at = "down"]
    /\ UNCHANGED disk

\* the installer is cancelled or fails
InstallerGivesUp ==
    /\ \E p \in world.procs : world' = [world EXCEPT !.procs = @ \ {p}]
    /\ UNCHANGED <<disk, mem>>

-----------------------------------------------------------------------------
(* Rolling back, timers, restarts and the passing of time.                 *)

\* the queued runPendingRollbackWithIntent
QueuedRollback ==
    /\ ClientAlive
    /\ \E a \in mem.queue : ClientBecomes(RunRollback([Here EXCEPT !.m.queue = @ \ {a}], a))

\* getRollbackActionMetadata
RollbackAvailable ==
    LET r == disk.receipt IN
    /\ world.platform # "android"
    /\ Pending(disk) /\ r.rb = "" /\ MatchesAccepted(disk, r) /\ ReceiptValid(r)
    /\ HasArtifact(r) /\ Running = r.target /\ Running # r.back
    /\ ~mem.busy /\ ~mem.permission
    /\ r.late \/ r.state = "failed"

\* runPendingRollback
ManualRollback ==
    /\ ClientAlive /\ RollbackAvailable /\ MayClaim(disk, "manual")
    /\ LET claimed == Claim(Here, "manual")
       IN ClientBecomes(RunRollback(claimed, Attempt(claimed.d.receipt)))

\* the timer of scheduleAutomaticRollbackRetry
RetryTimer ==
    /\ ClientAlive
    /\ \E t \in mem.retries :
        LET st == [Here EXCEPT !.m.retries = @ \ {t}]
            r == disk.receipt
        IN IF ~Pending(disk) \/ ~ReceiptValid(r) \/ r.id # t.receipt \/ r.rb # ""
              \/ r.terminal \/ r.fails # t.fails \/ r.retry = "none"
           THEN ClientBecomes(st)
           ELSE IF r.retry = "waiting" THEN ClientBecomes(ScheduleRetry(st))
           ELSE ClientBecomes(ScheduleAutomatic(st))

\* the timers of refreshPendingUpdateHealth and recoverAutomaticRollbackLease
HealthTimer ==
    /\ ClientAlive /\ mem.wake
    /\ ClientBecomes(Refresh([Here EXCEPT !.m.wake = FALSE]))

\* confirmRunningVersionHealthWhenReady; `ready` is the service and the window
ConfirmPoll ==
    /\ ClientAlive /\ mem.poll
    /\ \E ready \in BOOLEAN :
        LET st == Refresh([Here EXCEPT !.m.poll = FALSE])
            tried == IF ready THEN ConfirmHealthy(st) ELSE st
        IN CASE ~ConfirmationPending(st.d) -> ClientBecomes(st)
             [] ConfirmationPending(st.d) /\ ~ConfirmationPending(tried.d) -> ClientBecomes(tried)
             [] OTHER -> IF tried.d.receipt.late THEN ClientBecomes(Refresh(tried))
                         ELSE ClientBecomes([tried EXCEPT !.m.poll = TRUE])

\* forceQuit, or a crash at any point, between the handoff and the launch too
Exit ==
    /\ mem.at # "down" /\ world.crashes < MaxCrashes
    /\ mem' = [Memory(0) EXCEPT !.at = "down"]
    /\ world' = [world EXCEPT !.crashes = @ + 1]
    /\ UNCHANGED disk

\* the constructor of UpdateController
Restart ==
    /\ mem.at = "down"
    /\ LET fresh == [Here EXCEPT !.m = Memory(disk.acc.gen)]
       IN ClientBecomes(Refresh(RecoverApk(fresh)))

\* the health deadline passes
DeadlinePasses ==
    /\ Pending(disk) /\ ~disk.receipt.late
    /\ disk' = [disk EXCEPT !.receipt.late = TRUE]
    /\ UNCHANGED <<mem, world>>

\* the lease of an interrupted rollback ends
LeaseEnds ==
    /\ Pending(disk) /\ disk.receipt.rb = "leased" /\ ~disk.receipt.leaseOver
    /\ disk' = [disk EXCEPT !.receipt.leaseOver = TRUE]
    /\ UNCHANGED <<mem, world>>

\* the next automatic attempt falls due
RetryDue ==
    /\ Pending(disk) /\ disk.receipt.retry = "waiting"
    /\ disk' = [disk EXCEPT !.receipt.retry = "due"]
    /\ UNCHANGED <<mem, world>>

\* a signed policy expires, and with it what was authorized under it
PolicyEnds(gen) ==
    /\ gen > 0 /\ gen \notin world.expired
    /\ world' = [world EXCEPT !.expired = @ \cup {gen}]
    /\ disk' = IF disk.auth # NoAuth /\ disk.auth.gen = gen
               THEN [disk EXCEPT !.auth.over = TRUE] ELSE disk
    /\ UNCHANGED mem

\* whatever the client does that does not read the channel
UpdaterStep ==
    \/ CheckForUpdates \/ NoManifestReply \/ CheckTimeout \/ UserInstall \/ AutoInstall \/ DownloadFinished
    \/ LaunchInstaller \/ LaunchFails \/ ApkPermissionNeeded \/ ApkAuthorize \/ ApkStart
    \/ ApkStarted \/ ApkStartFails \/ ExpireApk \/ AuthorizationEnds
    \/ InstallerFinishes \/ InstallerGivesUp \/ QueuedRollback \/ ManualRollback
    \/ RetryTimer \/ HealthTimer \/ ConfirmPoll \/ Exit \/ Restart
    \/ DeadlinePasses \/ LeaseEnds \/ RetryDue

-----------------------------------------------------------------------------
(* Properties.                                                             *)

\* No installer ever starts without a durable record that survives the crash
\* it may cause: an update under a signed policy is named by the health receipt
\* or by the authorization of exactly its version and generation; a rollback by
\* the receipt whose lease was turned into this handoff.
LaunchIsRecorded ==
    [][\A p \in world'.procs \ world.procs :
          LET r == disk'.receipt  a == disk'.auth IN
          \/ p.kind = "update" /\ p.gen = 0
          \/ /\ p.kind = "update" /\ p.gen = disk'.acc.gen
             /\ \/ r # NoHealthReceipt /\ r.target = p.version /\ r.gen = p.gen /\ r.state = "pending"
                \/ a # NoAuth /\ a.state = "authorized" /\ a.version = p.version
                   /\ a.gen = p.gen /\ a.receipt.target = p.version
          \/ /\ p.kind = "rollback" /\ r # NoHealthReceipt
             /\ r.rb = "confirming" /\ r.handoff = p.lease /\ r.back = p.version
      ]_clientVars

\* However often the application crashes, is restarted, or its timers fire, an
\* update that was never confirmed healthy is rolled back by itself at most
\* once: no second automatic installer starts for the same receipt.
AutomaticOnce ==
    \A a, b \in world.autoStarts : a.receipt = b.receipt => a = b

=============================================================================
