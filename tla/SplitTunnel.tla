---------------------------- MODULE SplitTunnel ----------------------------
(***************************************************************************)
(* The Windows split-tunnel driver and the two processes that may hold its *)
(* exclusive handle: the privileged service (WindowsSplitTunnel driven by  *)
(* WindowsDaemon) and the short-lived helpers it starts so that an IOCTL   *)
(* stuck in the kernel never blocks the service.  Timeouts, failed waits,  *)
(* failed launches and crashes are choices; a helper acts at its own pace. *)
(***************************************************************************)
EXTENDS Integers

CONSTANTS
    Apps,          \* executables a client may ask to exclude
    Convertible,   \* those whose path has a device form
    MaxHelpers,    \* bound: helper processes alive at a time
    MaxLives       \* bound: starts of the privileged service

ASSUME SplitAssumption == Convertible \subseteq Apps /\ MaxHelpers \in Nat /\ MaxLives \in Nat

VARIABLES
    driver,   \* kernel driver: state, rules in force, owner of the handle
    split,    \* WindowsSplitTunnel of the running service
    helpers   \* helper processes; one that exited and was reaped leaves its place

splitVars == <<driver, split, helpers>>

Nobody == 0
SplitService == MaxHelpers + 1

NewManager(life) ==
    [life |-> life, pc |-> "boot", up |-> FALSE, open |-> FALSE, quarantined |-> 0,
     gateFailed |-> FALSE, op |-> {}, helper |-> 0, ret |-> "none",
     told |-> "none", accepted |-> {}]

NoHelper ==
    [kind |-> "none", pc |-> "exited", apps |-> {}, abort |-> FALSE, commit |-> FALSE,
     configured |-> FALSE, life |-> 0, exit |-> "none"]

SplitInit ==
    /\ driver = [state |-> "absent", rules |-> {}, owner |-> Nobody]
    /\ split = NewManager(1)
    /\ helpers = [h \in 1 .. MaxHelpers |-> NoHelper]

Exited(h) == helpers[h].pc = "exited"
Clear(d) == [d EXCEPT !.state = "ready", !.rules = {}]
Loaded(d) == d.state \notin {"absent", "stopped"}
Initialized(d) == d.state \in {"initialized", "ready", "running"}

\* A new handle needs the device to be loaded and unowned.
Openable == Loaded(driver) /\ driver.owner = Nobody

(***************************** start and stop of the service **************)

\* SCM refuses to unload a driver some process still has open.
Unloaded(d) == [d EXCEPT !.state = "stopped", !.rules = {}]

\* detectConflict, then resetForFirewallMigration: a driver left by an earlier
\* service is reset, or unloaded when the reset cannot be verified.
BootReset ==
    /\ split.pc = "boot"
    /\ \/ split' = [split EXCEPT !.pc = "unusable"] /\ UNCHANGED driver
       \/ /\ Loaded(driver) => Openable /\ ~Initialized(driver)
          /\ split' = [split EXCEPT !.pc = "create"] /\ UNCHANGED driver
       \/ /\ Openable /\ Initialized(driver)
          /\ driver' = [driver EXCEPT !.state = "started", !.rules = {}]
          /\ split' = [split EXCEPT !.pc = "create"]
       \/ /\ Openable
          /\ driver' = Unloaded(driver) /\ split' = [split EXCEPT !.pc = "create"]
    /\ UNCHANGED helpers

\* create: install, start, open (after one restart of the driver) and
\* initialize it; without a driver the service still runs, with no manager.
BootCreate ==
    /\ split.pc = "create"
    /\ \/ split' = [split EXCEPT !.pc = "idle"] /\ UNCHANGED driver
       \/ /\ driver.owner = Nobody
          /\ driver' = [state |-> "initialized", rules |-> {}, owner |-> SplitService]
          /\ split' = [split EXCEPT !.pc = "idle", !.up = TRUE, !.open = TRUE]
    /\ UNCHANGED helpers

LetGo(d) == IF d.owner = SplitService THEN [d EXCEPT !.owner = Nobody] ELSE d

\* Helpers outlive the service; an exited one goes with its last handle.
HelpersLeft(aborted) ==
    [h \in DOMAIN helpers |->
        IF Exited(h) THEN NoHelper ELSE [helpers[h] EXCEPT !.abort = @ \/ h = aborted]]

\* The destructor: the quarantined helper is told to abort, never joined; the
\* driver is reset when the service holds it.
ShutDown ==
    /\ split.pc \in {"idle", "unusable"} /\ split.life < MaxLives
    /\ helpers' = HelpersLeft(split.quarantined)
    /\ \/ driver' = LetGo(driver)
       \/ /\ split.open /\ Initialized(driver)
          /\ driver' = [driver EXCEPT !.state = "started", !.rules = {}, !.owner = Nobody]
    /\ split' = NewManager(split.life + 1)

ServiceDies ==
    /\ split.life < MaxLives
    /\ driver' = LetGo(driver)
    /\ split' = NewManager(split.life + 1)
    /\ helpers' = HelpersLeft(0)

\* removeForUninstall, run while the service is not.
Uninstall ==
    /\ split.pc = "boot" /\ driver.state # "absent" /\ driver.owner = Nobody
    /\ driver' = [driver EXCEPT !.state = "absent", !.rules = {}]
    /\ UNCHANGED <<split, helpers>>

(***************************** the service's operations *******************)

Told(s, ok) == [s EXCEPT !.pc = "idle", !.told = IF ok THEN "ok" ELSE "failed", !.helper = 0, !.ret = "none"]
FailOver(s) == [s EXCEPT !.pc = "stop", !.helper = 0, !.ret = "none"]

\* WindowsDaemon::run / activateSplitTunnel with applications to exclude.
ExcludeRequested(apps) ==
    /\ split.pc = "idle" /\ apps # {}
    /\ split' = IF split.up THEN [split EXCEPT !.op = apps, !.pc = "start"]
                            ELSE Told([split EXCEPT !.op = apps], FALSE)
    /\ UNCHANGED <<driver, helpers>>

\* The same with none, or Down.
StopRequested ==
    /\ split.pc = "idle"
    /\ split' = IF split.up THEN [split EXCEPT !.op = {}, !.pc = "stop"]
                            ELSE Told([split EXCEPT !.op = {}], TRUE)
    /\ UNCHANGED <<driver, helpers>>

Reopened(s, ok) == [s EXCEPT !.open = ok]
Taken == driver' = [driver EXCEPT !.owner = SplitService]
GateFailed(s) == [s EXCEPT !.gateFailed = TRUE]
GateVerified(s) == [s EXCEPT !.gateFailed = FALSE]
Closed(s) == [s EXCEPT !.open = FALSE]

\* The last handle of an exited helper is closed.
Reaped(h) == helpers' = [helpers EXCEPT ![h] = NoHelper]

\* reapQuarantinedConfigurationHelper: s goes on to yes or no, or to the
\* isolated cleanup that returns to ret.
Reap(yes, no, ret) ==
    LET q == split.quarantined IN
    \/ /\ q # 0 => ~Exited(q)
       /\ split' = no /\ UNCHANGED <<driver, helpers>>
    \/ /\ q # 0    \* the wait, the exit code or the reopened device failed
       /\ split' = GateFailed(no) /\ UNCHANGED <<driver, helpers>>
    \/ /\ q # 0 /\ Exited(q) /\ Openable
       /\ Taken /\ Reaped(q)
       /\ LET free == [Reopened(split, TRUE) EXCEPT !.quarantined = 0] IN
          split' = IF helpers[q].exit = "verified"
                   THEN GateVerified([yes EXCEPT !.open = TRUE, !.quarantined = 0])
                   ELSE [free EXCEPT !.pc = "cleanup", !.ret = ret]

\* start: reap first when the handle is gone; then initialise the driver and
\* register processes and addresses.
StartDriver ==
    /\ split.pc = "start"
    /\ \/ ~split.open /\ Reap(split, FailOver(split), "reapStart")
       \/ /\ split.open /\ split.gateFailed
          /\ split' = FailOver(split) /\ UNCHANGED <<driver, helpers>>
       \/ /\ split.open /\ ~split.gateFailed /\ UNCHANGED helpers
          /\ \E to \in {driver.state, "initialized", "ready"} :
                /\ to = "initialized" => driver.state = "started"
                /\ to = "ready" => driver.state \in {"started", "initialized", "ready"}
                /\ driver' = [driver EXCEPT !.state = to]
                /\ \/ split' = FailOver(split)
                   \/ to \in {"ready", "running"} /\ split' = [split EXCEPT !.pc = "exclude"]

Launched(h, kind, apps) ==
    /\ helpers[h] = NoHelper
    /\ helpers' = [helpers EXCEPT ![h] =
           [NoHelper EXCEPT !.kind = kind, !.pc = IF kind = "config" THEN "new" ELSE "clean",
                            !.apps = apps, !.life = split.life]]

\* generateAppConfiguration drops a path that has no device form.
AppConfiguration(apps) == apps \cap Convertible

\* excludeApps up to the launch of the helper, the service letting go of the
\* device first.
ExcludeApps ==
    /\ split.pc = "exclude"
    /\ \/ split' = FailOver(split) /\ UNCHANGED <<driver, helpers>>
       \/ /\ AppConfiguration(split.op) # {}
          /\ \/ \E ok \in BOOLEAN :   \* launch failed; the device is opened again, or not
                   /\ split' = FailOver(Reopened(split, ok))
                   /\ driver' = [driver EXCEPT !.owner = IF ok THEN SplitService ELSE Nobody]
                   /\ UNCHANGED helpers
             \/ \E h \in DOMAIN helpers :
                   /\ Launched(h, "config", AppConfiguration(split.op))
                   /\ driver' = LetGo(driver)
                   /\ split' = [Closed(split) EXCEPT !.pc = "wait", !.helper = h]

Signal(h, field) == helpers' = [helpers EXCEPT ![h][field] = TRUE]

\* quarantineConfigurationHelper; a failed abort closes the gate.
Quarantine(s, aborted) ==
    LET held == [s EXCEPT !.quarantined = s.helper, !.helper = 0] IN
    IF aborted THEN held ELSE GateFailed(held)

Quarantined(next(_)) ==
    \E aborted \in BOOLEAN :
        /\ IF aborted THEN Signal(split.helper, "abort") ELSE UNCHANGED helpers
        /\ split' = next(Quarantine(split, aborted))
        /\ UNCHANGED driver

\* The wait for the configured event: commit, or take the exit code, or
\* quarantine a helper that is late.
AwaitConfigured ==
    /\ split.pc = "wait"
    /\ \/ /\ helpers[split.helper].configured
          /\ Signal(split.helper, "commit")
          /\ split' = [split EXCEPT !.pc = "waitExit"] /\ UNCHANGED driver
       \/ /\ Exited(split.helper) /\ ~helpers[split.helper].configured
          /\ split' = [split EXCEPT !.pc = "exitCode"] /\ UNCHANGED <<driver, helpers>>
       \/ ~Exited(split.helper) /\ ~helpers[split.helper].configured /\ Quarantined(FailOver)

AwaitExit ==
    /\ split.pc = "waitExit"
    /\ \/ /\ Exited(split.helper)
          /\ split' = [split EXCEPT !.pc = "exitCode"] /\ UNCHANGED <<driver, helpers>>
       \/ ~Exited(split.helper) /\ Quarantined(FailOver)

\* The exit code decides: running rules are accepted, anything else is cleaned
\* by a second helper before the service goes on.
TakeExitCode ==
    /\ split.pc = "exitCode"
    /\ \/ Quarantined(FailOver)
       \/ split' = FailOver(GateFailed(split)) /\ Reaped(split.helper) /\ UNCHANGED driver
       \/ /\ Openable /\ Taken /\ Reaped(split.helper)
          /\ LET s == Reopened(split, TRUE) IN
             split' = IF helpers[split.helper].exit # "success"
                      THEN [s EXCEPT !.pc = "cleanup", !.ret = "apply", !.helper = 0]
                      ELSE IF driver.state = "running"
                      THEN Told([s EXCEPT !.accepted = AppConfiguration(s.op)], TRUE)
                      ELSE FailOver(s)

\* Where runCleanupHelperBounded returns to.
Return(s, ok) ==
    LET shut == Closed(GateFailed(s)) IN
    CASE s.ret = "apply" -> FailOver(IF ok THEN GateVerified(s) ELSE shut)
      [] s.ret = "reapStart" -> IF ok THEN [s EXCEPT !.pc = "start"] ELSE FailOver(shut)
      [] s.ret = "reapStop" -> IF ok THEN Told(s, s.op = {}) ELSE Told(shut, FALSE)
      [] s.ret = "stop" -> IF ok THEN Told(GateVerified(s), s.op = {}) ELSE Told(GateFailed(s), FALSE)

\* shut closes a handle the service still has.
Yielded(s) == driver' = IF s.open THEN [driver EXCEPT !.owner = SplitService] ELSE LetGo(driver)
Leave(s, ok) == LET r == Return(s, ok) IN split' = r /\ Yielded(r)

\* runCleanupHelperBounded: the helper inherits the handle.
LaunchCleanup ==
    /\ split.pc = "cleanup"
    /\ \/ Leave(split, FALSE) /\ UNCHANGED helpers
       \/ /\ split.open /\ split.quarantined = 0
          /\ \/ Leave(Closed(split), FALSE) /\ UNCHANGED helpers
             \/ Leave(GateFailed(split), FALSE) /\ UNCHANGED helpers
             \/ \E h \in DOMAIN helpers :
                   /\ Launched(h, "cleanup", {})
                   /\ driver' = [driver EXCEPT !.owner = h]
                   /\ split' = [Closed(split) EXCEPT !.pc = "cleanupWait", !.helper = h]

AwaitCleanup ==
    /\ split.pc = "cleanupWait"
    /\ \/ ~Exited(split.helper) /\ Quarantined(LAMBDA s : Return(s, FALSE))
       \/ /\ Exited(split.helper)
          /\ Reaped(split.helper)
          /\ \/ Leave(GateFailed(split), FALSE)
             \/ /\ Openable
                /\ IF helpers[split.helper].exit = "verified"
                   THEN Leave(GateVerified(Reopened(split, TRUE)), TRUE)
                   ELSE Leave(GateFailed(split), FALSE)

\* stop
StopDriver ==
    /\ split.pc = "stop"
    /\ \/ /\ split.open
          /\ split' = [split EXCEPT !.pc = "cleanup", !.ret = "stop"] /\ UNCHANGED <<driver, helpers>>
       \/ /\ ~split.open /\ split.quarantined = 0
          /\ split' = Told(split, split.op = {} /\ ~split.gateFailed) /\ UNCHANGED <<driver, helpers>>
       \/ /\ ~split.open /\ split.quarantined # 0
          /\ Reap(Told(split, split.op = {}), Told(split, FALSE), "reapStop")

(***************************** the helper processes ***********************)

ParentGone(h) == helpers[h].life # split.life
StopSignalled(h) == helpers[h].abort \/ ParentGone(h)

Exit(h, code) ==
    helpers' = [helpers EXCEPT ![h] =
        IF ParentGone(h) THEN NoHelper
        ELSE [NoHelper EXCEPT !.configured = helpers[h].configured \/ code = "ioctlFailed",
                              !.exit = code]]

Drop(d, h) == IF d.owner = h THEN [d EXCEPT !.owner = Nobody] ELSE d

\* runConfigurationHelper: parent check, exclusive open, second parent check.
HelperOpens(h) ==
    /\ helpers[h].pc = "new"
    /\ \/ StopSignalled(h) /\ Exit(h, "verified") /\ UNCHANGED driver
       \/ ~StopSignalled(h) /\ Exit(h, "openFailed") /\ UNCHANGED driver
       \/ /\ ~StopSignalled(h) /\ Openable
          /\ driver' = [driver EXCEPT !.owner = h]
          /\ helpers' = [helpers EXCEPT ![h].pc = "opened"]
    /\ UNCHANGED split

HelperRechecks(h) ==
    /\ helpers[h].pc = "opened"
    /\ \/ StopSignalled(h) /\ Exit(h, "verified") /\ driver' = Drop(driver, h)
       \/ ~StopSignalled(h) /\ helpers' = [helpers EXCEPT ![h].pc = "set"] /\ UNCHANGED driver
    /\ UNCHANGED split

\* IOCTL_SET_CONFIGURATION, which may return long after it was sent.
HelperSets(h) ==
    /\ helpers[h].pc = "set"
    /\ \/ Exit(h, "ioctlFailed") /\ driver' = Drop(driver, h)
       \/ /\ driver.state \in {"ready", "running"}
          /\ driver' = [driver EXCEPT !.state = "running", !.rules = helpers[h].apps]
          /\ helpers' = [helpers EXCEPT ![h].pc = "control", ![h].configured = TRUE]
    /\ UNCHANGED split

\* A commit seen before the abort wins.
HelperControlCommitFirst(h) ==
    /\ helpers[h].pc = "control"
    /\ \/ helpers[h].commit /\ Exit(h, "success") /\ driver' = Drop(driver, h)
       \/ StopSignalled(h) /\ ~helpers[h].commit /\ Exit(h, "verified") /\ driver' = Drop(driver, h)
    /\ UNCHANGED split

\* The two-phase handoff: abort, then the parent, then commit; rules that were
\* not committed are cleared and the clearing is verified before the exit.
HelperControl(h) ==
    /\ helpers[h].pc = "control"
    /\ \/ /\ StopSignalled(h)
          /\ \/ Exit(h, "verified") /\ driver' = Drop(Clear(driver), h)
             \/ Exit(h, "cleanupFailed") /\ driver' \in {Drop(driver, h), Drop(Clear(driver), h)}
       \/ /\ ~StopSignalled(h) /\ helpers[h].commit
          /\ Exit(h, "success") /\ driver' = Drop(driver, h)
    /\ UNCHANGED split

\* runCleanupHelper
HelperCleans(h) ==
    /\ helpers[h].pc = "clean"
    /\ \/ driver.state = "initialized" /\ Exit(h, "verified") /\ driver' = Drop(driver, h)
       \/ /\ driver.state \in {"ready", "running"}
          /\ Exit(h, "verified") /\ driver' = Drop(Clear(driver), h)
       \/ Exit(h, "cleanupFailed") /\ driver' = Drop(driver, h)
    /\ UNCHANGED split

HelperDies(h) ==
    /\ ~Exited(h)
    /\ Exit(h, "killed") /\ driver' = Drop(driver, h)
    /\ UNCHANGED split

SplitStep ==
    \/ BootReset \/ BootCreate \/ ShutDown \/ ServiceDies \/ Uninstall
    \/ \E apps \in SUBSET Apps : ExcludeRequested(apps)
    \/ StopRequested \/ StartDriver \/ ExcludeApps \/ AwaitConfigured \/ AwaitExit
    \/ TakeExitCode \/ LaunchCleanup \/ AwaitCleanup \/ StopDriver
    \/ \E h \in DOMAIN helpers :
           \/ HelperOpens(h) \/ HelperRechecks(h) \/ HelperSets(h)
           \/ HelperControl(h) \/ HelperCleans(h) \/ HelperDies(h)

SplitSpec == SplitInit /\ [][SplitStep]_splitVars

(***************************** what it promises ***************************)

\* Rules that were never accepted are not in force once the service trusts
\* the driver: when no helper is quarantined and the cleanup gate is open, the
\* driver applies the rules of the last accepted request of this service, or
\* none, whatever late IOCTL, timeout, killed helper or earlier service there
\* was; and an accepted request is in force exactly as it was converted.
AcceptedRulesOnly ==
    split.pc = "idle" =>
        /\ split.quarantined = 0 /\ ~split.gateFailed => driver.rules \in {{}, split.accepted}
        /\ split.told = "ok" /\ split.op # {} => driver.rules = AppConfiguration(split.op)
=============================================================================
