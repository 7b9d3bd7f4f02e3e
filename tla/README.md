# Verification of AmneziaVPN

TLA+ models of the parts of this repository that keep state across failures: the
headless service (`headless/`), the desktop client's core (`client/core`), its
privileged service (`client/daemon`, `client/platforms`, `ipc/`, `service/`), and
the server-side programs the client installs. TLC checks the models on small
instances; TLAPS proves the theorems of section 5 for every value of the
constants.

## 1. Inventory

### The headless service

| Component | State it keeps | Operations | What is hard |
|---|---|---|---|
| **Update manager** `headlessUpdateManager.cpp` | state receipt, transaction journal, rollback receipt, garbage marker, directories, the installed pair | check and apply, rollback, acknowledge, load, retire, collect garbage | ten durable writes per transaction with a crash between any two; a failed fsync after a rename that took effect; a process replaced by the image it installed |
| **Daemon** `daemon.cpp` | session state, ownership flags, mutation flag, timers | connect, disconnect, health, refresh, automatic connection, migration, start, stop | one thread, but every call waits in a nested event loop in which another handler may run |
| **VPN backend** `vpnBackend.cpp`, `embeddedAwgBackend.cpp` | the session, child processes, interfaces, staged configurations | connect, candidate connect, disconnect, health | helpers that fail or are killed half way, children that exit, what a failed call leaves in the kernel |
| **Routing** `headlessRoutingController.cpp`, `linuxRouteReconciler.cpp`, `serverRoutingPolicy.cpp` | receipts, intent file, routes, rules and DNS of the kernel | connect, refresh, disconnect, bootstrap, fallback, restore, apply, clear | many commands per transaction; a fetch between reading and applying; crash between intent and receipt |
| **Rollback coordinator, profile store** `rollbackCoordinator.cpp`, `profileStore.cpp` | phase file, retained image, paused profiles | prepare, pause, run, acknowledge, resume | a second process over the daemon's files, restarted in any phase |
| **AWG migration** `awgMigrationManager.cpp` and the control service | journal, grants, generations | enrol, offer, trial, verify, commit, abandon | durable writes around a connection attempt; lost answers |
| **Log uploader** `remoteLogUploader.cpp` and the collector | cursor, source identity, redaction state; stored files and receipts | poll, post, rebind, import; upload, rotate, restart | lost answers, rotated sources, secrets that change while a range is in flight |

### The desktop client and its service

| Component | What is hard |
|---|---|
| **VPN connection** `vpnConnection.cpp`, `connectionController.cpp` | two threads and queued signals: receipts and states of a connection arrive when the next one is already there |
| **Client updater and publisher** `updateController.cpp`, `selfHostedUpdatePublisher*.cpp` | competing administrators, lost SSH answers, installers that outlive the process, automatic rollback exactly once |
| **Log uploader** `remoteLogUploader.cpp` | cursor and redaction marker are two writes; tokens are refused and renewed |
| **Settings** `secureQSettings.cpp`, repositories | keychain that cannot be read, writes that fail after the memory changed, floors that must not fall |
| **Process and operator mode** `amneziaApplication.cpp` | two processes racing for one lock and one endpoint; answers from a cached state |
| **Guardian and route inspector** `connectionHealthController.cpp` | probes that end after their connection; a second recovery for the same incident |
| **Subscriptions** `subscriptionController.cpp`, `gatewayController.cpp` | nested loops around requests, captchas that arrive late, purchases that must be neither lost nor repeated |
| **Rules publication, SSH, server administration** `sitesController.cpp`, `sshSession.cpp`, `installController.cpp`, `exportController.cpp`, `usersController.cpp` | commands that ran although the link was lost; two threads over one host |
| **Privileged daemon** `daemon.cpp`, `windowsfirewall.cpp`, `windowssplittunnel.cpp`, `wireguardutilslinux.cpp` | requests nested in waits; kill switch and tunnel as separate transactions; a driver with its own state |
| **IPC service** `ipcserver.cpp`, process capabilities | processes whose owner vanished |

Components are listed in `PROJECT.json` with their status; the mobile
applications, the user interface, packaging, and the headless wire protocol are
not modelled (platform frameworks, no state beyond one request, or text).

### What makes each part correct

- **Updater.** A mixed pair on disk can be repaired; the evidence a journal names
  exists; an acknowledgement means the pair is installed; every journal settles.
- **Daemon and backend.** Between two handlers the reported state is the real one,
  nothing started is without an owner; a tunnel belongs to the session that
  reported it until it is gone.
- **Routing.** A route set is applied whole, undone, or durably flagged; a session
  has the routes of the policy on record.
- **Recovery.** A committed pause stays quiet; a client leaves a configuration only
  for one the server answered it through.
- **Delivery.** Nothing behind a cursor was lost, nothing is stored twice; no
  installer starts without a durable record; releases only move forward.
- **Client.** The base of routes that is on record is the one installed; verdicts
  and answers are about the present; servers, floors and purchases survive.
- **Service.** The kill switch covers what the tunnel needs, cleanup is confirmed,
  privileged processes are attended.

`PROJECT.json` lists every hazard at its line with the properties that cover it.

## 2. Modules

State is named after the code's fields; an action is one handler up to its next
wait, durable write or command, because that is where something else may happen.
Failures are counted (`MaxFaults`, `MaxTroubles`, ...) so that instances are
finite; the proofs do not depend on the bounds.

| Module | Models |
|---|---|
| `UpdateManager` | the update manager, with the daemon's process and the coordinator as callers |
| `Daemon` | the daemon's session life cycle over backend and routing as it uses them |
| `VpnBackend` | the four kinds of tunnel, their processes, interfaces and staged files |
| `RouteTransaction` | abstract: a route set changes whole, or not, or a flag says so |
| `RouteReconciler` | intent, commands, readback, undo, receipt; implements `RouteTransaction` |
| `RoutingController` | the controller over the reconciler (extends it) |
| `RollbackCoordinator` | coordinator, profile store and the daemon that loads the same profiles |
| `MigrationControl` | the control service: enrolment, grants, challenges, generations |
| `HeadlessMigration`, `ClientMigration` | the two clients of it (both extend it) |
| `LogCollector` | the collector's store, tokens, receipts and the wire |
| `LogUploader`, `HeadlessLogUploader` | the two producers |
| `LogDelivery` | either producer composed with the collector |
| `VpnConnection` | the connection worker, its service receipts and its protocol |
| `ConnectionController` | the GUI side and the policies over it |
| `UpdateChannel` | the published manifest, its administrators and their SSH runs |
| `ClientUpdater` | check, install, confirm, roll back |
| `UpdateDelivery` | the client composed with the channel |
| `SplitTunnel` | the split-tunnel driver and its configuration helper |
| `WindowsFirewall`, `WindowsTunnel` | WFP transactions, and the AWG tunnel over them |
| `LinuxTunnel` | the Linux privileged daemon |
| `ProcessCapabilities` | privileged processes of the IPC service |
| `SecureSettings` | the encrypted settings, keychain, cache, backup, update floors |
| `OperatorMode` | single-instance election, operator commands, watch sessions |
| `Guardian` | health probes, recovery, route inspection |
| `Subscriptions` | gateway requests, captchas, purchases, the entries they pay for |
| `RulesPublication` | publication of managed routing rules |
| `SshClient` | the SSH transport |
| `ServerAdmin` | installation and client administration on one host |
| `MC*` | instances for TLC; those with a `part` or `side` put components that share no state beside each other |
| `*Proofs` | theorems: `UpdateManagerProofs`, `DaemonProofs` (daemon and SSH transport), `RoutingProofs`, `RecoveryProofs`, `UpdateDeliveryProofs`, `SystemServiceProofs`, `SecureSettingsProofs`, `ApplicationProofs` (operator mode, subscriptions, guardian, collector) |

### Reading the models

*UpdateManager.* `stateFile`, `journal`, `receipt`, `marker`, `dirs` and
`installed` are the disk, `lastState`, `lastApplied`, `rb`, `curDir` and `valid`
the manager's fields. The update lock makes operations exclusive, so one `pc`
names the durable step that is next, and `Crash` may come at any of them. The
bytes of a file are the version they were built from. A durable write ends `ok`,
`lost` or `unsynced` (written, but the code sees an error).

*Daemon.* A stack of handlers; while the top one waits another may be pushed.
`MutationScope` is the frame's `scope`.

*VpnBackend.* `own` is `m_session` with `m_embedded`, `child` the runner's table,
`links` what the kernel has and from whose configuration, `staged` the private
copies, `call` the step a call of `connect()` or `disconnect()` is at. Between
two steps children exit, interfaces vanish, the daemon ends.

*RouteReconciler / RoutingController.* The kernel's routes, rules and DNS beside
the receipt and the intent on disk; a transaction is one step for the controller
and several for the reconciler's failures, which leave any prefix of its commands.

*Logs.* A log is a sequence of cells, each remembering the token that was live
when it was written; the collector keeps the set of cells it ever stored, so that
"delivered" can be said of a cursor.

*Client session.* Signals between the worker and the GUI thread are queues; every
receipt carries the connection epoch it was asked under, as in the code.

*Updates.* A publication's prepare, commit and verdict are separate SSH commands
whose answer may be lost while the command runs later. An installer is a process
of the world that outlives the client.

*Privileged service.* Requests of two callers nest in the waits of the daemon's
UAPI exchange; WFP transactions commit or abort whole; the split-tunnel driver
answers late or not at all.

*SshClient / ServerAdmin / RulesPublication.* A command's effect and its answer are
separate: a lost link leaves the client unsure and the host changed.

## 3. Runs

| Run | Instance | Shows |
|---|---|---|
| `update_faults` | 2 files, 2 versions, 5 directories, 2 failing durable operations, 1 crash | `StepsPrepared`, `EvidenceIntact`, `AcknowledgedMeansInstalled`, `MixedPairRepairable`, `EvidenceWithoutFaults`, `DurableAuthority` |
| `update_liveness` | the same without failures | `Settles`: every journal is retired, every directory reclaimed |
| `daemon_session` | 2 profiles, one automatic with server rules, nesting 2 | `NothingLeaks`, `StatusIsHonest`, `Progresses` |
| `routing` | 4 profiles, 3 prefixes, 2 policies, 2 failures, 1 vanished link, 1 crash | `ReceiptAccountsForKernel`, `SessionRoutes`, `NothingLeftBehind`, and `AtomicTransactions`: the reconciler implements `RouteTransaction` |
| `routing_degraded` | one failing readback | a violation: see below |
| `client_session` | an AmneziaWG and an OpenVPN server, 3 routes (one local, one resolved), one more update while a message is in flight, budget of 3 mishaps | `BaseIsInstalled`, `ConfirmedAgrees`, `StartsAfterCleanup`, `QuietMeansConverged` |
| `logs` | either producer, 2 logs, 2 files, 2 tokens, 2 mishaps | `DeliveryIsExact`, `StoredOnce` |
| `client_update` | two administrators with 3 releases and 2 lost answers; or a desktop or Android client beside one more publication, with a crash | `VerdictIsFinal`, `AutomaticOnce`, `ReleasesAreOrderly` |
| `system_service` | five parts side by side, 2 failures, 1 restart; of processes 2 capabilities, users and programs | `AcceptedRulesOnly`, `WindowsPolicyHolds`, `ConfirmedCleanup`, `ProcessesAttended` |
| `recovery` | coordinator with 2 power failures; either migration client with 2 generations; 5 tunnels with 3 failures and 4 calls | `RollbackIsHeld`, `MigrationIsProved`, `TunnelsAreOwned` |
| `self_hosted` | 2 publishers; one SSH job with a drop and a cancellation; one administrator with 3 tasks | `PublicationIsTrue`, `AnsweredIsDone`, `AccessIsAsAnswered`, `RestoredIsBefore` |
| `application` | settings, operator mode, guardian and subscriptions side by side | `ServersSurvive`, `ReleasesMoveForward`, `OneAuthority`, `AnswersAreTrue`, `VerdictsAreTrue`, `PurchasesAreKept` |

Each property is explained where it is defined, and each has a mutant (a
plausible bug in one definition, kept beside the original) that TLC shows to
break it.

*Bounds.* Two versions give update and rollback, and a rolled-back machine
updates again. Two failures are an error and the failure of its cleanup, which is
the depth of the code's error handlers. Two crashes are a crash and a crash of
the recovery. Two publishers, callers, launchers or generations are the smallest
number that can get in each other's way. Parts of `system_service`,
`application`, `self_hosted` and `recovery` share no state, so a behaviour is
about one of them; their instance modules name what each part is bounded by (in `application` a lookup
has two addresses, and the route inspector sees one way down of the tunnel). In
`client_update` a publisher's steps commute with the client's except for the
reading of the manifest, and are taken during the client's checks. Symmetry is
used for directories, publishers and callers, which no property tells apart;
never under a liveness property.

*Deadlock.* Checked in the update, daemon and routing runs. The others stop when their
budgets are spent, which the real system does not.

*Fairness of `update_liveness`.* Weak for an operation that has begun (its waits
have timeouts) and for the start of a stopped service: in these behaviours it was
stopped by the requested restart or by the coordinator, which starts it again
(`rollbackCoordinator.cpp:992`); strong for the periodic check, whose timer fires
again after every operation, and for a restart `systemd-run` has been asked for.
Rollback requests and the coordinator may come or not.

*Fairness of `daemon_session`.* Weak for the innermost handler (every command and
network call has a timeout), strong for the steps of `stop()`, which other
handlers interrupt only while requests arrive, strong for the repeating health
timer, weak for `aboutToQuit` after `quit()`. Starts, requests, crashes and the
link are not fair.

`Progresses`, `Settles` and `QuietMeansConverged` are the project's statements
about what must eventually happen; the last is an action property, so it needs no
fairness.

### The disagreement a run shows

`routing_degraded`: a first full-tunnel connection whose readback fails installs
the fallback, the bootstrap rollback removes it again, and `connect()` still
reports `routing_degraded`, which the code says stands for a retained fallback.

## 4. Observations

Met while modelling; each is the model's behaviour because it is the code's, and
the properties are stated so that they hold in spite of it.

**Update manager and daemon.** The image a second update in a row installs is
rejected by the comparison with the sidecar receipt (`headlessUpdateManager.cpp:349`,
comment at 2574). A crash between the acknowledged journal and the saved state makes
the next start invalid (709, 2864). A mixed pair after a crash in the first update
ever is not loaded (2274, 2782). A rejected-manifest state is not accepted by the
next process, and the rollback identity disappears from the receipt (884, 2454).
A rollback journal written but not synced makes `restoreRollback()` delete the copy
of the current pair it names (2116); a failure between the prepared journal and the
receipt saves the new hashes beside the old directory (1603): therefore
`EvidenceWithoutFaults`. `stop()` waits without the mutation flag (`daemon.cpp:313`,
494); the single-shot automatic connection may find a mutation in flight and is not
repeated (845). A connection accepted with `routing_degraded` (890) reports connected
without its routes, since the bootstrap rollback removed them: `StatusIsHonest` demands
the routes only where degraded routing is not reported as well.

**Backend.** `RealCommandRunner::stop` forgets a process it could not stop, so every
later `disconnect()` fails until a restart; so does `wg-quick down` on an interface
that vanished. A killed `up`, or a `down` whose failure is ignored
(`vpnBackend.cpp:749`), leaves an interface no session owns. An embedded start that
finds the name taken keeps a session over a foreign interface (the exception in
`SessionIsItsOwn`). Staging directories of a crash are never reclaimed.

**Routing.** An interface switch with overlapping prefixes loses old routes
(`linuxRouteReconciler.cpp`, 733). `clear()` after the link vanished fails with
`full_tunnel_ownership_ambiguous` until a reconnect. `restoreBootstrap` does not
restore `m_routingDegraded`. Connecting a profile without routes or rules leaves an
offline full tunnel's rules.

**Recovery.** After a power failure in `pause_prepared` the daemon loads the profiles
unpaused first, and a later save overwrites the pause (`profileStore.cpp:295`,
`daemon.cpp:598`). An import while paused makes run and resume refuse. A power cut in
`replace()` leaves a temporary file that every operation refuses. A disconnect before
re-enrolment drops the authorization, and that generation cannot be tried again.

**Client session.** `OpenVpnProtocol::stop` sends SIGTERM, waits 10 ms and reports
Disconnected (`openVpnProtocol.cpp:42-80`): its process lingers, beside the next one
too, so `StartsAfterCleanup` is about AmneziaWG tunnels, whose service confirms. An
OpenVPN process that restarts itself keeps the epoch and publishes the base again while
the service holds base and policy. An accepted reconcile then raises the base's revision,
which drops the announcement queued before it (`vpnConnection.cpp:696-716`), and the
answer is dropped since Reconnecting raised the controller's generation
(`connectionController.cpp:494-500`, 587-592): the controller stays unconfirmed until
the next connection, which `QuietMeansConverged` excepts. A gateway that changes during
a managed update ends it without an answer (`vpnConnection.cpp:1363-1368`). A disconnect after a confirmed AWG cleanup ends in
recovery required (`vpnConnection.cpp`, 2921). An OpenVPN exit during its own
reconnection leaves the client reconnecting (3095). A connect between the migration
receipt and the re-opening issues two opens.

**Updates and logs.** A manifest reply during a rollback download overwrites the
selection and leaves the receipt leased until a restart. A generation republished
with another payload is refused until the next one. A headless log source below
4096 bytes changes its fingerprint by growing, which is an error after a restart
(857). A desktop crash between the marker and the first cursor fails closed for good
(1786).

**Privileged service.** `setProgram` while a process runs changes the wrapper and not the
`QProcess` (`ipcserverprocess.cpp:293`, 332, 357): the next start launches the old
program with arguments checked for the new one, which `ProcessesAttended` excepts. A set
of configured peers that outlived its tunnel (`stale`) makes `deletePeer` drop the last
peer's block, which its comment wants kept (`wireguardutilswindows.cpp:292-295`);
`KillSwitchHolds` excepts it. A crashed `amneziawg-go` leaves the Linux service unable to
deactivate or activate. `stop()` of the split tunnel may return true with old rules in
the driver (`windowssplittunnel.h:83`). A failed server switch disables the kill
switch; a failed interface deletion leaves the connection on record.
`addExclusionRoute` counts before the route is added (`daemon.cpp:222`). The route
monitor may miss a wake-up. `getStatus` keeps a reference across a wait (680).

**Application.** A failed durable write followed by `clearSettings()` serves an
unsynced value as durable (`secureQSettings.cpp`, 652). An unreadable keychain clears
the session's view of the servers, and a backup made then has none.
`operatorDisconnect` may report "VPN disconnected." from a cached state (the
"believed" answers). A recovery that passes through Connecting is superseded, and
`tunnelPathVerified` is fixed when a probe starts. A reconnection that finds a recovery
in flight keeps the verdict (`spared`). A refreshed captcha of the import
flow that is answered with a configuration leaves the pending flag, so that a later
solution adds a second entry. `bypassProxy` discards an answer after a TLS-error
proxy and asks again.

**Self-hosted.** A crash between the two `mv` of a publication serves old metadata
with new sites; a failed publication exposes revision n+1 before it is rolled back.
A signal between `docker rename`, or `docker run`, and its flag reports "restored" with
the old container aside, or the new one running (`installController.cpp:1489-1515`):
`RestoredIsBefore` excepts both. A cancellation
between two operations is lost; an upload's `mv` may happen after the client gave up.
The first WireGuard peer of a fresh container cannot be created (`grep` exits 1); a
missing clients table makes adding clients fail; `setupContainer` removes the old
container before the new one is built; a revocation whose table upload fails is
reported as done for Xray. A revocation takes the client from its row
(`usersController.cpp:838`) and reads the row again after the exchange (653, 741): when
the other thread changed the table between, the client of another row is removed, and
the one asked for is answered as revoked and stays. `AccessIsAsAnswered` shows that this
needs that race (`MistakesAreRaces`), and excepts its two clients, a client that a write
of an older copy of the configuration dropped or put back, and, once an address was
chosen from a copy older than another peer, the addresses.

## 5. Proofs

Every theorem below is proved by TLAPS for all values of the constants; the bounds
on failures, crashes, calls and processes are arbitrary naturals in them. Each
proof is an invariance argument: an inductive invariant `IInv`, the lemma that the
initial states satisfy it, one lemma per action (or per group of actions of one
operation) that the action preserves it, and a temporal step.

**`UpdateManagerProofs`.** Assumptions: a finite set of natural file indices with
the daemon among them, versions that are positive naturals with the first one
installed among them, `NoDir` is not a directory, natural bounds. Theorems:
`TypeCorrect`; `Preparation` (`StepsPrepared`); `EvidenceIsIntact`
(`EvidenceIntact`). `IInv == TypeOK /\ StepsPrepared /\ EvidenceIntact`:
`EvidenceIntact` speaks of the journal on disk, but a journal is written from
values the manager loaded or computed steps before (`draft`, `rb`, `curDir`), and
every garbage pass could remove a directory it names. `StepsPrepared` is what
each durable step relies on, so that the write of the journal finds its evidence
complete. The lemmas on `Fresh`, `Loaded` and `CollectGarbage` say what a new
directory, a load and a garbage pass leave alone.

On top of `IInv`, `Story` says how far each operation is: the state receipt, the
journal and the backups are of one version each (`ReceiptsCoherent`), what every
phase of the journal says of the installed pair (`JournalledPair`: before
`replaced` the files are of one of two sides, from the acknowledgement on they are
the candidate), and what the manager in memory knows of both (`MemoryStory`).
`MixedPairRepairable` and `AcknowledgedMeansInstalled` are not inductive without
it: the install, the restore and the rollback each write several files, and a
crash between any two leaves a pair only the journal can explain. From
`IInv /\ Story` (`StoryHolds`) follow `MixedIsRepairable`,
`AcknowledgedIsInstalled` and, as an action property, `AuthorityIsDurable`
(`DurableAuthority`). A third layer, `Promises`, is conditional on `faults = 0`
like the property it proves, `PromisesKept` (`EvidenceWithoutFaults`): what the
receipt and the journal promise is backed by verified copies, the directories that
are not promised are the only ones a garbage pass takes, and every step about to
write a promise has its copy. Crashes are not restricted.

**`DaemonProofs`.** Assumptions: `None` is not a profile, the sets of profiles with
an attribute are sets of profiles, a positive depth. Theorems: `DaemonTyped`,
`ScopeExcludes`, `NothingIsLost` (`NothingLeaks`), `StatusHolds`
(`StatusIsHonest`). The handlers wait in nested event loops, so the invariant is
about the whole stack of them. `Shape` is what the mutation scope achieves: one
handler, or `stop()`, or one handler inside a wait of `stop()`, whatever
`MaxDepth` is; `stop()` takes no scope, which is why it can be interrupted at all.
`Settled` holds between two handlers, is suspended while one works, and `Story`
says at each of its steps what it has found, created and still owes. A handler
inside `stop()` is promised nothing, since `stop()` changes the session under it,
and nothing is claimed of the state it leaves: the process is about to end.

**`RecoveryProofs`.** Two components that must survive a change that fails half way.
The VPN backend assumes that `NoTunnel` is not a profile, that every profile has one
of the four protocols and natural bounds; its theorem is `TunnelOwnership`
(`TunnelsAreOwned`). The invariant adds the shape of the session, of the call in
progress and of a stopped daemon, and that one-shot helpers leave no child: a
failing call is cleaned up step by step, and at each step what is still there must
be accounted for by the call and not yet by the session.

The rollback coordinator assumes that the profiles that update by themselves are
profiles and natural bounds; its theorem is `RollbackHolds` (`RollbackIsHeld`, of
`CoordSpec`). The main layers of its invariant, `CoordInv`, are these. `RecordOK` is
what a record proves by its phase alone, since after a crash nothing else is known.
`OperationOK` is what the operation lock buys: the record is still in the phase an
operation was taken up in, so each of its steps knows what the earlier ones
established. `StoreQuiet` and `ServiceQuiet` say that from the swap of the pair
until the resume every paused profile is present and quiet, in the file and in what
the daemon has cached; present, because an import that finds a profile missing adds
it with its own policy. `HeldOK` tells the daemon that runs once the rollback is
held from the one that was observed and stopped. Each layer is stated of a record
and of profiles as parameters, and each write is shown to leave a pair that
satisfies them, which is what a power failure right after it needs. The proof
corrected the model: the request a daemon works on ends with the daemon when the
coordinator stops it (`StopExactly`); it used to stay open.

**`ApplicationProofs`**, operator mode. Assumptions: there are launchers, paths and
hosts, natural bounds. Theorems: `OwnerHasTheLock` (`OneAuthority`) and `CoreIsAlone` (two
processes never have a core at once). The argument is about pids: every pid in a
file was given out, live processes have distinct ones, and a process that is gone
holds nothing; therefore the lock taken over from a dead owner is nobody's, and
everything done under the lock is exclusive. Theorem `AnswersHold`
(`AnswersAreTrue`) rests on that: there is one worker at most, so its queue, the
view of it and a disconnect that waits belong to the process that was asked. The
invariant `AnswersInv` says that the queue is first in, first out (a snapshot with
no announcement behind it, and a view that believed one, show the worker as it is),
which sessions are past and stay so (`Past`), that what a waiting disconnect has
heard is the end of its session, that whoever answered runs with that session past
or no longer serves, and that a watch names one pid. The proof needed what the code
does when the wait ends: its event loop is destroyed and with it what was still
queued for it (`Unheard`); otherwise a second disconnect would hear the first one's
news.

*Subscriptions.* Assumptions: `NoPurchase` is not a purchase, a purchase's key is a
key, natural bounds, at least one flow. Theorems: `PurchasesKept`
(`PurchasesAreKept`) and `SubscriptionsTyped`. Flows nest, and while one waits
another changes the list it will use; so the invariant says of every flow on the
stack what it may rely on (`Good`), and the relation `Keeps` says that no change of
the list, by whichever flow, takes that away from the ones below.

*Guardian.* Assumptions: there are sites, natural bounds, at least one try. Theorem:
`VerdictsHold` (`VerdictsAreTrue`). The worker's states reach the guardian through a
queue, so `GuardianInv` says that the signals go in pairs, epoch then state, that the
last one says how the worker is, and that two connected states never follow each
other; that a verdict and a probe are of the connection the guardian knows unless it
is about to hear of another (or reconnects with a recovery in flight); and that a
definite answer of the inspector follows from the receipt it was given.

*Log collector.* Assumption: its limits are positive. Theorem:
`BatchesAreStoredOnce` (`StoredOnce`). The invariant says that files and receipts are
sequences and that the batches of the files are distinct. An upload stores a batch
only when neither a receipt nor a file has it; dropping the oldest entries, expiring a
receipt and a failed write keep distinctness; a producer never touches the store, so
nothing is assumed of what it sends. A receipt may be gone while its file is still
there: that the file is looked up as well is what the proof rests on.

**`SystemServiceProofs`.** Four parts, each with its own invariant.
*Privileged processes* (natural quotas, `"none"` is not a user): `AttendedAlways`
(`ProcessesAttended`). Each descriptor is sound by itself, which every signal
preserves; the quota needs that the live descriptors are finitely many, and how the
cardinality of a user's descriptors moves with one (`FiniteSetTheorems`).
*Split tunnel* (convertible applications are applications, natural bounds):
`OnlyAcceptedRules` (`AcceptedRulesOnly`). A helper outlives the service that started
it, so the invariant says who can still get the device: none of an earlier service,
once the driver was reset; and what the rules in force can be at each point of a
handoff. *Linux daemon* (positive depth and use counts, natural errors):
`CleanupIsConfirmed` (`ConfirmedCleanup`). Requests run inside each other's waits, but
only the innermost acts, and the last part of a deactivation never waits; so every
route in the kernel has a count or an endpoint state that stands for it, and a
deactivation on top of the stack has come as far as its step says. *Windows*
(`"none"` is not a peer, positive reference counts, natural faults):
`WindowsPolicyAlwaysHolds` (`WindowsPolicyHolds`) from `WindowsInvariance`. Filters are
added and removed one at a time, so the invariant says which block each of strict
mode, the session and the other peers still has, that the firewall tracks what it
added, and how far a transition between two exclusion lists has come when it can fail.

**`SecureSettingsProofs`.** Assumptions: there are servers and payloads, `""` is no
payload, natural bounds. Theorems: `ServersAlwaysSurvive` (`ServersSurvive`),
`ReleasesAlwaysMoveForward` (`ReleasesMoveForward`), `SettingsInvariance`. A value
passes from the list in memory through encryption and `QSettings`' memory to the file,
and each hop may fail. `SettingsInv` says what agrees: the key material a process has is
the keychain's and is created only while nothing is encrypted (`MaterialOK`); what is
owed is in the file and in memory, readable with that material (`StoresOK`), so it is in
the list shown and in every list about to be saved (`ListOK`); the stored floor stands
for every release accepted, and every floor about to be written is above them
(`FloorsOK`).

**`UpdateDeliveryProofs`.** Assumptions: `Absent` is not a release, releases are records
of naturals with a flag, natural bounds. Of the channel: `VerdictsAreFinal`
(`VerdictIsFinal`) and `ChannelForward` (`ChannelMovesForward`). `ChannelInv` says that a
run has one identity, shared by the server's record, by every command that may still run
late and by its publisher, and that no command leaves a settled phase (a release the endpoint did not serve is
reported as *unserved* and is finalized all the same); a step of
`UpdateDelivery` is a channel step or leaves the channel alone. Of the client:
`RollsBackOnce` (`AutomaticOnce`) and `ReleasesOrderly` (`ReleasesAreOrderly`). Every
handler is a function of disk, memory and the identifiers used; `ClientInv` says that a
handler keeps the identity of the receipt, removes it, or writes one with a fresh
identifier, and that a receipt whose automatic rollback was launched stays *spent*:
terminal, or handed off with no intent in memory that holds its lease. On desktop the
record is written before `launch`; on Android the authorization carries the receipt it
becomes.

**`DaemonProofs`**, SSH transport. Assumptions: there are contents, `Absent` is not one,
natural bounds. Theorem: `AnswersAreDone` (`AnsweredIsDone`, of `SshSpec`). The client
hears of a process only through the channel, so `SshInv` ties the two together: the
channel belongs to the process started last, and only a process that ended with status
zero sends that status, or output (`LinkOK`). A command counts as successful when that
process is its own (`RowOK`); a receipt read after a reconnection is the comparison's,
since nothing of the lost link is left. The status is taken only from a drained channel,
so a command reported as successful had its whole output read. While the promise of a call is not kept, an
operation whose failure ends the call still has the command in front of it
(`SshProgress`); once it is kept, only the clean-up of a failed call or a copy of an
earlier call takes it back (`SshDiskOK`).

**`RoutingProofs`.** Assumption: `NoIf` is not a link (`RouteConstants`); links,
prefixes, profiles, policies, failures and crashes are arbitrary. Theorems:
`ReceiptsAccount` (`ReceiptAccountsForKernel`) and `WorkingObjectAccounts` (the
invariant `Accounted` of `RouteTransaction` under the refinement mapping). The
property speaks of the receipt on disk, and in the middle of a transaction it is
false of what the receipt says; it holds because the intent is on disk then. So
the invariant has two halves. `Good`, between transactions: the next start refuses
or the receipt accounts for the kernel (`Honest`), and an object that still works
says the same as its receipt (`Sound`). `Held`, inside one: the intent is on disk
and the kernel may hold anything. The intent is retired only by a transaction that
did not ask for recovery, so each of those has to end `Sound` (`Fine`), and that is
where the work lies: one lemma per command batch and undo path says which objects
it may add or take away (`RemoveRoutesDoes`, `FullRollbackDoes`, ...), `Under`
and `Undone` say what an unfinished and an undone full tunnel look like, and
`Returnable` from where an only-forward set can still go back to the previous one.
The two saves that fail and only invalidate the object in memory are sound because
the intent stays. A handler of the controller then lands in a good state
(`StepsLand`); a crash, a lost link, a reboot and the operator's clean-up are the
remaining steps of `NextKeeps`. A proof by cases over `Accounts` needs no type
invariant beyond the fields the records have (`Fields`).

*Only model-checked.* Liveness (`Settles`, `Progresses`) rests on fairness and
`ENABLED`, which this prover does not handle. Of routing, `SessionRoutes` and
`NothingLeftBehind` need in addition that a set is installed completely, which
the invariant above does not say, and the steps of the refinement
`AtomicTransactions` are not proved beyond its invariant: the mapping takes a whole
transaction of the reconciler, with every prefix of its commands, to one abstract
step. `DeliveryIsExact` of the logs relates two producers to the collector over the
wire, cell by cell, which needs induction over the logs. The client session
(`BaseIsInstalled`, `ConfirmedAgrees`, `StartsAfterCleanup`, `QuietMeansConverged`),
the migration journals (`MigrationIsProved`), and of self-hosted servers
`PublicationIsTrue`, `RestoredIsBefore` and `AccessIsAsAnswered` have no theorem yet.

### What the proofs found

An invariant that TLC checks on a small instance and that is not inductive is either
too weak or false on a larger one. Four properties were false, and are stated now with
the exception the code has; a model was wrong once.

- *Exclusion receipts* (Windows). `switchServer` ignores the answer of
  `addExclusionRoute` (`client/daemon/daemon.cpp:591`), so a route it could not add is on
  record; `WindowsPolicyHolds` speaks of the routes a transition attempted.
- *Settings.* After a failed sync the cached failure stays; a backup taken then is
  restored as an empty list, and the next server added overwrites the file
  (`secureQSettings.cpp`, 649-661). With three faults a failed reset drops the cached
  failure, and a floor that was not written counts as read back. Both properties of the
  settings except exactly these.
- *Guardian.* During the reconnection of a requested recovery the old verdict is still
  shown (`coreController.cpp:288`); four probes are too few to reach it.
- *SSH transport.* `docker cp` of a call that timed out goes on at the server and may
  finish after the copy of a later call to the same file, which reported success:
  `AnsweredIsDone` names it (`Overtaken`). It takes two calls with two contents, the
  instance has one.
- *Rules publication.* The model set a stopped container running when `docker stop`
  failed; with two mishaps and three attempts `RestoredIsBefore` was false of the model
  only. `SetAside` keeps the container as it was.

## 6. Not modelled

- *Text and cryptography*: configurations, scripts, sanitizer rules, signatures,
  JSON shape, key names. A hash is equality of what was hashed.
- *Headless*: framing, peer credentials, the retired three-file receipts, custom
  interface names, policy expiry.
- *Client*: local split-tunnelling toggles, Android discovery and restore, the
  gateway path of the updater, opening installers externally, quotas and retention
  of the collector, account information, renewal links, key export
  (which writes only a key derived from its entry), the default server, durable writes of the server list by the
  subscriptions (a purchase counts as listed once in memory; `secureQSettings.cpp:630-658`
  may fail to save it), edits an answer overwrites, entries of a later format, which
  loading skips and the next save drops (`secureServersRepository.cpp:326-336`),
  scoring and the doctor report, invalid hosts in the inspector.
- *Service*: macOS, LAN bypass, IPv6 block rules, allowed ranges, route-change
  notifications, the anchors of the Linux firewall, crashes of the Linux service,
  peer authentication.
- *Not source of this project*: `client/3rd`, translations, build recipes, mobile
  applications, QML.

## 7. Plan

1. **Done.** All modules of section 2 with their runs; the theorems of section 5.
2. **Next.** Proofs for what section 5 lists as model-checked only, in the order
   routing (completeness of an installed set, then the refinement steps),
   deliveries of logs, rules publication, migration, client session.
