-------------------------- MODULE ApplicationProofs --------------------------
(***************************************************************************)
(* The settings have one owner, whatever processes are started, from how   *)
(* many installations, and however each of them ends (ProcessInvariance);  *)
(* what the owner tells operator commands is so, however the threads of    *)
(* the application, its commands and its processes interleave              *)
(* (AnswersHold); what was paid for is delivered once and stays removed    *)
(* when it was removed, for every number of purchases, of flows inside     *)
(* each other, of failures and of restarts (PurchasesKept); what the       *)
(* guardian and the inspector show of a connection is so (VerdictsHold);   *)
(* and a batch of a log is stored once, whatever is lost, delayed or sent  *)
(* again (BatchesAreStoredOnce).                                           *)
(***************************************************************************)
EXTENDS OperatorMode, Subscriptions, Guardian, LogDelivery, FiniteSetTheorems, TLAPS

Stages == {"off", "launched", "probed", "starting", "running", "publishing", "stopping",
           "leaving", "closed", "unbound"}
Processes == [at : Stages, path : Paths \cup {"none"}, pid : Nat, settings : BOOLEAN]

ProcessTypeOK ==
    /\ lock \in Nat /\ pids \in Nat /\ bound \in [Paths -> Nat]
    /\ proc \in [Launchers -> Processes]

\* A pid in the lock file, in the file system or of a process was given out,
\* so the next process shares its pid with nothing that was left behind.
PidsWereGivenOut ==
    /\ lock <= pids
    /\ \A path \in Paths : bound[path] <= pids
    /\ \A l \in Launchers : proc[l].pid <= pids

\* Two processes that run have different pids.
PidsAreDistinct ==
    \A l, m \in Launchers : proc[l].pid = proc[m].pid /\ proc[l].pid # NoPid => l = m

GoneHasNothing ==
    \A l \in Launchers :
        /\ proc[l].at = "off" <=> proc[l].pid = NoPid
        /\ proc[l].at \in {"off", "closed", "unbound"} => ~proc[l].settings

\* The core is brought up, runs and is taken down under the lock.
WithCore == {"starting", "running", "publishing", "stopping"}
CoreUnderLock == \A l \in Launchers : proc[l].at \in WithCore => hasCoreOwnership(l)

SettingsUnderLock == \A l \in Launchers : proc[l].settings => hasCoreOwnership(l)

\* An endpoint is made by the owner of the lock, which takes it away before it
\* gives the lock back.
EndpointUnderLock ==
    \A l \in Launchers, path \in Paths :
        proc[l].at # "off" /\ proc[l].pid = bound[path]
            => hasCoreOwnership(l) /\ proc[l].at # "unbound"

\* The inductive invariant.
IInv ==
    /\ ProcessTypeOK /\ PidsWereGivenOut /\ PidsAreDistinct /\ GoneHasNothing
    /\ CoreUnderLock /\ SettingsUnderLock /\ EndpointUnderLock

-----------------------------------------------------------------------------

\* Before any process is started nothing is held.
LEMMA InitHolds == OperatorInit => IInv
BY OperatorAssumption DEF OperatorInit, IInv, ProcessTypeOK, PidsWereGivenOut, PidsAreDistinct, GoneHasNothing,
  CoreUnderLock, SettingsUnderLock, EndpointUnderLock, Processes, Stages, WithCore, Gone, NoPid, hasCoreOwnership

\* The lock that is taken over is nobody's: a process that holds anything under
\* it would be alive.
LEMMA LaunchHolds ==
    ASSUME IInv, NEW l \in Launchers, NEW path \in Paths, Launch(l, path)
    PROVE  IInv'
<1> USE OperatorAssumption DEF IInv, NoPid
<1>1. /\ proc[l].at = "off" /\ pids' = pids + 1 /\ bound' = bound
      /\ proc' = [proc EXCEPT ![l] = [at |-> "launched", path |-> path, pid |-> pids + 1,
                                      settings |-> lock' = pids + 1]]
      /\ lock' = pids + 1 \/ (lock' = lock /\ lock # NoPid /\ Alive(lock)) BY DEF Launch, acquireCoreOwnership
<1>7. ASSUME NEW m \in Launchers, m # l, hasCoreOwnership(m), proc[m].at # "off"
      PROVE  hasCoreOwnership(m)'
  BY <1>1, <1>7 DEF hasCoreOwnership, GoneHasNothing, Alive, ProcessTypeOK, Launch, acquireCoreOwnership,
    PidsWereGivenOut
<1>9. SettingsUnderLock'
  <2> SUFFICES ASSUME NEW m \in Launchers, proc'[m].settings
               PROVE  hasCoreOwnership(m)' BY DEF SettingsUnderLock
  <2>1. CASE m = l BY <1>1, <2>1 DEF hasCoreOwnership, ProcessTypeOK
  <2>2. CASE m # l BY <1>1, <1>7, <2>2 DEF SettingsUnderLock, GoneHasNothing, ProcessTypeOK
  <2> QED BY <2>1, <2>2
<1> QED
  BY <1>1, <1>7, <1>9 DEF ProcessTypeOK, Processes, Stages, PidsWereGivenOut, PidsAreDistinct, GoneHasNothing,
    CoreUnderLock, WithCore, EndpointUnderLock

\* The endpoint is made by the owner of the lock.
LEMMA startLocalServerHolds ==
    ASSUME IInv, NEW l \in Launchers, startLocalServer(l)
    PROVE  IInv'
<1> USE OperatorAssumption DEF IInv, NoPid, startLocalServer, Becomes
<1>7. EndpointUnderLock'
  <2> SUFFICES ASSUME NEW m \in Launchers, NEW q \in Paths, proc'[m].at # "off",
                      proc'[m].pid = bound'[q]
               PROVE  hasCoreOwnership(m)' /\ proc'[m].at # "unbound" BY DEF EndpointUnderLock
  <2>1. proc'[m].pid = proc[m].pid /\ (m # l => proc'[m] = proc[m]) /\ proc[m].at # "off" /\ lock' = lock
    BY DEF ProcessTypeOK, Processes
  <2>2. CASE bound'[q] = bound[q] BY <2>1, <2>2 DEF EndpointUnderLock, hasCoreOwnership, ProcessTypeOK, Processes
  <2>3. CASE bound'[q] # bound[q]
    <3>1. hasCoreOwnership(l) /\ bound'[q] = proc[l].pid /\ proc'[l].at = "starting"
      BY <2>3 DEF ProcessTypeOK, Processes
    <3>2. m = l BY <2>1, <3>1, ZenonT(40) DEF PidsAreDistinct, GoneHasNothing, ProcessTypeOK, Processes
    <3> QED BY <2>1, <3>1, <3>2 DEF hasCoreOwnership
  <2> QED BY <2>2, <2>3
<1> QED
  BY <1>7 DEF ProcessTypeOK, Processes, Stages, PidsWereGivenOut, PidsAreDistinct, GoneHasNothing, CoreUnderLock,
    WithCore, hasCoreOwnership, SettingsUnderLock

\* The steps of one process that leave the lock and the endpoints alone: it
\* moves on, and enters a stage with a core only with the lock.
LEMMA MovesOnHolds ==
    ASSUME IInv, NEW l \in Launchers, NEW stage \in Stages \ {"off", "closed", "unbound"},
           proc[l].at \notin {"off", "closed", "unbound"},
           Becomes(l, stage), UNCHANGED <<lock, bound, pids>>,
           stage \in WithCore => hasCoreOwnership(l)
    PROVE  IInv'
<1> USE OperatorAssumption DEF IInv, NoPid, Becomes
<1> QED
  BY DEF ProcessTypeOK, Processes, Stages, PidsWereGivenOut, PidsAreDistinct, GoneHasNothing, CoreUnderLock, WithCore,
    hasCoreOwnership, SettingsUnderLock, EndpointUnderLock

\* The settings are closed while the lock is held.
LEMMA CloseSettingsHolds ==
    ASSUME IInv, NEW l \in Launchers, CloseSettings(l)
    PROVE  IInv'
<1> USE OperatorAssumption DEF IInv, NoPid, CloseSettings
<1>1. ProcessTypeOK' BY ZenonT(40) DEF ProcessTypeOK, Processes, Stages
<1> QED
  BY <1>1 DEF PidsWereGivenOut, ProcessTypeOK, Processes, PidsAreDistinct, GoneHasNothing, CoreUnderLock, WithCore,
    hasCoreOwnership, SettingsUnderLock, EndpointUnderLock

\* The endpoint goes while the lock is held.
LEMMA DeleteLocalServerHolds ==
    ASSUME IInv, NEW l \in Launchers, DeleteLocalServer(l)
    PROVE  IInv'
<1> USE OperatorAssumption DEF IInv, NoPid, DeleteLocalServer, Becomes, Unbound
<1> QED
  BY DEF ProcessTypeOK, Processes, Stages, PidsWereGivenOut, PidsAreDistinct, GoneHasNothing, CoreUnderLock, WithCore,
    hasCoreOwnership, SettingsUnderLock, EndpointUnderLock

\* A process that is gone holds nothing; what it leaves behind is nobody's.
LEMMA ExitsHolds ==
    ASSUME IInv, NEW l \in Launchers, proc[l].at # "off", Exits(l),
           UNCHANGED <<bound, pids>>,
           lock' = lock \/ (hasCoreOwnership(l) /\ lock' = NoPid)
    PROVE  IInv'
<1> USE OperatorAssumption DEF IInv, NoPid, Exits, Gone
<1>5. ASSUME NEW m \in Launchers, m # l, hasCoreOwnership(m), proc[m].at # "off"
      PROVE  hasCoreOwnership(m)' BY <1>5 DEF PidsAreDistinct, GoneHasNothing, hasCoreOwnership, ProcessTypeOK
<1> QED
  BY <1>5 DEF ProcessTypeOK, Processes, Stages, PidsWereGivenOut, PidsAreDistinct, GoneHasNothing, CoreUnderLock,
    WithCore, SettingsUnderLock, EndpointUnderLock

\* Every step of a process keeps the invariant.
LEMMA ProcessStepHolds ==
    ASSUME IInv, ProcessStep
    PROVE  IInv'
<1> USE DEF Stages, WithCore
<1> PICK l \in Launchers :
        \/ \E path \in Paths : Launch(l, path)
        \/ isAnotherInstanceRunning(l) \/ startLocalServer(l) \/ PublishBundledUpdatesOnce(l)
        \/ parseCommands(l) \/ init(l) \/ Quit(l) \/ StopWorker(l) \/ CloseSettings(l) \/ DeleteLocalServer(l)
        \/ ReleaseOwnership(l) \/ Crash(l) BY DEF ProcessStep
<1>1. CASE \E path \in Paths : Launch(l, path) BY <1>1, LaunchHolds
<1>2. CASE isAnotherInstanceRunning(l) BY <1>2, MovesOnHolds DEF isAnotherInstanceRunning
<1>3. CASE startLocalServer(l) BY <1>3, startLocalServerHolds
<1>4. CASE PublishBundledUpdatesOnce(l) BY <1>4, MovesOnHolds DEF PublishBundledUpdatesOnce
<1>5. CASE parseCommands(l) BY <1>5, MovesOnHolds DEF parseCommands
<1>6. CASE init(l) BY <1>6, MovesOnHolds DEF init, IInv, CoreUnderLock
<1>7. CASE Quit(l) BY <1>7, MovesOnHolds DEF Quit, IInv, CoreUnderLock
<1>8. CASE StopWorker(l) BY <1>8, MovesOnHolds DEF StopWorker
<1>9. CASE CloseSettings(l) BY <1>9, CloseSettingsHolds
<1>10. CASE DeleteLocalServer(l) BY <1>10, DeleteLocalServerHolds
<1>11. CASE ReleaseOwnership(l) BY <1>11, ExitsHolds DEF ReleaseOwnership
<1>12. CASE Crash(l) BY <1>12, ExitsHolds DEF Crash
<1> QED BY <1>1, <1>2, <1>3, <1>4, <1>5, <1>6, <1>7, <1>8, <1>9, <1>10, <1>11, <1>12

\* The worker, the routing settings, the commands and the watch of another
\* process leave the processes, the lock and the endpoints alone.
LEMMA OthersKeepProcesses ==
    ASSUME WorkerStep \/ RoutingStep \/ ClientStep \/ WatchStep
    PROVE  UNCHANGED processVars
<1>1. CASE WorkerStep
  BY <1>1 DEF WorkerStep, ConnectToVpn, ProtocolReports, DisconnectFromVpn, DisconnectEnds, SetConnectionState,
    captureVpnSnapshot, ProcessEvent, RefreshTimer, SnapshotAges, ElseWorker
<1>2. CASE RoutingStep BY <1>2 DEF RoutingStep, ConfirmManagedRoutes, EditRouting, ElseWorker
<1>3. CASE ClientStep
  BY <1>3 DEF ClientStep, tryForwardOperatorCommand, ForwardFails, PrintAnswer, operatorStatus, operatorDisconnect,
    DisconnectReturns, operatorDoctor, operatorRoutesExplain, ElseClient
<1>4. CASE WatchStep BY <1>4 DEF WatchStep, WatchStarts, poll, publish, WatchFails, ElseWatch
<1> QED BY <1>1, <1>2, <1>3, <1>4

\* The invariant is inductive.
THEOREM ProcessInvariance == OperatorSpec => []IInv
<1>1. OperatorInit => IInv BY InitHolds
<1>2. IInv /\ [OperatorStep]_operatorVars => IInv'
  BY ProcessStepHolds, OthersKeepProcesses DEF processVars, IInv, ProcessTypeOK, PidsWereGivenOut, PidsAreDistinct,
    GoneHasNothing, CoreUnderLock, SettingsUnderLock, EndpointUnderLock, hasCoreOwnership, OperatorStep, operatorVars
<1> QED BY <1>1, <1>2, PTL DEF OperatorSpec

\* Whoever has the settings open or listens as the primary owns the lock
\* (amneziaApplication's constructor, startLocalServer and destructor).
THEOREM OwnerHasTheLock == OperatorSpec => []OneAuthority
<1>1. IInv => OneAuthority BY DEF IInv, OneAuthority, SettingsUnderLock, EndpointUnderLock
<1> QED BY <1>1, ProcessInvariance, PTL

\* Two processes never bring up, run or take down a core at the same time.
OneCore ==
    \A l, m \in Launchers : proc[l].at \in WithCore /\ proc[m].at \in WithCore => l = m

\* So one core at most works on the settings, whatever the installations are.
THEOREM CoreIsAlone == OperatorSpec => []OneCore
<1>1. IInv => OneCore
  BY DEF IInv, OneCore, CoreUnderLock, PidsAreDistinct, GoneHasNothing, WithCore, hasCoreOwnership, NoPid
<1> QED BY <1>1, ProcessInvariance, PTL

-----------------------------------------------------------------------------
(* The answers to operator commands. *)

Live == {"connecting", "connected", "reconnecting"}
States == Live \cup {"disconnecting", "disconnected", "error"}
HostNames == Hosts \cup {NoHost}
Announcements == [is : {"state"}, st : States, heard : BOOLEAN]
Snapshots == [is : {"snapshot"}, st : States, host : HostNames, of : Nat]
WorkerFields == {"runs", "st", "protocol", "host", "epoch", "next", "changes", "receipt", "disconnect"}
ViewFields == {"st", "host", "known", "aged", "generation", "pending", "asked", "askedAt"}

SeenTypeOK ==
    /\ inbox \in Seq(Announcements \cup Snapshots)
    /\ WorkerFields \subseteq DOMAIN worker /\ worker.runs \in BOOLEAN /\ worker.epoch \in Nat
    /\ worker.protocol \in BOOLEAN
    /\ worker.st \in States /\ worker.next \in States \cup {"none"} /\ worker.host \in HostNames
    /\ ViewFields \subseteq DOMAIN view /\ view.known \in BOOLEAN
    /\ view.generation \in Nat /\ view.askedAt \in Nat

\* No announcement of the worker waits at position i of the inbox or after it.
QuietFrom(i) == \A j \in DOMAIN inbox : j >= i => inbox[j].is # "state"

\* A snapshot or a view x that shows the worker as it is.
Shows(x) == x.st = worker.st /\ (worker.next # "connecting" => x.host = worker.host)

\* The queue is first in, first out: a snapshot without a later announcement is
\* of the worker as it is, and so is the view that believed it.
SnapshotsAreCurrent ==
    \A i \in DOMAIN inbox : inbox[i].is = "snapshot" /\ QuietFrom(i) => Shows(inbox[i])
ViewIsCurrent == view.known /\ QuietFrom(1) => Shows(view)

\* The connection is over, and nothing of it can report that it is up again.
Over ==
    /\ worker.st \notin Live /\ worker.next \notin Live
    /\ worker.st = "error" \/ worker.next = "error" => ~worker.protocol

\* A teardown has let go of its protocol.
Teardown ==
    worker.next = "disconnecting" \/ (worker.st = "disconnecting" /\ worker.next # "connecting") => ~worker.protocol

\* Every connection has a number, and one that is taken down has no protocol.
EpochsCount == Teardown /\ (worker.epoch = 0 => Over /\ ~worker.protocol)

\* The connection of that session has ended, and no later one bears its number.
Past(session) == worker.epoch > session \/ (worker.epoch = session /\ Over)

\* While operatorDisconnect waits its process runs, what it asked to end is of
\* that process, and what it has heard, or is about to hear, is the end of it.
WaitHolds ==
    /\ stopping.on \in BOOLEAN
    /\ stopping.on =>
         /\ {"on", "session", "heard"} \subseteq DOMAIN stopping
         /\ \E l \in Launchers : proc[l].at = "running"
         /\ stopping.session \in Nat /\ stopping.session <= worker.epoch
         /\ worker.st = "disconnected" => Past(stopping.session)
         /\ stopping.heard => Past(stopping.session)
    /\ \A i \in DOMAIN inbox :
         inbox[i].is = "state" /\ inbox[i].st = "disconnected" /\ inbox[i].heard
            => stopping.on /\ Past(stopping.session)

\* The process that was asked is the one whose worker this is; the process that
\* answered still is, or it has stopped its worker for good.
Before == {"launched", "probed", "starting"}
AnswerHolds ==
    /\ client.kind = "disconnect" /\ client.at = "waiting" /\ stopping.on =>
         \E l \in Launchers : proc[l].pid = client.to /\ proc[l].at = "running"
    /\ client.kind = "disconnect" /\ client.at = "answered" /\ client.claim = "completed" =>
         /\ client.about.by \in Nat /\ client.about.by # NoPid /\ client.about.by <= pids
         /\ client.about.session \in Nat
         /\ \A l \in Launchers : proc[l].pid = client.about.by =>
               /\ proc[l].at \notin Before
               /\ proc[l].at = "running" => Past(client.about.session)

\* A watch asks the primary it first met, and hears of no other.
WatchHolds ==
    /\ {"at", "path", "pid", "to", "story", "end"} \subseteq DOMAIN watch
    /\ watch.story \subseteq {watch.pid}
    /\ watch.pid = NoPid => watch.story = {}
    /\ watch.at = "asked" => watch.to = watch.pid /\ watch.pid # NoPid

\* What the GUI thread has seen of the worker.
Seen == SeenTypeOK /\ SnapshotsAreCurrent /\ ViewIsCurrent /\ EpochsCount

AnswersInv == Seen /\ WaitHolds /\ AnswerHolds /\ WatchHolds

-----------------------------------------------------------------------------

\* A step that leaves the worker, its queue and the view alone.
LEMMA SeenStays ==
    ASSUME Seen, UNCHANGED <<worker, inbox>>,
           view' = view \/ view' = requestOperatorVpnSnapshotRefresh(view)
               \/ view' = [view EXCEPT !.aged = TRUE]
    PROVE  Seen'
<1>1. /\ ViewFields \subseteq DOMAIN view' /\ view'.known = view.known /\ view'.st = view.st
      /\ view'.host = view.host /\ view'.generation = view.generation /\ view'.askedAt \in Nat
  BY DEF Seen, SeenTypeOK, ViewFields, requestOperatorVpnSnapshotRefresh
<1> QED BY <1>1 DEF Seen, SeenTypeOK, SnapshotsAreCurrent, ViewIsCurrent, EpochsCount, Over, Teardown, QuietFrom, Shows

\* A worker that starts, stops or dies with its process.
LEMMA SeenRestarts ==
    ASSUME worker' \in {Resting, [Resting EXCEPT !.runs = TRUE]}, inbox' = <<>>,
           view' \in {Unseen, [Unseen EXCEPT !.pending = TRUE, !.asked = TRUE]}
    PROVE  Seen'
<1>1. /\ WorkerFields \subseteq DOMAIN worker' /\ worker'.runs \in BOOLEAN /\ worker'.epoch = 0
      /\ worker'.st = "disconnected" /\ worker'.next = "none" /\ worker'.host = NoHost
      /\ worker'.protocol = FALSE
  <2>1. CASE worker' = Resting BY <2>1 DEF Resting, WorkerFields
  <2>2. CASE worker' = [Resting EXCEPT !.runs = TRUE] BY <2>2 DEF Resting, WorkerFields
  <2> QED BY <2>1, <2>2
<1>2. /\ ViewFields \subseteq DOMAIN view' /\ view'.known = FALSE /\ view'.generation = 0
      /\ view'.askedAt = 0
  <2>1. CASE view' = Unseen BY <2>1 DEF Unseen, ViewFields
  <2>2. CASE view' = [Unseen EXCEPT !.pending = TRUE, !.asked = TRUE] BY <2>2 DEF Unseen, ViewFields
  <2> QED BY <2>1, <2>2
<1>3. inbox' \in Seq(Announcements \cup Snapshots) /\ DOMAIN inbox' = {} OBVIOUS
<1>4. SeenTypeOK'
  <2>4. view'.known \in BOOLEAN /\ worker'.protocol \in BOOLEAN BY <1>1, <1>2, Zenon
  <2> QED BY <1>1, <1>2, <1>3, <2>4 DEF SeenTypeOK, States, HostNames
<1> QED BY <1>1, <1>2, <1>3, <1>4 DEF Seen, SnapshotsAreCurrent, ViewIsCurrent, EpochsCount, Over, Teardown, Live

\* The worker begins to change, with a new connection or within the one it has.
Begins ==
    /\ WorkerFields \subseteq DOMAIN worker' /\ worker'.runs \in BOOLEAN /\ worker'.protocol \in BOOLEAN
    /\ worker.next = "none" /\ worker'.st = worker.st /\ worker'.host \in HostNames
    /\ worker'.next \in States \cup {"none"} /\ Teardown'
    /\ \/ worker'.epoch = worker.epoch + 1 /\ worker'.next = "connecting"
       \/ /\ worker'.epoch = worker.epoch /\ worker'.host = worker.host /\ worker'.next # "connecting"
          /\ Over => Over'
          /\ worker.epoch = 0 => worker'.protocol = FALSE

\* Until it has announced it the worker shows what it showed.
LEMMA SeenBegins ==
    ASSUME Seen, UNCHANGED <<inbox, view>>, Begins
    PROVE  Seen'
<1> QED
  BY DEF Begins, Seen, SnapshotsAreCurrent, ViewIsCurrent, EpochsCount, QuietFrom, Shows, SeenTypeOK

\* The worker keeps what snapshots show.
LEMMA SeenKeeps ==
    ASSUME Seen, UNCHANGED <<inbox, view>>, WorkerFields \subseteq DOMAIN worker',
           worker'.runs \in BOOLEAN, worker'.st = worker.st, worker'.host = worker.host,
           worker'.next = worker.next, worker'.epoch = worker.epoch, worker'.protocol = worker.protocol
    PROVE  Seen'
BY DEF Seen, SeenTypeOK, SnapshotsAreCurrent, ViewIsCurrent, EpochsCount, Over, Teardown, QuietFrom, Shows

\* What one more message in the queue is.
LEMMA Appended ==
    ASSUME NEW M, NEW s \in Seq(M), NEW m \in M
    PROVE  /\ Append(s, m) \in Seq(M) /\ DOMAIN s = 1 .. Len(s) /\ Len(s) \in Nat
           /\ DOMAIN Append(s, m) = 1 .. Len(s) + 1
           /\ Append(s, m)[Len(s) + 1] = m
           /\ \A i \in 1 .. Len(s) : Append(s, m)[i] = s[i]
OBVIOUS

\* What a step of SetConnectionState does: it announces, or swallows the end of
\* a protocol that is being replaced.
Swallowed == worker.next = "disconnected" /\ worker.st = "reconnecting"
LEMMA Announcing ==
    ASSUME Seen, SetConnectionState
    PROVE  /\ WorkerFields \subseteq DOMAIN worker' /\ worker'.runs = worker.runs
           /\ worker'.next = "none" /\ worker'.host = worker.host /\ worker'.protocol = worker.protocol
           /\ worker'.epoch = worker.epoch /\ view' = view /\ worker.next # "none"
           /\ Swallowed => worker'.st = worker.st /\ inbox' = inbox
           /\ ~Swallowed => /\ worker'.st = worker.next
                            /\ inbox' = Append(inbox, [is |-> "state", st |-> worker.next, heard |-> stopping.on])
BY DEF SetConnectionState, Seen, SeenTypeOK, WorkerFields, Swallowed

\* The announcement outdates every snapshot before it.
LEMMA SeenAnnounces ==
    ASSUME Seen, SetConnectionState, stopping.on \in BOOLEAN
    PROVE  Seen'
<1> DEFINE m == [is |-> "state", st |-> worker.next, heard |-> stopping.on]
<1>1. EpochsCount' BY Announcing DEF Seen, SeenTypeOK, EpochsCount, Over, Teardown, Swallowed, Live
<1>2. CASE Swallowed
  BY <1>1, <1>2, Announcing DEF Seen, SnapshotsAreCurrent, ViewIsCurrent, SeenTypeOK, QuietFrom, Shows, Swallowed
<1>3. CASE ~Swallowed
  <2>2. m \in Announcements \cup Snapshots /\ m.is = "state" BY Announcing DEF Seen, SeenTypeOK, Announcements
  <2>3. /\ inbox' \in Seq(Announcements \cup Snapshots) /\ Len(inbox) \in Nat
        /\ DOMAIN inbox' = 1 .. Len(inbox) + 1 /\ inbox'[Len(inbox) + 1] = m
    <3>1. inbox' = Append(inbox, m) /\ inbox \in Seq(Announcements \cup Snapshots)
      BY <1>3, Announcing DEF Seen, SeenTypeOK
    <3> HIDE DEF m
    <3> QED BY <2>2, <3>1, Appended
  <2> HIDE DEF m
  <2> QED BY <1>1, <1>3, <2>2, <2>3, Announcing DEF Seen, SnapshotsAreCurrent, ViewIsCurrent, SeenTypeOK, QuietFrom
<1> QED BY <1>2, <1>3

\* A snapshot is captured of the worker as it is.
LEMMA SeenCaptures ==
    ASSUME Seen, captureVpnSnapshot
    PROVE  Seen'
<1> DEFINE m == [is |-> "snapshot", st |-> worker.st, host |-> worker.host, of |-> view.askedAt]
<1>1. /\ worker' = worker /\ inbox' = Append(inbox, m) /\ ViewFields \subseteq DOMAIN view'
      /\ view'.known = view.known /\ view'.st = view.st /\ view'.host = view.host
      /\ view'.generation = view.generation /\ view'.askedAt = view.askedAt
  BY DEF captureVpnSnapshot, Seen, SeenTypeOK, ViewFields
<1>2. m \in Announcements \cup Snapshots /\ m.is # "state" /\ Shows(m) BY DEF Seen, SeenTypeOK, Snapshots, Shows
<1>3. /\ inbox' \in Seq(Announcements \cup Snapshots) /\ Len(inbox) \in Nat
      /\ DOMAIN inbox = 1 .. Len(inbox)
      /\ DOMAIN inbox' = 1 .. Len(inbox) + 1 /\ inbox'[Len(inbox) + 1] = m
      /\ \A i \in DOMAIN inbox : inbox'[i] = inbox[i] BY <1>1, <1>2, Appended DEF Seen, SeenTypeOK
<1> HIDE DEF m
<1> QED BY <1>1, <1>2, <1>3 DEF Seen, EpochsCount, Over, Teardown, SeenTypeOK, SnapshotsAreCurrent, Shows, QuietFrom,
    ViewIsCurrent

\* What the queue is without its head.
LEMMA Popped ==
    ASSUME NEW M, NEW s \in Seq(M), s # <<>>
    PROVE  /\ Tail(s) \in Seq(M) /\ Len(s) \in Nat /\ Len(s) > 0 /\ DOMAIN s = 1 .. Len(s)
           /\ DOMAIN Tail(s) = 1 .. Len(s) - 1
           /\ \A i \in 1 .. Len(s) - 1 : Tail(s)[i] = s[i + 1]
           /\ Head(s) = s[1] /\ Head(s) \in M
OBVIOUS

\* An event of the queue is handled: an announcement discredits the view, a
\* snapshot that is believed was the oldest message.
LEMMA SeenProcesses ==
    ASSUME Seen, ProcessEvent
    PROVE  Seen'
<1> DEFINE m == Head(inbox)
           M == Announcements \cup Snapshots
<1>1. /\ worker' = worker /\ inbox' = Tail(inbox) /\ inbox # <<>>
      /\ view' = IF m.is = "state" THEN HeardState(m.st) ELSE HeardSnapshot(m) BY DEF ProcessEvent
<1>2. /\ inbox' \in Seq(M) /\ Len(inbox) \in Nat /\ Len(inbox) > 0
      /\ DOMAIN inbox = 1 .. Len(inbox) /\ DOMAIN inbox' = 1 .. Len(inbox) - 1
      /\ \A i \in 1 .. Len(inbox) - 1 : inbox'[i] = inbox[i + 1]
      /\ m = inbox[1] /\ m \in M BY <1>1, Popped DEF Seen, SeenTypeOK
<1>3. /\ ViewFields \subseteq DOMAIN view' /\ view'.known \in BOOLEAN
      /\ view'.generation \in Nat /\ view'.askedAt \in Nat
      /\ m.is = "state" => view'.known = FALSE
      /\ m.is # "state" => \/ view'.known = view.known /\ view'.st = view.st /\ view'.host = view.host
                           \/ view'.st = m.st /\ view'.host = m.host
  <2> HIDE DEF m
  <2>1. CASE m.is = "state"
    BY <1>1, <2>1 DEF HeardState, requestOperatorVpnSnapshotRefresh, Seen, SeenTypeOK, ViewFields
  <2>2. CASE m.is # "state"
    BY <1>1, <2>2 DEF HeardSnapshot, requestOperatorVpnSnapshotRefresh, Seen, SeenTypeOK, ViewFields
  <2> QED BY <2>1, <2>2
<1> HIDE DEF m
<1>5. \A i \in DOMAIN inbox' : i + 1 \in DOMAIN inbox /\ (QuietFrom(i)' => QuietFrom(i + 1))
  <2> SUFFICES ASSUME NEW i \in DOMAIN inbox', QuietFrom(i)', NEW j \in DOMAIN inbox, j >= i + 1
               PROVE  inbox[j].is # "state" BY <1>2 DEF QuietFrom
  <2>1. j - 1 \in DOMAIN inbox' /\ j - 1 >= i /\ inbox'[j - 1] = inbox[j] BY <1>2
  <2> QED BY <2>1 DEF QuietFrom
<1>7. ViewIsCurrent'
  <2> SUFFICES ASSUME view'.known, QuietFrom(1)'
               PROVE  Shows(view)' BY DEF ViewIsCurrent
  <2>1. m.is # "state" BY <1>3
  <2>2. QuietFrom(1)
    <3> SUFFICES ASSUME NEW j \in DOMAIN inbox, j # 1
                 PROVE  inbox[j].is # "state" BY <1>2, <2>1 DEF QuietFrom
    <3>1. j - 1 \in DOMAIN inbox' /\ j - 1 >= 1 /\ inbox'[j - 1] = inbox[j] BY <1>2
    <3> QED BY <3>1 DEF QuietFrom
  <2>4. Shows(m) BY <1>2, <2>1, <2>2 DEF Seen, SnapshotsAreCurrent, Announcements, Snapshots
  <2> QED BY <1>1, <1>3, <2>1, <2>2, <2>4 DEF Seen, ViewIsCurrent, Shows
<1> QED BY <1>1, <1>2, <1>3, <1>5, <1>7 DEF Seen, EpochsCount, Over, Teardown, SeenTypeOK, SnapshotsAreCurrent,
    Shows

-----------------------------------------------------------------------------

\* A queue, a disconnect that waits and a worker that moves on.
LEMMA WaitCarries ==
    ASSUME WaitHolds, UNCHANGED <<proc, stopping, inbox>>, worker.epoch \in Nat,
           \A s \in Nat : Past(s) => Past(s)',
           worker'.epoch \in Nat, worker'.epoch >= worker.epoch, worker'.st = worker.st
    PROVE  WaitHolds'
<1> QED BY DEF WaitHolds

\* What was answered stays so while sessions only end.
LEMMA AnswersCarry ==
    ASSUME AnswerHolds, UNCHANGED <<proc, pids, client>>, stopping'.on => stopping.on,
           \A s \in Nat : Past(s) => Past(s)'
    PROVE  AnswerHolds'
<1> QED BY DEF AnswerHolds

\* A worker that begins to change keeps the sessions that are past.
LEMMA BeginsHolds ==
    ASSUME AnswersInv, UNCHANGED <<proc, pids, client, watch, stopping, inbox, view>>, Begins
    PROVE  AnswersInv'
<1>1. worker.epoch \in Nat /\ worker'.epoch \in Nat /\ worker'.epoch >= worker.epoch
      /\ worker'.st = worker.st BY DEF Begins, AnswersInv, Seen, SeenTypeOK
<1>3. \A s \in Nat : Past(s) => Past(s)' BY <1>1 DEF Begins, Past
<1> QED BY <1>1, <1>3, AnswersCarry, WaitCarries, SeenBegins DEF AnswersInv, WatchHolds

\* A worker that keeps its connection.
LEMMA KeepsHolds ==
    ASSUME AnswersInv, UNCHANGED <<proc, pids, client, watch, stopping, inbox, view>>,
           WorkerFields \subseteq DOMAIN worker', worker'.runs \in BOOLEAN,
           worker'.st = worker.st, worker'.host = worker.host, worker'.next = worker.next,
           worker'.epoch = worker.epoch, worker'.protocol = worker.protocol
    PROVE  AnswersInv'
<1>2. \A s \in Nat : Past(s) => Past(s)' BY DEF Past, Over
<1> QED BY <1>2, AnswersCarry, WaitCarries, SeenKeeps DEF AnswersInv, WatchHolds, WaitHolds, Seen, SeenTypeOK

\* The worker announces: a disconnect that waits hears of the end of its session.
LEMMA AnnounceHolds ==
    ASSUME AnswersInv, SetConnectionState
    PROVE  AnswersInv'
<1> DEFINE m == [is |-> "state", st |-> worker.next, heard |-> stopping.on]
<1>1. UNCHANGED <<proc, pids, client, watch, stopping, view>> /\ Seen /\ worker.epoch \in Nat
  BY DEF SetConnectionState, AnswersInv, Seen, SeenTypeOK, ElseWorker, processVars
<1>3. \A s \in Nat : Past(s) => Past(s)' BY <1>1, Announcing DEF Past, Over, Swallowed, Live
<1>4. Seen' /\ AnswerHolds' /\ WatchHolds'
  BY <1>1, <1>3, AnswersCarry, SeenAnnounces DEF AnswersInv, WatchHolds, WaitHolds
<1>5. CASE Swallowed BY <1>1, <1>3, <1>4, <1>5, Announcing, WaitCarries DEF AnswersInv
<1>6. CASE ~Swallowed
  <2>1. worker'.st = "disconnected" /\ stopping.on => Past(stopping.session)'
    BY <1>1, Announcing, <1>6 DEF AnswersInv, WaitHolds, Past, Over, Live
  <2>2. /\ inbox' = Append(inbox, m) /\ inbox \in Seq(Announcements \cup Snapshots)
        /\ m \in Announcements \cup Snapshots /\ worker'.st = worker.next /\ worker'.epoch = worker.epoch
    BY <1>1, <1>6, Announcing DEF AnswersInv, WaitHolds, Seen, SeenTypeOK, Announcements
  <2>3. /\ DOMAIN inbox = 1 .. Len(inbox) /\ Len(inbox) \in Nat /\ DOMAIN inbox' = 1 .. Len(inbox) + 1
        /\ inbox'[Len(inbox) + 1] = m /\ \A i \in 1 .. Len(inbox) : inbox'[i] = inbox[i]
    <3> HIDE DEF m
    <3> QED BY <2>2, Appended
  <2>4. WaitHolds'
    <3>1. \A i \in DOMAIN inbox' : i \in DOMAIN inbox \/ i = Len(inbox) + 1 BY <2>3
    <3> QED BY <1>1, <1>3, <2>1, <2>2, <2>3, <3>1 DEF AnswersInv, WaitHolds
  <2> QED BY <1>4, <2>4 DEF AnswersInv
<1> QED BY <1>5, <1>6

\* A snapshot is no announcement.
LEMMA CaptureHolds ==
    ASSUME AnswersInv, captureVpnSnapshot
    PROVE  AnswersInv'
<1> DEFINE m == [is |-> "snapshot", st |-> worker.st, host |-> worker.host, of |-> view.askedAt]
<1>1. /\ UNCHANGED <<proc, pids, client, watch, stopping, worker>> /\ inbox' = Append(inbox, m)
  BY DEF captureVpnSnapshot, ElseWorker, processVars
<1> QED
  BY <1>1, AnswersCarry, Appended, SeenCaptures DEF AnswersInv, WatchHolds, WaitHolds, Past, Over, Seen, SeenTypeOK,
    Snapshots

\* The disconnect that waits is told only of what was announced while it waits.
LEMMA ProcessEventHolds ==
    ASSUME AnswersInv, ProcessEvent
    PROVE  AnswersInv'
<1> DEFINE m == Head(inbox)
<1>1. /\ UNCHANGED <<proc, pids, client, watch, worker>> /\ inbox' = Tail(inbox) /\ inbox # <<>>
      /\ stopping' = IF stopping.on /\ m.is = "state" /\ m.st = "disconnected" /\ m.heard
                     THEN [stopping EXCEPT !.heard = TRUE] ELSE stopping BY DEF ProcessEvent, ElseWorker, processVars
<1>3. /\ Len(inbox) \in Nat /\ Len(inbox) > 0
      /\ DOMAIN inbox = 1 .. Len(inbox) /\ DOMAIN inbox' = 1 .. Len(inbox) - 1
      /\ \A i \in 1 .. Len(inbox) - 1 : inbox'[i] = inbox[i + 1]
      /\ m = inbox[1] BY <1>1, Popped DEF AnswersInv, Seen, SeenTypeOK
<1> HIDE DEF m
<1>5. /\ stopping'.on = stopping.on
      /\ stopping.on => /\ {"on", "session", "heard"} \subseteq DOMAIN stopping'
                        /\ stopping'.session = stopping.session
                        /\ stopping'.heard => stopping.heard \/ Past(stopping.session)
  <2>1. CASE stopping' = stopping BY <2>1 DEF AnswersInv, WaitHolds
  <2>2. CASE stopping.on /\ m.is = "state" /\ m.st = "disconnected" /\ m.heard
    <3>1. Past(stopping.session) BY <1>3, <2>2 DEF AnswersInv, WaitHolds
    <3> QED BY <1>1, <2>2, <3>1 DEF AnswersInv, WaitHolds
  <2> QED BY <1>1, <2>1, <2>2
<1> QED BY <1>1, <1>3, <1>5, AnswersCarry, SeenProcesses DEF AnswersInv, WatchHolds, WaitHolds, Past, Over

-----------------------------------------------------------------------------

\* Nothing of the worker, of its queue and of a disconnect that waits moves.
LEMMA NothingMoves ==
    ASSUME AnswersInv, UNCHANGED <<proc, pids, worker, inbox, stopping, client>>,
           view' = view \/ view' = requestOperatorVpnSnapshotRefresh(view)
               \/ view' = [view EXCEPT !.aged = TRUE],
           WatchHolds'
    PROVE  AnswersInv'
<1> QED BY SeenStays DEF AnswersInv, WaitHolds, Past, Over, AnswerHolds

\* The threads of the application that runs.
LEMMA WorkerStepAnswers ==
    ASSUME AnswersInv, WorkerStep
    PROVE  AnswersInv'
<1> DEFINE Else == UNCHANGED <<proc, pids, client, watch, stopping, inbox, view>>
<1>t. /\ WorkerFields \subseteq DOMAIN worker /\ worker.runs \in BOOLEAN /\ worker.protocol \in BOOLEAN
      /\ worker.st \in States /\ worker.host \in HostNames /\ worker.epoch \in Nat
      /\ Teardown /\ (worker.epoch = 0 => Over /\ ~worker.protocol)
  BY DEF AnswersInv, Seen, SeenTypeOK, EpochsCount
<1> USE DEF Begins, WorkerFields, States, Live, HostNames, Teardown, Over, Steady, Changing
<1>1. ASSUME NEW h \in Hosts, ConnectToVpn(h) PROVE AnswersInv'
  <2>1. Begins BY <1>1, <1>t DEF ConnectToVpn
  <2> QED BY <1>1, <2>1, BeginsHolds DEF ConnectToVpn, ElseWorker, processVars
<1>2. ASSUME NEW st \in {"connected", "reconnecting", "error", "disconnected"}, ProtocolReports(st) PROVE AnswersInv'
  <2>1. Begins BY <1>2, <1>t DEF ProtocolReports
  <2> QED BY <1>2, <2>1, BeginsHolds DEF ProtocolReports, ElseWorker, processVars
<1>9. ASSUME NEW st \in {"disconnected", "error"}, DisconnectEnds(st) PROVE AnswersInv'
  <2>1. Begins BY <1>9, <1>t DEF DisconnectEnds
  <2> QED BY <1>9, <2>1, BeginsHolds DEF DisconnectEnds, ElseWorker, processVars
<1>3. CASE DisconnectFromVpn
  <2>1. Begins
    <3>1. PICK st \in {"disconnecting", "disconnected", "error", "none"} :
              worker' = [worker EXCEPT !.disconnect = FALSE, !.protocol = FALSE, !.next = st,
                                       !.changes = IF st \in {"disconnected", "error"} THEN @ + 1 ELSE @]
      BY <1>3 DEF DisconnectFromVpn
    <3>2. worker'.protocol = FALSE BY <3>1, <1>t
    <3>3. worker'.protocol \in BOOLEAN BY <3>2, Zenon
    <3> QED BY <1>3, <1>t, <3>1, <3>2, <3>3 DEF DisconnectFromVpn
  <2> QED BY <1>3, <2>1, BeginsHolds DEF DisconnectFromVpn, ElseWorker, processVars
<1>4. CASE SetConnectionState BY <1>4, AnnounceHolds
<1>5. CASE captureVpnSnapshot BY <1>5, CaptureHolds
<1>6. CASE ProcessEvent BY <1>6, ProcessEventHolds
<1>7. CASE RefreshTimer BY <1>7, NothingMoves DEF RefreshTimer, ElseWorker, processVars, AnswersInv, WatchHolds
<1>8. CASE SnapshotAges BY <1>8, NothingMoves DEF SnapshotAges, ElseWorker, processVars, AnswersInv, WatchHolds
<1> QED BY <1>1, <1>2, <1>3, <1>4, <1>5, <1>6, <1>7, <1>8, <1>9 DEF WorkerStep

\* Receipts and settings of the routes are no part of the connection's state.
LEMMA RoutingStepAnswers ==
    ASSUME AnswersInv, RoutingStep
    PROVE  AnswersInv'
<1>1. ASSUME NEW hit \in BOOLEAN, ConfirmManagedRoutes(hit) PROVE AnswersInv'
  BY <1>1, KeepsHolds DEF ConfirmManagedRoutes, ElseWorker, processVars, AnswersInv, Seen, SeenTypeOK, WorkerFields
<1>2. ASSUME NEW mode, NEW policy, EditRouting(mode, policy) PROVE AnswersInv'
  BY <1>2, NothingMoves DEF EditRouting, processVars, AnswersInv, WatchHolds
<1> QED BY <1>1, <1>2 DEF RoutingStep

\* A watch is bound to the first primary that it asks.
LEMMA WatchStepAnswers ==
    ASSUME AnswersInv, WatchStep
    PROVE  AnswersInv'
<1>1. /\ UNCHANGED <<proc, pids, worker, inbox, stopping, client>>
      /\ view' = view \/ view' = requestOperatorVpnSnapshotRefresh(view)
  BY DEF WatchStep, WatchStarts, poll, publish, WatchFails, ElseWatch, processVars, workerVars
<1>2. WatchHolds'
  <2> USE DEF AnswersInv, WatchHolds, NoPid
  <2>1. ASSUME NEW reason, Ends(reason) PROVE WatchHolds' BY <2>1 DEF Ends
  <2>2. ASSUME NEW path \in Paths, WatchStarts(path) PROVE WatchHolds' BY <2>2 DEF WatchStarts, NotWatching
  <2>3. CASE poll
    <3>1. CASE Listening(watch.path) /\ Pinned(bound[watch.path])
      <4>2. watch' = [watch EXCEPT !.at = "asked", !.to = bound[watch.path], !.pid = bound[watch.path]]
        BY <2>3, <3>1 DEF poll, sendRequest
      <4> QED BY <3>1, <4>2 DEF Pinned, Listening, Alive
    <3>2. CASE Listening(watch.path) /\ ~Pinned(bound[watch.path]) BY <2>1, <2>3, <3>2 DEF poll, sendRequest
    <3>3. CASE ~Listening(watch.path) BY <2>3, <3>3, <2>1 DEF poll, retryInitialConnection
    <3> QED BY <3>1, <3>2, <3>3
  <2>4. CASE publish BY <2>4 DEF publish
  <2>5. CASE WatchFails BY <2>1, <2>5 DEF WatchFails
  <2> QED BY <2>2, <2>3, <2>4, <2>5 DEF WatchStep
<1> QED BY <1>1, <1>2, NothingMoves

-----------------------------------------------------------------------------

\* A process that serves is one that runs.
LEMMA ServesRuns ==
    ASSUME NEW pid, Serves(pid)
    PROVE  pid # NoPid /\ \E l \in Launchers : proc[l].pid = pid /\ proc[l].at = "running"
BY DEF Serves, LauncherOf, Alive

\* A command that is sent, refused or answered with nothing about a disconnect.
LEMMA SaysNothing ==
    ASSUME AnswersInv, UNCHANGED <<proc, pids, worker, inbox, stopping, watch>>,
           view' = view \/ view' = requestOperatorVpnSnapshotRefresh(view),
           client'.kind # "disconnect" \/ client'.at = "sent"
               \/ (client'.at = "answered" /\ client'.claim # "completed")
    PROVE  AnswersInv'
<1> QED BY SeenStays DEF AnswersInv, WatchHolds, WaitHolds, Past, Over, AnswerHolds

\* A disconnect is asked of the process whose worker this is, and waits for the
\* end of the connection that is up.
LEMMA DisconnectAnswers ==
    ASSUME AnswersInv, operatorDisconnect
    PROVE  AnswersInv'
<1>1. Asked("disconnect") /\ UNCHANGED <<proc, pids, inbox, view, watch>> BY DEF operatorDisconnect, processVars
<1>2. CASE UNCHANGED <<worker, stopping>> /\ client' = Silent("disconnect", 4)
  BY <1>1, <1>2, SaysNothing DEF Silent, Reply
<1>3. CASE UNCHANGED <<worker, stopping>> /\ client' = Reply("disconnect", 0, "already", "none")
  BY <1>1, <1>3, SaysNothing DEF Reply
<1>4. CASE /\ ~stopping.on
           /\ stopping' = [on |-> TRUE, session |-> Session, heard |-> FALSE]
           /\ worker' = [worker EXCEPT !.disconnect = TRUE]
           /\ client' = [client EXCEPT !.at = "waiting"]
  <2>1. /\ WorkerFields \subseteq DOMAIN worker' /\ worker'.runs = worker.runs
        /\ worker'.st = worker.st /\ worker'.host = worker.host /\ worker'.next = worker.next
        /\ worker'.epoch = worker.epoch /\ worker.epoch \in Nat /\ worker'.protocol = worker.protocol
    BY <1>4 DEF AnswersInv, Seen, SeenTypeOK, WorkerFields
  <2>3. \E l \in Launchers : proc[l].pid = client.to /\ proc[l].at = "running" BY <1>1, ServesRuns DEF Asked
  <2>6. AnswerHolds' BY <1>1, <1>4, <2>3 DEF Asked, AnswerHolds
  <2> QED
    BY <1>1, <1>4, <2>1, <2>3, <2>6, SeenKeeps DEF AnswersInv, WatchHolds, Seen, SeenTypeOK, WaitHolds, Session,
      EpochsCount, Past, Over
<1> QED BY <1>2, <1>3, <1>4 DEF operatorDisconnect, AnswersInv, WaitHolds

\* The queue without what was meant for the loop that ends.
LEMMA UnheardKeeps ==
    ASSUME AnswersInv, inbox' = Unheard
    PROVE  /\ inbox' \in Seq(Announcements \cup Snapshots) /\ DOMAIN inbox' = DOMAIN inbox
           /\ \A i \in DOMAIN inbox : inbox'[i].is = inbox[i].is
           /\ \A i \in DOMAIN inbox : inbox[i].is # "state" => inbox'[i] = inbox[i]
           /\ \A i \in DOMAIN inbox : inbox[i].is = "state" => inbox'[i].heard = FALSE
<1> DEFINE M == Announcements \cup Snapshots
<1>1. /\ inbox \in Seq(M) /\ Len(inbox) \in Nat /\ DOMAIN inbox = 1 .. Len(inbox)
      /\ \A i \in DOMAIN inbox : inbox[i] \in M BY DEF AnswersInv, Seen, SeenTypeOK
<1>3. ASSUME NEW i \in 1 .. Len(inbox)
      PROVE  /\ inbox'[i] \in M /\ inbox'[i].is = inbox[i].is
             /\ inbox[i].is # "state" => inbox'[i] = inbox[i]
             /\ inbox[i].is = "state" => inbox'[i].heard = FALSE
  <2>1. CASE inbox[i].is = "state"
    <3>1. inbox[i] \in Announcements BY <1>1, <2>1 DEF Announcements, Snapshots
    <3>2. inbox'[i] = [inbox[i] EXCEPT !.heard = FALSE] BY <1>1, <2>1 DEF Unheard
    <3> QED BY <2>1, <3>1, <3>2 DEF Announcements
  <2>2. CASE inbox[i].is # "state" BY <1>1, <2>2 DEF Unheard
  <2> QED BY <2>1, <2>2
<1>4. inbox' \in [1 .. Len(inbox) -> M]
  <2>1. inbox' = [i \in 1 .. Len(inbox) |-> inbox'[i]] BY <1>1 DEF Unheard
  <2> QED BY <1>3, <2>1
<1> QED BY <1>1, <1>3, <1>4 DEF Unheard

\* A disconnect that is called completed has heard the end of its session, or
\* finds a worker that is disconnected and therefore past it.
LEMMA ReturnAnswers ==
    ASSUME IInv, AnswersInv, DisconnectReturns
    PROVE  AnswersInv'
<1>1. /\ UNCHANGED <<proc, pids, worker, view, watch>> /\ inbox' = Unheard /\ stopping.on
      /\ stopping'.on = FALSE BY DEF DisconnectReturns, processVars, NotStopping
<1>2. /\ inbox' \in Seq(Announcements \cup Snapshots) /\ DOMAIN inbox' = DOMAIN inbox
      /\ \A i \in DOMAIN inbox : inbox'[i].is = inbox[i].is
      /\ \A i \in DOMAIN inbox : inbox[i].is # "state" => inbox'[i] = inbox[i]
      /\ \A i \in DOMAIN inbox : inbox[i].is = "state" => inbox'[i].heard = FALSE BY <1>1, UnheardKeeps
<1>3. Seen'
  <2>1. EpochsCount' BY <1>1 DEF AnswersInv, Seen, EpochsCount, Over, Teardown
  <2> QED BY <1>2, <1>1, <2>1 DEF QuietFrom, Seen, AnswersInv, SeenTypeOK, SnapshotsAreCurrent, Shows, ViewIsCurrent
<1>4. WaitHolds' BY <1>1, <1>2 DEF WaitHolds
<1> QED
  BY <1>1, <1>3, <1>4, AnswersCarry DEF AnswersInv, WatchHolds, Past, Over, DisconnectReturns, Reply, Completed,
    AnswerHolds, IInv, GoneHasNothing, PidsWereGivenOut, ProcessTypeOK, Processes, PidsAreDistinct, WaitHolds, Seen,
    SeenTypeOK, Before

\* The commands of another process and what they are answered.
LEMMA ClientStepAnswers ==
    ASSUME IInv, AnswersInv, ClientStep
    PROVE  AnswersInv'
<1> USE DEF ElseClient, processVars, Silent, Reply
<1>1. ASSUME NEW kind \in Commands, NEW path \in Paths, tryForwardOperatorCommand(kind, path)
      PROVE  AnswersInv' BY <1>1, SaysNothing DEF tryForwardOperatorCommand, RunsLocally, Commands
<1>2. CASE ForwardFails BY <1>2, SaysNothing DEF ForwardFails
<1>3. CASE PrintAnswer BY <1>3, SaysNothing DEF PrintAnswer, NoCommand
<1>4. CASE operatorStatus BY <1>4, SaysNothing DEF operatorStatus
<1>5. CASE operatorDisconnect BY <1>5, DisconnectAnswers
<1>6. CASE DisconnectReturns BY <1>6, ReturnAnswers
<1>7. ASSUME NEW environment \in BOOLEAN, operatorDoctor(environment) PROVE AnswersInv'
  BY <1>7, SaysNothing DEF operatorDoctor
<1>8. ASSUME NEW target \in Targets, operatorRoutesExplain(target) PROVE AnswersInv'
  BY <1>8, SaysNothing DEF operatorRoutesExplain
<1> QED BY <1>1, <1>2, <1>3, <1>4, <1>5, <1>6, <1>7, <1>8 DEF ClientStep

-----------------------------------------------------------------------------

\* A process whose worker does not run yet, or no longer, moves on.
LEMMA MovesOnAnswers ==
    ASSUME IInv, AnswersInv, NEW l \in Launchers, ElseProcess,
           pids' \in Nat, pids' >= pids, \A m \in Launchers : m # l => proc'[m] = proc[m],
           proc[l].at # "running" \/ ~stopping.on, proc'[l].at # "running",
           \/ proc'[l].pid = pids + 1
           \/ proc'[l].pid = NoPid
           \/ proc'[l].pid = proc[l].pid /\ (proc'[l].at \in Before => proc[l].at \in Before)
    PROVE  AnswersInv'
<1>1. UNCHANGED <<worker, inbox, view, client, stopping, watch>> /\ pids \in Nat
  BY DEF ElseProcess, workerVars, IInv, ProcessTypeOK
<1>3. stopping.on => \A m \in Launchers : proc[m].at = "running" => proc'[m] = proc[m] OBVIOUS
<1> QED BY <1>1, <1>3, SeenStays DEF AnswersInv, WatchHolds, WaitHolds, Past, Over, AnswerHolds

\* The worker starts, stops or dies with the process that has the core.
LEMMA RestartAnswers ==
    ASSUME IInv, AnswersInv, NEW l \in Launchers, proc[l].at \in WithCore,
           worker' \in {Resting, [Resting EXCEPT !.runs = TRUE]}, inbox' = <<>>,
           view' \in {Unseen, [Unseen EXCEPT !.pending = TRUE, !.asked = TRUE]},
           stopping' = stopping \/ stopping' = NotStopping,
           UNCHANGED <<pids, client, watch>>,
           \A m \in Launchers : m # l => proc'[m] = proc[m],
           proc[l].at = "running" => stopping' = NotStopping,
           \/ proc'[l].pid = NoPid
           \/ /\ proc'[l].pid = proc[l].pid /\ proc'[l].at \notin Before
              /\ proc'[l].at = "running" => proc[l].at \in Before
    PROVE  AnswersInv'
<1>1. \A m \in Launchers : m # l => proc[m].at # "running"
  BY DEF IInv, CoreUnderLock, PidsAreDistinct, GoneHasNothing, WithCore, hasCoreOwnership, NoPid
<1>2. stopping'.on = FALSE BY <1>1 DEF NotStopping, AnswersInv, WaitHolds
<1>4. WaitHolds'
  <2>2. stopping'.on \in BOOLEAN BY <1>2, Zenon
  <2> QED BY <1>2, <2>2 DEF WaitHolds
<1> QED BY <1>1, <1>2, <1>4, SeenRestarts DEF AnswersInv, WatchHolds, AnswerHolds

\* Processes come and go: a disconnect that waits keeps the application from
\* quitting, and a crash takes the wait with it.
LEMMA ProcessStepAnswers ==
    ASSUME IInv, AnswersInv, ProcessStep
    PROVE  AnswersInv'
<1> PICK l \in Launchers :
        \/ \E path \in Paths : Launch(l, path)
        \/ isAnotherInstanceRunning(l) \/ startLocalServer(l) \/ PublishBundledUpdatesOnce(l)
        \/ parseCommands(l) \/ init(l) \/ Quit(l) \/ StopWorker(l) \/ CloseSettings(l) \/ DeleteLocalServer(l)
        \/ ReleaseOwnership(l) \/ Crash(l) BY DEF ProcessStep
<1>t. proc \in [Launchers -> Processes] /\ proc[l] \in Processes /\ pids \in Nat BY DEF IInv, ProcessTypeOK
<1>g. ASSUME Exits(l)
      PROVE  /\ \A m \in Launchers : m # l => proc'[m] = proc[m]
             /\ proc'[l].pid = NoPid /\ proc'[l].at = "off" BY <1>t, <1>g DEF Exits, Gone
<1>b. ASSUME NEW stage, Becomes(l, stage)
      PROVE  /\ \A m \in Launchers : m # l => proc'[m] = proc[m]
             /\ proc'[l].pid = proc[l].pid /\ proc'[l].at = stage BY <1>b, <1>t DEF Becomes, Processes
<1>1. ASSUME NEW path \in Paths, Launch(l, path) PROVE AnswersInv' BY <1>1, <1>t, MovesOnAnswers DEF Launch
<1>2. CASE isAnotherInstanceRunning(l) BY <1>2, <1>b, <1>t, MovesOnAnswers DEF isAnotherInstanceRunning, Before
<1>3. CASE startLocalServer(l) BY <1>3, <1>b, <1>t, MovesOnAnswers DEF startLocalServer, Before
<1>4. CASE PublishBundledUpdatesOnce(l) BY <1>4, <1>b, <1>t, MovesOnAnswers DEF PublishBundledUpdatesOnce, Before
<1>5. CASE parseCommands(l) BY <1>5, <1>b, <1>t, MovesOnAnswers DEF parseCommands, Before
<1>6. CASE init(l) BY <1>6, <1>b, <1>t, RestartAnswers DEF init, Before, WithCore
<1>7. CASE Quit(l) BY <1>7, <1>b, <1>t, MovesOnAnswers DEF Quit, Before
<1>8. CASE StopWorker(l) BY <1>8, <1>b, <1>t, RestartAnswers DEF StopWorker, Before, WithCore
<1>9. CASE CloseSettings(l) BY <1>9, <1>t, MovesOnAnswers DEF CloseSettings, Processes, Before
<1>10. CASE DeleteLocalServer(l) BY <1>10, <1>b, <1>t, MovesOnAnswers DEF DeleteLocalServer, Before
<1>11. CASE ReleaseOwnership(l) BY <1>11, <1>g, <1>t, MovesOnAnswers DEF ReleaseOwnership
<1>12. CASE Crash(l) BY <1>12, <1>g, RestartAnswers, <1>t, MovesOnAnswers DEF Crash, WithCore, ElseProcess, workerVars
<1> QED BY <1>1, <1>2, <1>3, <1>4, <1>5, <1>6, <1>7, <1>8, <1>9, <1>10, <1>11, <1>12

\* Before any process is started nothing is known and nothing was answered.
LEMMA AnswersInit == OperatorInit => AnswersInv
<1> SUFFICES ASSUME OperatorInit PROVE AnswersInv OBVIOUS
<1> USE DEF OperatorInit
<1>1. /\ WorkerFields \subseteq DOMAIN worker /\ worker.runs = FALSE /\ worker.epoch = 0
      /\ worker.st = "disconnected" /\ worker.next = "none" /\ worker.host = NoHost
      /\ worker.protocol = FALSE BY DEF Resting, WorkerFields
<1>2. /\ ViewFields \subseteq DOMAIN view /\ view.known = FALSE /\ view.generation = 0
      /\ view.askedAt = 0 BY DEF Unseen, ViewFields
<1>3. inbox \in Seq(Announcements \cup Snapshots) /\ DOMAIN inbox = {} OBVIOUS
<1>4. worker.runs \in BOOLEAN /\ view.known \in BOOLEAN /\ worker.protocol \in BOOLEAN BY <1>1, <1>2, Zenon
<1> QED
  BY <1>1, <1>2, <1>3, <1>4 DEF AnswersInv, Seen, SeenTypeOK, SnapshotsAreCurrent, ViewIsCurrent, EpochsCount, Over,
    Teardown, Live, States, HostNames, WaitHolds, NotStopping, AnswerHolds, NoCommand, WatchHolds, NotWatching, NoPid

\* What the answers need of the processes' invariant and of their own.
LEMMA TrueAnswers ==
    ASSUME IInv, AnswersInv
    PROVE  AnswersAreTrue
<1>3. WatchIsOneStory BY FS_EmptySet, FS_Singleton DEF AnswersInv, WatchHolds, WatchIsOneStory
<1> QED
  BY <1>3, ServesRuns DEF AnswersAreTrue, FreshStatusIsTrue, QuietFrom, AnswersInv, Seen, ViewIsCurrent, Shows,
    Steady, DisconnectIsReal, AnswerHolds, Past, Over, Live, SeenTypeOK

\* What the running application tells another process's command is so, for any
\* number of processes, installations, sessions and state changes: a status
\* that is offered as fresh, a disconnect that is called completed, and the
\* frames of a watch (amneziaApplication's operator commands).
THEOREM AnswersHold == OperatorSpec => []AnswersAreTrue
<1>1. OperatorInit => AnswersInv BY AnswersInit
<1>2. IInv /\ AnswersInv /\ [OperatorStep]_operatorVars => AnswersInv'
  BY ProcessStepAnswers, WorkerStepAnswers, RoutingStepAnswers, ClientStepAnswers, WatchStepAnswers, NothingMoves DEF
    operatorVars, processVars, workerVars, AnswersInv, WatchHolds, OperatorStep
<1>3. IInv /\ AnswersInv => AnswersAreTrue BY TrueAnswers
<1> QED BY <1>1, <1>2, <1>3, ProcessInvariance, PTL DEF OperatorSpec

-----------------------------------------------------------------------------
(* What was paid for. *)

Ops == {"none", "purchase", "signal", "update", "unacked", "restore", "refresh", "free", "trial",
        "deactivate", "remove", "import"}
Ats == {"none", "queue"} \cup OpenLoops \cup Requests
Reqs == [stage : {"direct", "listed", "proxies"}, left : Nat, ssl : BOOLEAN]
Counts == [entries : Nat, flows : Nat, launches : Nat, setbacks : Nat]
Captchas == [pending : BOOLEAN, kind : {"none", "update", "import"}, id : Nat]

\* What is said of the list: ids are given out once, nothing that was removed
\* is there, every key was noted, and neither a key nor an id is there twice.
ListOK(list, keys, removed, n) ==
    /\ list \in SUBSET Entries
    /\ removed \in SUBSET Nat
    /\ \A e \in list : 0 < e.id /\ e.id <= n /\ e.key \in keys /\ e.id \notin removed
    /\ \A r \in removed : r <= n
    /\ \A a, b \in list : (a.key = b.key /\ a.key # NoKey) \/ a.id = b.id => a = b

\* What is said of a flow that waits: the entry it has read is of the same
\* subscription as the one that is listed under its id, if there still is one;
\* it knows which purchase it is about and what it asks the store for; and it
\* acknowledges only a purchase whose subscription has been on the list.
Good(f, list, keys, n) ==
    /\ f.found.id <= n
    /\ \A e \in list : e.id = f.found.id => e.key = f.found.key
    /\ f.at \in {"store", "info", "import"} \/ (f.op = "signal" /\ f.at = "select") => f.t \in Purchases
    /\ f.at = "acknowledge" => f.t \in Purchases /\ VpnKeyOf[f.t] \in keys
    /\ f.at = "query" => f.op \in {"restore", "unacked"}
    /\ f.at = "select" => f.op \in {"restore", "unacked", "signal"}

SidesOK ==
    /\ market \in {"appstore", "play"}
    /\ updates \in SUBSET Purchases /\ handled \in SUBSET Purchases
    /\ busy \in BOOLEAN /\ due \in BOOLEAN /\ cached \in Nat
    /\ captcha \in Captchas

SoldOK == sold \in [Purchases -> {"none", "pending", "paid", "finished"}] /\ PaidIsDelivered

PastOK ==
    /\ past \in [keys : SUBSET (VpnKeys \cup {NoKey}), removed : SUBSET Nat]
    /\ used \in Counts
    /\ ListOK(listed, past.keys, past.removed, used.entries)

FlowsOK ==
    /\ depth \in 0 .. MaxNested /\ flow \in [Levels -> Flows]
    /\ \A l \in Levels : Good(flow[l], listed, past.keys, used.entries)

\* The inductive invariant.
PaidInv == SidesOK /\ SoldOK /\ PastOK /\ FlowsOK

\* What a step does to the list leaves every flow that waits in order.
Keeps ==
    \A f \in Flows : Good(f, listed, past.keys, used.entries)
                        => Good(f, listed', past'.keys, used'.entries)

-----------------------------------------------------------------------------
(* The list.                                                               *)

\* Fields of an entry.
LEMMA EntryFields ==
    ASSUME NEW e \in Entries
    PROVE  e.id \in Nat /\ e.key \in VpnKeys \cup {NoKey} /\ e.installed \in BOOLEAN /\ e.expired \in BOOLEAN
BY DEF Entries

\* addServer under an id nobody has had, with a key that is not there.
LEMMA AddedOK ==
    ASSUME NEW list, NEW keys, NEW removed, NEW n \in Nat, ListOK(list, keys, removed, n),
           NEW key \in VpnKeys \cup {NoKey}, NEW installed \in BOOLEAN,
           key # NoKey => \A e \in list : e.key # key
    PROVE  /\ ListOK(list \cup {Entry(n + 1, key, installed)}, keys \cup {key}, removed, n + 1)
           /\ \A f \in Flows : Good(f, list, keys, n)
                 => Good(f, list \cup {Entry(n + 1, key, installed)}, keys \cup {key}, n + 1)
<1> DEFINE x == Entry(n + 1, key, installed)
<1>1. x \in Entries /\ x.id = n + 1 /\ x.key = key BY DEF Entry, Entries
<1> HIDE DEF x
<1>3. ListOK(list \cup {x}, keys \cup {key}, removed, n + 1) BY <1>1, EntryFields DEF ListOK
<1>4. ASSUME NEW f \in Flows, Good(f, list, keys, n)
      PROVE  Good(f, list \cup {x}, keys \cup {key}, n + 1) BY <1>4, <1>1 DEF Flows, Entries, Good
<1> QED BY <1>3, <1>4 DEF x

\* editServer with an entry of the same subscription as the one it replaces.
LEMMA EditedOK ==
    ASSUME PastOK, NEW e \in Entries, \A x \in listed : x.id = e.id => x.key = e.key
    PROVE  /\ ListOK(Edited(e), past.keys, past.removed, used.entries)
           /\ \A f \in Flows : Good(f, listed, past.keys, used.entries)
                 => Good(f, Edited(e), past.keys, used.entries)
<1>1. CASE e.id \notin Ids BY <1>1 DEF Edited, PastOK
<1>2. CASE e.id \in Ids BY <1>2 DEF Ids, Edited, PastOK, ListOK, Good
<1> QED BY <1>1, <1>2

\* removeServer of an entry that has been there.
LEMMA RemovedOK ==
    ASSUME PastOK, NEW id \in Nat, id <= used.entries
    PROVE  /\ ListOK(Removed(id), past.keys, past.removed \cup {id}, used.entries)
           /\ \A f \in Flows : Good(f, listed, past.keys, used.entries)
                 => Good(f, Removed(id), past.keys, used.entries)
BY DEF Removed, PastOK, ListOK, Good

\* The entry of an id that is listed.
LEMMA EntryOfOK ==
    ASSUME NEW id, id \in Ids
    PROVE  EntryOf(id) \in listed /\ EntryOf(id).id = id
BY DEF Ids, EntryOf

\* A step that leaves the list alone.
LEMMA ListKept ==
    ASSUME PastOK, ListUnchanged, used' \in Counts, used'.entries = used.entries
    PROVE  PastOK' /\ Keeps
BY DEF PastOK, ListUnchanged, Keeps

\* A step that replaces one entry by one of the same subscription.
LEMMA ListEdited ==
    ASSUME PastOK, NEW e \in Entries, \A x \in listed : x.id = e.id => x.key = e.key,
           listed' = Edited(e), past' = past, used' \in Counts, used'.entries = used.entries
    PROVE  PastOK' /\ Keeps
BY EditedOK DEF PastOK, Keeps

\* A step that takes an entry off the list.
LEMMA ListRemoved ==
    ASSUME PastOK, NEW id \in Nat, id <= used.entries,
           listed' = Removed(id), past' = [past EXCEPT !.removed = @ \cup {id}],
           used' \in Counts, used'.entries = used.entries
    PROVE  PastOK' /\ Keeps
<1> QED BY RemovedOK DEF PastOK, Keeps

\* A step that adds an entry.
LEMMA ListAdded ==
    ASSUME PastOK, NEW key \in VpnKeys \cup {NoKey}, NEW installed \in BOOLEAN,
           key # NoKey => \A e \in listed : e.key # key,
           Added(key, installed)
    PROVE  PastOK' /\ Keeps /\ key \in past'.keys /\ past.keys \subseteq past'.keys
<1>1. past'.keys = past.keys \cup {key} /\ past'.removed = past.removed
      /\ past' \in [keys : SUBSET (VpnKeys \cup {NoKey}), removed : SUBSET Nat] BY DEF PastOK, Added
<1>2. used.entries \in Nat /\ used' \in Counts /\ used'.entries = used.entries + 1 BY DEF PastOK, Counts, Added
<1>4. ListOK(listed, past.keys, past.removed, used.entries) BY DEF PastOK
<1>5. /\ ListOK(listed', past'.keys, past'.removed, used'.entries)
      /\ \A f \in Flows : Good(f, listed, past.keys, used.entries)
                            => Good(f, listed', past'.keys, used'.entries) BY <1>1, <1>2, <1>4, AddedOK DEF Added
<1> QED BY <1>1, <1>2, <1>5 DEF PastOK, Keeps

\* What the bounds count.
LEMMA Counted ==
    ASSUME PastOK,
           Smooth \/ Setback \/ used' = [used EXCEPT !.flows = @ + 1]
                             \/ used' = [used EXCEPT !.launches = @ + 1]
    PROVE  used' \in Counts /\ used'.entries = used.entries
BY DEF PastOK, Counts, Smooth, Setback

\* The end of a request counts a failure or nothing.
LEMMA RequestCounted ==
    ASSUME PastOK, NEW r, RequestEnds(r)
    PROVE  used' \in Counts /\ used'.entries = used.entries
BY Counted DEF RequestEnds

-----------------------------------------------------------------------------
(* The stack of flows.                                                     *)

\* Fields of a flow.
LEMMA FlowFields ==
    ASSUME NEW f \in Flows
    PROVE  /\ f.op \in Ops /\ f.at \in Ats /\ f.todo \in SUBSET Purchases /\ f.acked \in SUBSET Purchases
           /\ f.t \in Purchases \cup {NoPurchase} /\ f.found \in Entries /\ f.req \in Reqs
BY DEF Flows, Ops, Ats, Reqs

\* Flows are records of those fields.
LEMMA FlowsAre ==
    Flows = [op : Ops, at : Ats, todo : SUBSET Purchases, acked : SUBSET Purchases,
             t : Purchases \cup {NoPurchase}, found : Entries, req : Reqs]
BY DEF Flows, Ops, Ats, Reqs

\* A fresh request and a fresh flow.
LEMMA FreshOK ==
    ASSUME NEW op \in Ops, NEW at \in Ats
    PROVE  /\ FreshRequest \in Reqs /\ NoEntry \in Entries /\ NoEntry.id = 0
           /\ Flow(op, at) \in Flows
           /\ Flow(op, at).op = op /\ Flow(op, at).at = at /\ Flow(op, at).found = NoEntry
<1> QED BY FlowsAre DEF Flow, FreshRequest, Request, Reqs, NoEntry, Entry, Entries

\* What no flow has read is nobody's.
LEMMA NothingFound ==
    ASSUME PastOK
    PROVE  /\ 0 <= used.entries /\ \A e \in listed : e.id # 0
           /\ NoFlow \in Flows /\ Good(NoFlow, listed, past.keys, used.entries)
<1> QED BY FreshOK DEF Good, PastOK, ListOK, Counts, NoFlow, Ops, Ats

\* The flow that moves is one of the stack.
LEMMA TopOK ==
    ASSUME PaidInv, depth > 0
    PROVE  /\ depth \in Levels /\ Top = flow[depth] /\ Top \in Flows
           /\ Good(Top, listed, past.keys, used.entries)
BY SubscriptionsAssumption DEF PaidInv, FlowsOK, Top, Levels

\* The flow that moves waits for something else.
LEMMA BecomesOK ==
    ASSUME PaidInv, depth > 0, NEW f \in Flows, Good(f, listed', past'.keys, used'.entries),
           Keeps, FlowBecomes(f)
    PROVE  FlowsOK'
<1> QED BY TopOK DEF PaidInv, FlowsOK, Keeps, FlowBecomes

\* The flow that moves ends.
LEMMA EndsOK ==
    ASSUME PaidInv, depth > 0, PastOK', Keeps, FlowEnds
    PROVE  FlowsOK'
<1>1. depth \in Levels /\ depth' = depth - 1 /\ flow' = [flow EXCEPT ![depth] = NoFlow] BY TopOK DEF FlowEnds
<1> QED BY <1>1, SubscriptionsAssumption, NothingFound DEF PaidInv, FlowsOK, Keeps

\* A flow starts inside the others.
LEMMA PushOK ==
    ASSUME PaidInv, NEW f \in Flows, Good(f, listed, past.keys, used.entries), Keeps, Push(f)
    PROVE  FlowsOK'
<1>1. depth + 1 \in Levels /\ depth' = depth + 1 /\ flow' = [flow EXCEPT ![depth + 1] = f]
  BY SubscriptionsAssumption DEF Push, PaidInv, FlowsOK, Levels
<1> QED BY <1>1, SubscriptionsAssumption DEF PaidInv, FlowsOK, Keeps, Levels

\* The flows stay as they are.
LEMMA StackKept ==
    ASSUME PaidInv, Keeps, UNCHANGED <<depth, flow>>
    PROVE  FlowsOK'
BY DEF PaidInv, FlowsOK, Keeps

\* The next purchase of a flow.
LEMMA FirstOK ==
    ASSUME NEW f \in Flows, NEW list, NEW keys, NEW n, Good(f, list, keys, n), NEW t \in Purchases
    PROVE  First(f, t) \in Flows /\ Good(First(f, t), list, keys, n)
<1>1. FreshRequest \in Reqs BY DEF FreshRequest, Request, Reqs
<1>2. First(f, t) \in Flows BY <1>1, FlowsAre DEF First, Ats, Requests
<1> QED BY <1>2, FlowsAre DEF Good, First

\* A flow goes on with its next purchase or ends.
LEMMA ContinuesOK ==
    ASSUME PaidInv, depth > 0, PastOK', Keeps, NEW f \in Flows,
           Good(f, listed', past'.keys, used'.entries), Continues(f)
    PROVE  FlowsOK'
<1>1. CASE f.todo = {} BY <1>1, EndsOK DEF Continues
<1>2. CASE f.todo # {} BY <1>2, FlowFields, FirstOK, BecomesOK DEF Continues
<1> QED BY <1>1, <1>2

\* A flow waits elsewhere, with another request or for other purchases.
LEMMA MovedOK ==
    ASSUME NEW f \in Flows, NEW list, NEW keys, NEW n, Good(f, list, keys, n),
           NEW at \in Ats \ {"store", "info", "import", "acknowledge", "query", "select"},
           NEW todo \in SUBSET Purchases, NEW acked \in SUBSET Purchases
    PROVE  /\ [f EXCEPT !.at = at] \in Flows
           /\ Good([f EXCEPT !.at = at], list, keys, n)
           /\ [f EXCEPT !.acked = acked] \in Flows
           /\ Good([f EXCEPT !.acked = acked], list, keys, n)
           /\ [f EXCEPT !.todo = todo] \in Flows
           /\ Good([f EXCEPT !.todo = todo], list, keys, n)
BY FlowsAre DEF Good

\* A flow that asks the gateway about an entry, or about none.
LEMMA AskOK ==
    ASSUME PastOK, NEW op \in Ops, NEW at \in {"config", "service", "revoke", "solve", "again"},
           NEW e \in listed \cup {NoEntry}
    PROVE  /\ [Flow(op, at) EXCEPT !.found = e] \in Flows
           /\ Good([Flow(op, at) EXCEPT !.found = e], listed, past.keys, used.entries)
<1>1. at \in Ats BY DEF Ats, Requests
<1>2. e \in Entries /\ e.id <= used.entries /\ \A x \in listed : x.id = e.id => x.key = e.key
  BY <1>1, FreshOK, NothingFound DEF PastOK, ListOK
<1> DEFINE f == Flow(op, at)
           g == [f EXCEPT !.found = e]
<1>3. f \in Flows /\ f.at = at BY <1>1, FreshOK
<1> HIDE DEF f
<1> HIDE DEF g
<1> QED BY <1>2, <1>3, FlowsAre DEF f, g, Good

\* A flow that has read nothing and waits for what needs no purchase.
LEMMA PlainOK ==
    ASSUME PastOK, NEW op \in Ops, NEW at \in Ats \ {"store", "info", "import", "acknowledge"},
           at = "query" => op \in {"restore", "unacked"},
           at = "select" => op \in {"restore", "unacked"}
    PROVE  Flow(op, at) \in Flows /\ Good(Flow(op, at), listed, past.keys, used.entries)
BY FreshOK, NothingFound DEF Good

\* A flow about a purchase the store is asked for, or has signalled.
LEMMA AboutOK ==
    ASSUME PastOK, NEW t \in Purchases
    PROVE  /\ [Flow("purchase", "store") EXCEPT !.t = t] \in Flows
           /\ Good([Flow("purchase", "store") EXCEPT !.t = t], listed, past.keys, used.entries)
           /\ [Flow("signal", "select") EXCEPT !.t = t] \in Flows
           /\ Good([Flow("signal", "select") EXCEPT !.t = t], listed, past.keys, used.entries)
<1> DEFINE f == Flow("purchase", "store")
           g == Flow("signal", "select")
<1>2. /\ f \in Flows /\ f.at = "store" /\ f.op = "purchase" /\ f.found.id = 0
      /\ g \in Flows /\ g.at = "select" /\ g.op = "signal" /\ g.found.id = 0
  BY FreshOK DEF Ops, Ats, OpenLoops, Requests
<1> HIDE DEF f, g
<1> QED BY <1>2, NothingFound, FlowsAre DEF f, g, Good

-----------------------------------------------------------------------------
(* What was sold.                                                          *)

\* Keys that were listed are not forgotten.
LEMMA SoldKept ==
    ASSUME PaidInv, UNCHANGED sold, past.keys \subseteq past'.keys
    PROVE  SoldOK'
BY DEF PaidInv, SoldOK, PaidIsDelivered

\* One purchase moves on.
LEMMA SoldMoves ==
    ASSUME PaidInv, NEW t \in Purchases, NEW st \in {"pending", "paid", "finished"},
           sold' = [sold EXCEPT ![t] = st], past.keys \subseteq past'.keys,
           st = "finished" => VpnKeyOf[t] \in past'.keys
    PROVE  SoldOK'
BY DEF PaidInv, SoldOK, PaidIsDelivered

\* A step of the flows alone.
LEMMA QuietHolds ==
    ASSUME PaidInv, UNCHANGED <<market, sold, due, captcha, cached>>, ListUnchanged, QueueUnchanged,
           used' \in Counts, used'.entries = used.entries, FlowsOK'
    PROVE  PaidInv'
<1> QED BY SoldKept, ListKept DEF PaidInv, SidesOK, QueueUnchanged, ListUnchanged

-----------------------------------------------------------------------------
(* The steps.                                                              *)

\* A request is sent again.
LEMMA ResendsHolds ==
    ASSUME PaidInv, depth > 0, NEW q \in Reqs, Resends(q), Smooth \/ Setback, cached' \in Nat
    PROVE  PaidInv'
<1>1. Top \in Flows /\ Good(Top, listed, past.keys, used.entries) BY TopOK
<1>3. PastOK' /\ Keeps BY Counted, ListKept DEF PaidInv, Resends, ListUnchanged
<1> QED BY <1>1, <1>3, FlowsAre, BecomesOK, SoldKept DEF PaidInv, SidesOK, Resends, Keeps, Good

\* GatewayController: other hosts are tried.
LEMMA GatewayHolds ==
    ASSUME PaidInv, getProxyUrls \/ bypassProxy \/ TryNextProxy
    PROVE  PaidInv'
<1>0. depth > 0 BY DEF getProxyUrls, bypassProxy, TryNextProxy, Asking
<1>1. Top.req \in Reqs /\ Top.req.left \in Nat /\ cached \in Nat BY <1>0, TopOK, FlowFields DEF Reqs, PaidInv, SidesOK
<1>2. \A st \in {"listed", "proxies"}, n \in Nat, ssl \in BOOLEAN : Request(st, n, ssl) \in Reqs BY DEF Request, Reqs
<1>3. CASE getProxyUrls
  <2>1. PICK n \in 0 .. MaxProxies :
          /\ (cached' = n \/ (n = cached /\ UNCHANGED cached))
          /\ Resends(Request("listed", n, FALSE)) BY <1>3 DEF getProxyUrls
  <2>2. n \in Nat /\ cached' \in Nat BY <2>1, SubscriptionsAssumption
  <2> QED BY <1>0, <1>2, <1>3, <2>1, <2>2, ResendsHolds DEF getProxyUrls
<1>4. CASE bypassProxy
  <2>1. PICK more \in {0, 1} : Resends(Request("proxies", Top.req.left + more, FALSE)) BY <1>4 DEF bypassProxy
  <2>2. Top.req.left + more \in Nat /\ cached' \in Nat BY <1>1, <1>4, <2>1 DEF bypassProxy
  <2> QED BY <1>0, <1>2, <1>4, <2>1, <2>2, ResendsHolds DEF bypassProxy
<1>5. CASE TryNextProxy
  <2>1. PICK ssl \in BOOLEAN : Resends(Request("proxies", Top.req.left - 1, ssl)) /\ (Smooth \/ Setback)
    BY <1>5 DEF TryNextProxy
  <2> QED BY <1>0, <1>1, <1>2, <1>5, <2>1, ResendsHolds DEF TryNextProxy
<1> QED BY <1>3, <1>4, <1>5

\* A flow starts, and nothing else changes.
LEMMA StartsHolds ==
    ASSUME PaidInv, NEW f \in Flows, Good(f, listed, past.keys, used.entries), Push(f),
           UNCHANGED <<market, sold, due, captcha, cached>>, ListUnchanged, QueueUnchanged
    PROVE  PaidInv'
<1>1. used' \in Counts /\ used'.entries = used.entries BY Counted DEF PaidInv, Push
<1> QED BY <1>1, ListKept, PushOK, QuietHolds DEF PaidInv

\* Flows that the user, the store or the start of the application begin.
LEMMA FlowBeginsHolds ==
    ASSUME PaidInv,
           \/ \E t \in Purchases : Purchase(t)
           \/ Restore
           \/ ImportService
           \/ \E e \in listed : UpdateService(e) \/ Revoke("deactivate", e) \/ Revoke("remove", e)
    PROVE  PaidInv'
<1>0. PastOK /\ {"restore", "free", "trial", "refresh", "deactivate", "remove"} \subseteq Ops
      /\ "select" \in Ats BY DEF PaidInv, Ops, Ats, Requests
<1>1. CASE \E t \in Purchases : Purchase(t) BY <1>0, <1>1, AboutOK, StartsHolds DEF Purchase
<1>2. CASE Restore BY <1>0, PlainOK, <1>2, StartsHolds DEF Restore
<1>3. CASE ImportService
  <2>1. PICK op \in {"free", "trial"} : Asks(op, "service", NoEntry) BY <1>3 DEF ImportService
  <2> QED BY <1>0, <1>3, <2>1, AskOK, StartsHolds DEF ImportService, Asks, StoreUnchanged, QueueUnchanged
<1>4. CASE \E e \in listed : UpdateService(e) \/ Revoke("deactivate", e) \/ Revoke("remove", e)
  BY <1>4, <1>0, AskOK, StartsHolds DEF UpdateService, Revoke, Asks, StoreUnchanged, QueueUnchanged
<1> QED BY <1>1, <1>2, <1>3, <1>4

\* checkUnacknowledgedPlayPurchases
LEMMA CheckHolds ==
    ASSUME PaidInv, CheckUnacknowledged
    PROVE  PaidInv'
<1>2. PastOK' /\ Keeps BY Counted, ListKept DEF PaidInv, CheckUnacknowledged, Push
<1>4. FlowsOK' BY <1>2, PlainOK, PushOK DEF PaidInv, CheckUnacknowledged, Ops, Ats, OpenLoops
<1>5. SoldOK' BY SoldKept DEF CheckUnacknowledged, ListUnchanged
<1> QED BY <1>2, <1>4, <1>5 DEF PaidInv, SidesOK, CheckUnacknowledged, QueueUnchanged

\* The store answers, or a payment is confirmed outside the application.
LEMMA StoreHolds ==
    ASSUME PaidInv, StoreAnswers \/ \E t \in Purchases : PaymentConfirmed(t)
    PROVE  PaidInv'
<1>1. CASE StoreAnswers
  <2>2. PastOK' /\ Keeps BY <1>1, Counted, ListKept DEF PaidInv, StoreAnswers
  <2>3. /\ depth > 0 /\ Top \in Flows /\ Top.t \in Purchases
        /\ Good(Top, listed, past.keys, used.entries) /\ Good(Top, listed', past'.keys, used'.entries)
    BY <1>1, <2>2, TopOK DEF StoreAnswers, Waits, Good, Keeps
  <2> QED
    BY <1>1, <2>2, <2>3, SoldKept, SoldMoves, FirstOK, BecomesOK, EndsOK DEF PaidInv, SidesOK, StoreAnswers,
      QueueUnchanged, ListUnchanged
<1>2. CASE \E t \in Purchases : PaymentConfirmed(t)
  <2>1. PICK t \in Purchases : PaymentConfirmed(t) BY <1>2
  <2>4. SoldOK' BY <2>1, SoldMoves DEF PaymentConfirmed, ListUnchanged
  <2> QED BY <2>1, <2>4, ListKept, StackKept DEF PaidInv, SidesOK, PaymentConfirmed, QueueUnchanged, PastOK
<1> QED BY <1>1, <1>2

\* getSubscriptionInfo
LEMMA InfoHolds ==
    ASSUME PaidInv, InfoEnds
    PROVE  PaidInv'
<1> PICK r \in Answers \cup {"failed"} :
        /\ RequestEnds(r)
        /\ IF r = "ok" THEN FlowBecomes([Top EXCEPT !.at = "import", !.req = FreshRequest]) ELSE Continues(Top)
  BY DEF InfoEnds
<1>1. used' \in Counts /\ used'.entries = used.entries BY RequestCounted DEF PaidInv
<1>2. PastOK' /\ Keeps BY <1>1, ListKept DEF PaidInv, InfoEnds
<1>3. /\ depth > 0 /\ Top \in Flows /\ Top.t \in Purchases
      /\ Good(Top, listed', past'.keys, used'.entries) BY <1>2, TopOK DEF InfoEnds, Waits, Good, Keeps
<1> DEFINE g == [Top EXCEPT !.at = "import", !.req = FreshRequest]
<1>4. g \in Flows /\ g.at = "import" /\ g.t = Top.t /\ g.found = Top.found
  <2>1. FreshRequest \in Reqs /\ "import" \in Ats BY DEF FreshRequest, Request, Reqs, Ats, Requests
  <2> QED BY <1>3, <2>1, FlowsAre
<1>5. (FlowBecomes(g) /\ r = "ok") \/ Continues(Top) OBVIOUS
<1> HIDE DEF g
<1> QED BY <1>1, <1>2, <1>3, <1>4, <1>5, BecomesOK, ContinuesOK, QuietHolds DEF InfoEnds, Good

\* The transaction is finished, or acknowledged next, when the subscription is
\* on the list.
LEMMA ConfirmsHolds ==
    ASSUME PaidInv, PastOK', Keeps, past.keys \subseteq past'.keys, Waits("import"),
           NEW added \in BOOLEAN, NEW already \in BOOLEAN, Confirms(added, already),
           MayFinish(added, already) => VpnKeyOf[Top.t] \in past'.keys
    PROVE  SoldOK' /\ FlowsOK' /\ handled' \in SUBSET Purchases
<1>1. /\ depth > 0 /\ Top \in Flows /\ Top.t \in Purchases
      /\ Good(Top, listed', past'.keys, used'.entries) BY TopOK DEF Waits, Good, Keeps
<1>2. SoldOK' BY <1>1, SoldKept, SoldMoves DEF Confirms
<1>3. handled' \in SUBSET Purchases BY <1>1 DEF Confirms, PaidInv, SidesOK
<1>4. CASE Top.op = "signal"
  <2>2. "queue" \in Ats \ {"store", "info", "import", "acknowledge", "query", "select"} BY DEF Ats
  <2>3. [Top EXCEPT !.at = "queue"] \in Flows /\ Good([Top EXCEPT !.at = "queue"], listed', past'.keys, used'.entries)
    BY <1>1, <2>2, MovedOK
  <2> QED BY <1>1, <1>2, <1>3, <1>4, <2>3, BecomesOK DEF Confirms
<1>5. CASE Top.op # "signal" /\ market = "play" /\ MayFinish(added, already) /\ Top.t \notin Top.acked
  BY <1>5, <1>1, FlowsAre, BecomesOK, <1>2, <1>3 DEF Confirms, Ats, OpenLoops, Good
<1>6. CASE Top.op # "signal" /\ ~(market = "play" /\ MayFinish(added, already) /\ Top.t \notin Top.acked)
  BY <1>6, <1>1, ContinuesOK, <1>2, <1>3 DEF Confirms
<1> QED BY <1>4, <1>5, <1>6

\* importServiceFromMarket: the entry is made when its key is not listed, in
\* the same step as the answer is read.
LEMMA ImportHolds ==
    ASSUME PaidInv, ImportEnds
    PROVE  PaidInv'
<1>0. Waits("import") /\ UNCHANGED <<market, updates, busy, due, captcha, cached>> BY DEF ImportEnds
<1>1. Top.t \in Purchases /\ VpnKeyOf[Top.t] \in VpnKeys BY <1>0, TopOK DEF Waits, Good, VpnKeys
<1>2. SUFFICES PastOK' /\ SoldOK' /\ FlowsOK' /\ handled' \in SUBSET Purchases BY <1>0 DEF PaidInv, SidesOK
<1>3. CASE RequestEnds("ok") /\ alreadyAdded(Top.t) /\ Confirms(FALSE, TRUE) /\ ListUnchanged
  <2>1. PastOK' /\ Keeps BY <1>3, RequestCounted, ListKept DEF PaidInv
  <2>2. VpnKeyOf[Top.t] \in past'.keys /\ past' = past
    BY <1>3 DEF alreadyAdded, PaidInv, PastOK, ListOK, ListUnchanged
  <2> QED BY <1>0, <1>3, <2>1, <2>2, ConfirmsHolds
<1>4. CASE ~alreadyAdded(Top.t) /\ Added(VpnKeyOf[Top.t], FALSE) /\ Confirms(TRUE, FALSE)
  <2>1. \A e \in listed : e.key # VpnKeyOf[Top.t] BY <1>4 DEF alreadyAdded
  <2>2. PastOK' /\ Keeps /\ VpnKeyOf[Top.t] \in past'.keys /\ past.keys \subseteq past'.keys
    BY <1>1, <1>4, <2>1, ListAdded DEF PaidInv
  <2> QED BY <1>0, <1>4, <2>2, ConfirmsHolds
<1>5. CASE Confirms(FALSE, FALSE) /\ ListUnchanged /\ (Setback \/ \E r : RequestEnds(r))
  <2>2. PastOK' /\ Keeps /\ past' = past BY <1>5, Counted, RequestCounted, ListKept DEF PaidInv, ListUnchanged
  <2> QED BY <1>0, <1>5, <2>2, ConfirmsHolds DEF MayFinish
<1> QED BY <1>3, <1>4, <1>5 DEF ImportEnds

\* acknowledgePlayPurchase
LEMMA AcknowledgeHolds ==
    ASSUME PaidInv, AcknowledgeEnds
    PROVE  PaidInv'
<1>2. PastOK' /\ Keeps BY Counted, ListKept DEF PaidInv, AcknowledgeEnds
<1>3. /\ depth > 0 /\ Top \in Flows /\ Top.t \in Purchases /\ VpnKeyOf[Top.t] \in past.keys
      /\ Good(Top, listed', past'.keys, used'.entries) BY <1>2, TopOK DEF AcknowledgeEnds, Waits, Good, Keeps
<1> QED
  BY <1>2, <1>3, SoldKept, SoldMoves, ContinuesOK DEF PaidInv, SidesOK, AcknowledgeEnds, QueueUnchanged, ListUnchanged

\* onStoreTransactionUpdated and processStoreTransactionUpdate
LEMMA SignalsHold ==
    ASSUME PaidInv, NextUpdate \/ \E t \in Purchases : StoreSignals(t)
    PROVE  PaidInv'
<1>1. CASE NextUpdate
  <2>1. PastOK' /\ Keeps /\ depth > 0 BY <1>1, ListKept DEF PaidInv, NextUpdate, PastOK, Waits
  <2>2. FlowsOK'
    <3>1. CASE FlowEnds BY <2>1, <3>1, EndsOK
    <3>2. CASE UNCHANGED <<flow, depth>> BY <2>1, <3>2, StackKept
    <3>3. CASE \E t \in updates : FlowBecomes([Flow("signal", "select") EXCEPT !.t = t])
      <4>1. PICK t \in Purchases : FlowBecomes([Flow("signal", "select") EXCEPT !.t = t]) BY <3>3 DEF PaidInv, SidesOK
      <4> DEFINE g == [Flow("signal", "select") EXCEPT !.t = t]
      <4>2. g \in Flows /\ Good(g, listed, past.keys, used.entries) /\ FlowBecomes(g) BY <4>1, AboutOK DEF PaidInv
      <4> HIDE DEF g
      <4> QED BY <2>1, <4>2, BecomesOK DEF Keeps
    <3> QED BY <1>1, <3>1, <3>2, <3>3 DEF NextUpdate
  <2>4. updates' \in SUBSET Purchases /\ busy' \in BOOLEAN BY <1>1 DEF NextUpdate, PaidInv, SidesOK
  <2> QED BY <1>1, <2>1, <2>2, <2>4, SoldKept DEF PaidInv, SidesOK, NextUpdate, ListUnchanged
<1>2. CASE \E t \in Purchases : StoreSignals(t)
  <2>1. PICK t \in Purchases : StoreSignals(t) BY <1>2
  <2>3. PastOK' /\ Keeps BY <2>1, Counted, ListKept DEF PaidInv, StoreSignals, Push, Smooth
  <2>6. updates' \in SUBSET Purchases /\ busy' \in BOOLEAN BY <2>1 DEF StoreSignals, PaidInv, SidesOK
  <2> QED
    BY <2>1, <2>3, <2>6, PlainOK, PushOK, StackKept, SoldKept DEF PaidInv, SidesOK, StoreSignals, ListUnchanged, Ops,
      Ats
<1> QED BY <1>1, <1>2

\* selectPremiumServiceQuietly
LEMMA SelectHolds ==
    ASSUME PaidInv, SelectEnds
    PROVE  PaidInv'
<1> PICK r \in Answers \cup {"failed"} :
        /\ RequestEnds(r)
        /\ CASE r = "ok" /\ Top.op = "restore" -> FlowBecomes([Top EXCEPT !.at = "query"])
             [] r = "ok" /\ Top.op = "unacked" -> Continues(Top)
             [] r = "ok" /\ Top.op = "signal" -> FlowBecomes(First(Top, Top.t))
             [] r # "ok" /\ Top.op = "signal" -> FlowBecomes(Flow("signal", "queue"))
             [] r # "ok" /\ Top.op # "signal" -> FlowEnds BY DEF SelectEnds
<1>1. used' \in Counts /\ used'.entries = used.entries BY RequestCounted DEF PaidInv
<1>2. PastOK' /\ Keeps BY <1>1, ListKept DEF PaidInv, SelectEnds
<1>3. /\ depth > 0 /\ Top \in Flows /\ Top.op \in {"restore", "unacked", "signal"}
      /\ Top.op = "signal" => Top.t \in Purchases
      /\ Good(Top, listed', past'.keys, used'.entries) BY <1>2, TopOK DEF SelectEnds, Waits, Good, Keeps
<1> DEFINE g == [Top EXCEPT !.at = "query"]
           h == Flow("signal", "queue")
<1>4. \/ FlowBecomes(g) /\ Top.op = "restore"
      \/ Continues(Top)
      \/ FlowBecomes(First(Top, Top.t)) /\ Top.op = "signal"
      \/ FlowBecomes(h)
      \/ FlowEnds BY <1>3
<1>5. g \in Flows /\ g.at = "query" /\ g.op = Top.op /\ g.found = Top.found BY <1>3, FlowsAre DEF Ats, OpenLoops
<1>6. h \in Flows /\ Good(h, listed, past.keys, used.entries) BY PlainOK DEF Ops, Ats, PaidInv
<1> HIDE DEF g, h
<1>8. Top.op = "restore" => Good(g, listed', past'.keys, used'.entries) BY <1>3, <1>5 DEF Good
<1> QED
  BY <1>1, <1>2, <1>3, <1>4, <1>5, <1>6, <1>8, BecomesOK, ContinuesOK, EndsOK, FirstOK, QuietHolds DEF SelectEnds,
    Keeps

\* queryPurchases and restorePurchases
LEMMA QueryHolds ==
    ASSUME PaidInv, QueryEnds
    PROVE  PaidInv'
<1> DEFINE paid == {t \in Purchases : sold[t] \in {"paid", "finished"}}
           done == {t \in Purchases : sold[t] = "finished"}
           f == [Top EXCEPT !.acked = done]
           g == [f EXCEPT !.todo = paid]
           h == [Top EXCEPT !.at = "select", !.todo = paid \ f.acked, !.req = FreshRequest]
<1>1. used' \in Counts /\ used'.entries = used.entries BY Counted DEF PaidInv, QueryEnds
<1>2. PastOK' /\ Keeps BY <1>1, ListKept DEF PaidInv, QueryEnds
<1>3. /\ depth > 0 /\ Top \in Flows /\ Top.op \in {"restore", "unacked"} /\ Top.at = "query"
      /\ Good(Top, listed', past'.keys, used'.entries) BY <1>2, TopOK DEF QueryEnds, Waits, Good, Keeps
<1>4. FlowEnds \/ Continues(g) \/ (Top.op # "restore" /\ FlowBecomes(h)) BY DEF QueryEnds
<1>5. f \in Flows /\ f.found = Top.found /\ f.at = "query" /\ f.op = Top.op /\ f.acked = done BY <1>3, FlowsAre
<1>6. g \in Flows /\ g.found = Top.found /\ g.at = "query" /\ g.op = Top.op
  <2> HIDE DEF f
  <2> QED BY <1>5, FlowsAre
<1>7. h \in Flows /\ h.found = Top.found /\ h.at = "select" /\ h.op = Top.op
  <2>1. FreshRequest \in Reqs /\ "select" \in Ats /\ paid \ f.acked \in SUBSET Purchases
    BY DEF FreshRequest, Request, Reqs, Ats, Requests
  <2> HIDE DEF f
  <2> QED BY <1>3, <2>1, FlowsAre
<1> HIDE DEF g, h
<1> QED BY <1>1, <1>2, <1>3, <1>4, <1>6, <1>7, BecomesOK, ContinuesOK, EndsOK, QuietHolds DEF QueryEnds, Good

\* What is written back over the list is of the subscription it replaces.
LEMMA WrittenBack ==
    ASSUME PaidInv, depth > 0, used' \in Counts, used'.entries = used.entries, past' = past,
           \/ listed' = listed
           \/ listed' = applyUpdatedServiceConfig(Top.found.id)
           \/ listed' \in MarkedExpired(Top.found)
           \/ listed' = Edited([Top.found EXCEPT !.installed = FALSE])
    PROVE  PastOK' /\ Keeps
<1>1. /\ PastOK /\ Top.found \in Entries
      /\ \A x \in listed : x.id = Top.found.id => x.key = Top.found.key BY TopOK, FlowFields DEF PaidInv, Good
<1>2. CASE listed' = listed BY <1>1, <1>2, ListKept DEF ListUnchanged
<1>3. ASSUME NEW e \in Entries, e.id = Top.found.id, e.key = Top.found.key, listed' = Edited(e)
      PROVE  PastOK' /\ Keeps BY <1>1, <1>3, ListEdited
<1>4. CASE listed' \in MarkedExpired(Top.found)
  <2> DEFINE e == [Top.found EXCEPT !.expired = TRUE]
  <2>1. e \in Entries /\ e.id = Top.found.id /\ e.key = Top.found.key BY <1>1 DEF Entries
  <2>2. listed' = Edited(e) \/ listed' = listed BY <1>4 DEF MarkedExpired
  <2> HIDE DEF e
  <2> QED BY <1>2, <1>3, <2>1, <2>2
<1>5. CASE listed' = Edited([Top.found EXCEPT !.installed = FALSE])
  <2> DEFINE e == [Top.found EXCEPT !.installed = FALSE]
  <2>1. e \in Entries /\ e.id = Top.found.id /\ e.key = Top.found.key /\ listed' = Edited(e) BY <1>1, <1>5 DEF Entries
  <2> HIDE DEF e
  <2> QED BY <1>3, <2>1
<1>6. CASE listed' = applyUpdatedServiceConfig(Top.found.id)
  <2>1. CASE Top.found.id \notin Ids BY <1>2, <1>6, <2>1 DEF applyUpdatedServiceConfig
  <2>2. CASE Top.found.id \in Ids
    <3> DEFINE o == EntryOf(Top.found.id)
               e == [o EXCEPT !.installed = TRUE, !.expired = FALSE]
    <3>1. listed' = Edited(e) BY <1>6, <2>2 DEF applyUpdatedServiceConfig
    <3>2. o \in listed /\ o \in Entries /\ o.id = Top.found.id BY <1>1, <2>2, EntryOfOK DEF PastOK, ListOK
    <3> HIDE DEF o
    <3>4. e \in Entries /\ e.id = o.id /\ e.key = o.key BY <3>2 DEF Entries
    <3> HIDE DEF e
    <3> QED BY <1>1, <1>3, <3>1, <3>2, <3>4
  <2> QED BY <2>1, <2>2
<1> QED BY <1>2, <1>4, <1>5, <1>6

\* The flow that moves ends and the store is left alone.
LEMMA DoneHolds ==
    ASSUME PaidInv, depth > 0, PastOK', Keeps, past.keys \subseteq past'.keys, captcha' \in Captchas,
           FlowEnds \/ UNCHANGED <<depth, flow>>, StoreUnchanged
    PROVE  PaidInv'
<1> QED BY SoldKept, EndsOK, StackKept DEF PaidInv, SidesOK, StoreUnchanged

\* updateServiceFromGateway
LEMMA ConfigHolds ==
    ASSUME PaidInv, ConfigEnds
    PROVE  PaidInv'
<1> PICK r \in Answers \cup {"failed"} :
         /\ RequestEnds(r)
         /\ listed' \in CASE r = "ok" -> {applyUpdatedServiceConfig(Top.found.id)}
                          [] r = "expired" -> MarkedExpired(Top.found)
                          [] OTHER -> {listed}
         /\ captcha' = IF r = "captcha" THEN [pending |-> TRUE, kind |-> "update", id |-> Top.found.id]
                       ELSE captcha BY DEF ConfigEnds
<1>2. depth > 0 /\ past' = past /\ StoreUnchanged /\ FlowEnds BY DEF ConfigEnds, Waits
<1> QED BY <1>2, RequestCounted, WrittenBack, TopOK, FlowFields, EntryFields, DoneHolds DEF PaidInv, SidesOK, Captchas

\* importFreeFromGateway and importTrialFromGateway
LEMMA ServiceHolds ==
    ASSUME PaidInv, ServiceEnds
    PROVE  PaidInv'
<1>1. depth > 0 /\ StoreUnchanged /\ FlowEnds BY DEF ServiceEnds, Waits
<1>2. captcha' \in Captchas
  <2>1. captcha \in Captchas /\ [pending |-> TRUE, kind |-> "import", id |-> 0] \in Captchas
    BY DEF PaidInv, SidesOK, Captchas
  <2>2. captcha' = captcha \/ captcha' = [pending |-> TRUE, kind |-> "import", id |-> 0] BY DEF ServiceEnds
  <2> QED BY <2>1, <2>2
<1>3. CASE Added(NoKey, TRUE) BY <1>1, <1>2, <1>3, ListAdded, DoneHolds DEF PaidInv
<1>4. CASE ListUnchanged /\ \E r : RequestEnds(r)
  BY <1>4, RequestCounted, ListKept, <1>1, <1>2, DoneHolds DEF PaidInv, ListUnchanged
<1> QED BY <1>3, <1>4 DEF ServiceEnds

\* deactivateDevice, deactivateExternalDevice and removeServer
LEMMA RevokeHolds ==
    ASSUME PaidInv, RevokeEnds
    PROVE  PaidInv'
<1> PICK r \in Answers \cup {"failed"} :
         /\ RequestEnds(r)
         /\ IF Top.op = "remove"
            THEN listed' = Removed(Top.found.id) /\ past' = [past EXCEPT !.removed = @ \cup {Top.found.id}]
            ELSE /\ listed' = IF r \in {"ok", "absent"} THEN Edited([Top.found EXCEPT !.installed = FALSE])
                              ELSE listed
                 /\ UNCHANGED past BY DEF RevokeEnds
<1>1. used' \in Counts /\ used'.entries = used.entries BY RequestCounted DEF PaidInv
<1>2. depth > 0 /\ StoreUnchanged /\ FlowEnds /\ captcha' \in Captchas BY DEF RevokeEnds, Waits, PaidInv, SidesOK
<1>3. CASE Top.op = "remove"
  BY <1>2, TopOK, FlowFields, EntryFields, <1>1, <1>3, ListRemoved, DoneHolds DEF Good, PaidInv, PastOK
<1>4. CASE Top.op # "remove" BY <1>1, <1>2, <1>4, WrittenBack, DoneHolds
<1> QED BY <1>3, <1>4

\* removeServer of what was not paid for, and removeApiConfig
LEMMA RemoveHolds ==
    ASSUME PaidInv, NEW e \in listed, RemoveFree(e) \/ RemoveConfig(e)
    PROVE  PaidInv'
<1>0. used' = used /\ captcha' = captcha /\ UNCHANGED <<depth, flow>> /\ StoreUnchanged
  BY DEF RemoveFree, RemoveConfig
<1>1. PastOK /\ used' \in Counts /\ used'.entries = used.entries BY <1>0 DEF PaidInv, PastOK
<1>2. e \in Entries /\ e.id \in Nat /\ e.id <= used.entries /\ \A x \in listed : x.id = e.id => x.key = e.key
  BY <1>1, EntryFields DEF PastOK, ListOK
<1>3. PastOK' /\ Keeps /\ past'.keys = past.keys
  <2>1. CASE RemoveFree(e) BY <1>1, <1>2, <2>1, ListRemoved DEF RemoveFree, PastOK
  <2>2. CASE RemoveConfig(e)
    <3> DEFINE x == [e EXCEPT !.installed = FALSE]
    <3>1. x \in Entries /\ x.id = e.id /\ x.key = e.key BY <1>2 DEF Entries
    <3>2. listed' = Edited(x) /\ past' = past BY <2>2 DEF RemoveConfig
    <3> HIDE DEF x
    <3> QED BY <1>1, <1>2, <3>1, <3>2, ListEdited
  <2> QED BY <2>1, <2>2
<1> QED BY <1>0, <1>3, SoldKept, StackKept DEF PaidInv, SidesOK, StoreUnchanged

\* onCaptchaSolved and onRefreshCaptchaRequested
LEMMA CaptchaHolds ==
    ASSUME PaidInv, CaptchaEnds \/ AnswerCaptcha("solve") \/ AnswerCaptcha("again")
    PROVE  PaidInv'
<1>0. captcha \in Captchas /\ [captcha EXCEPT !.pending = FALSE] \in Captchas BY DEF PaidInv, SidesOK, Captchas
<1>1. ASSUME NEW at \in {"solve", "again"}, AnswerCaptcha(at)
      PROVE  PaidInv'
  <2>1. CASE UNCHANGED <<depth, flow, used>> /\ captcha' = [captcha EXCEPT !.pending = FALSE]
    BY <1>1, <2>1, ListKept, StackKept, SoldKept, <1>0 DEF PaidInv, PastOK, AnswerCaptcha, StoreUnchanged,
      ListUnchanged, SidesOK
  <2>2. CASE Asks(captcha.kind, at, CaptchaEntry) /\ UNCHANGED captcha
    <3>2. captcha.kind \in Ops BY <1>0 DEF Captchas, Ops
    <3> DEFINE f == [Flow(captcha.kind, at) EXCEPT !.found = CaptchaEntry]
    <3> HIDE DEF f
    <3> QED
      BY <1>1, <2>2, <3>2, EntryOfOK, AskOK, StartsHolds DEF AnswerCaptcha, StoreUnchanged, QueueUnchanged, PaidInv,
        Asks, CaptchaEntry
  <2> QED BY <1>1, <2>1, <2>2 DEF AnswerCaptcha
<1>2. CASE CaptchaEnds
  <2>1. depth > 0 /\ StoreUnchanged /\ FlowEnds BY <1>2 DEF CaptchaEnds, Waits
  <2>2. captcha' \in Captchas
    <3>1. \A r : Settled(r) \in Captchas BY <1>0 DEF Settled
    <3> QED BY <1>2, <3>1 DEF CaptchaEnds
  <2>3. CASE Added(NoKey, TRUE) BY <2>1, <2>2, <2>3, ListAdded, DoneHolds DEF PaidInv
  <2>4. CASE \E r \in Answers \cup {"failed"} :
            /\ RequestEnds(r) /\ UNCHANGED past
            /\ listed' \in CASE Top.op = "update" /\ r = "ok" -> {applyUpdatedServiceConfig(Top.found.id)}
                             [] Top.op = "update" /\ r = "expired" -> MarkedExpired(Top.found)
                             [] OTHER -> {listed}
    BY <2>4, RequestCounted, <2>1, WrittenBack, <2>2, DoneHolds DEF PaidInv
  <2> QED BY <1>2, <2>3, <2>4 DEF CaptchaEnds
<1> QED BY <1>1, <1>2

\* A crash or a restart: the flows are gone, the list is on the disk.
LEMMA RelaunchHolds ==
    ASSUME PaidInv, Relaunch
    PROVE  PaidInv'
<1>2. PastOK' /\ Keeps BY Counted, ListKept DEF PaidInv, Relaunch
<1>6. SidesOK' BY DEF PaidInv, SidesOK, Relaunch, Captchas, NoCaptcha
<1> QED
  BY <1>2, <1>6, NothingFound, SubscriptionsAssumption, SoldKept DEF PaidInv, Relaunch, ListUnchanged, FlowsOK, Keeps

\* Before the first start nothing was sold and nothing is listed.
LEMMA PaidInitHolds == SubscriptionsInit => PaidInv
<1> SUFFICES ASSUME SubscriptionsInit PROVE PaidInv OBVIOUS
<1>1. SidesOK BY DEF SubscriptionsInit, SidesOK, Captchas, NoCaptcha
<1>3. PastOK BY DEF SubscriptionsInit, PastOK, ListOK, Counts
<1> QED
  BY <1>1, <1>3, NothingFound, SubscriptionsAssumption DEF PaidInv, SubscriptionsInit, SoldOK, PaidIsDelivered,
    FlowsOK

-----------------------------------------------------------------------------

\* The invariant is inductive.
THEOREM SubscriptionInvariance == SubscriptionSpec => []PaidInv
<1>1. PaidInv /\ [SubscriptionStep]_subscriptionVars => PaidInv'
  <2> SUFFICES ASSUME PaidInv, [SubscriptionStep]_subscriptionVars PROVE PaidInv' OBVIOUS
  <2>1. CASE SubscriptionStep
    BY <2>1, GatewayHolds, FlowBeginsHolds, CheckHolds, StoreHolds, InfoHolds, ImportHolds, AcknowledgeHolds,
      SignalsHold, SelectHolds, QueryHolds, ConfigHolds, ServiceHolds, RevokeHolds, RemoveHolds, CaptchaHolds,
      RelaunchHolds DEF SubscriptionStep
  <2>2. CASE UNCHANGED subscriptionVars
    BY <2>2 DEF subscriptionVars, PaidInv, SidesOK, SoldOK, PaidIsDelivered, PastOK, FlowsOK
  <2> QED BY <2>1, <2>2
<1> QED BY <1>1, PaidInitHolds, PTL DEF SubscriptionSpec

\* Every variable keeps its type, the flows at every depth included.
THEOREM SubscriptionsTyped == SubscriptionSpec => []SubscriptionsTypeOK
<1>1. PaidInv => SubscriptionsTypeOK
  BY DEF PaidInv, SidesOK, SoldOK, PastOK, ListOK, FlowsOK, Counts, Captchas, SubscriptionsTypeOK
<1> QED BY <1>1, SubscriptionInvariance, PTL

\* The store is told of a delivery only after it, a subscription is listed once
\* and what was removed does not come back, however flows are nested, answers
\* delayed and the application restarted (StorePurchaseController,
\* SubscriptionController and SubscriptionUiController).
THEOREM PurchasesKept == SubscriptionSpec => []PurchasesAreKept
<1>1. PaidInv => PurchasesAreKept
  BY DEF PaidInv, SoldOK, PastOK, ListOK, PurchasesAreKept, OneEntryPerKey, RemovedStaysRemoved
<1> QED BY <1>1, SubscriptionInvariance, PTL
-----------------------------------------------------------------------------
(***************************************************************************)
(* The guardian and the route inspector.                                   *)
(***************************************************************************)

TunnelStates == {"disconnected", "connecting", "connected", "reconnecting", "disconnecting", "error"}
HealthStates == {"unknown", "healthy", "degraded", "unhealthy", "recovering"}

TunnelType ==
    [st : TunnelStates, epoch : Nat, mode : RouteModes, base : {"lost", "pending", "confirmed"}, policy : Nat,
     routes : SUBSET Sites, local : SUBSET Sites, routed : BOOLEAN, reconnects : Nat, revision : Nat]
RulesType == [policy : Nat, routes : SUBSET Sites, mode : RouteModes, expired : BOOLEAN]
SignalType == [kind : {"epoch"}, epoch : Nat] \cup [kind : {"state"}, st : TunnelStates]
ProbeType == [on : BOOLEAN, dns : {"wait", "ok", "bad"}, egress : {"wait", "ok", "bad"}, origin : BOOLEAN,
              https : BOOLEAN, quality : {"good", "slow", "critical"}, of : Nat]
MendType == [action : Nat, attempt : Nat, epoch : Nat, asked : BOOLEAN]
SuggestionType == [action : Nat, attempt : Nat, epoch : Nat, conn : Nat]
FlightType == [on : BOOLEAN, conn : Nat, epoch : Nat]
GuardType ==
    [health : HealthStates, of : Nat, fails : Nat, oks : Nat, fresh : BOOLEAN, rung : Nat, mend : MendType,
     next : Nat, tries : Nat, cooling : BOOLEAN, probe : ProbeType, st : TunnelStates, epoch : Nat,
     request : Nat, periodic : BOOLEAN, suggested : SuggestionType, flight : FlightType, spared : BOOLEAN]

\* What the operations on the guardian's state have in common: the connection
\* and the recovery in flight stay.
Frame(g, r) ==
    /\ r \in GuardType
    /\ r.st = g.st /\ r.epoch = g.epoch /\ r.flight = g.flight /\ r.spared = g.spared
\* It also says the same about the connection, from the same probe.
SameVerdict(g, r) == Frame(g, r) /\ r.health = g.health /\ r.of = g.of /\ r.probe = g.probe

\* The records of a guardian at rest have their types.
LEMMA RestTyped ==
    /\ NoProbe \in ProbeType /\ NoMend \in MendType /\ NoSuggestion \in SuggestionType
    /\ NoFlight \in FlightType /\ ~NoProbe.on /\ ~NoFlight.on
BY DEF NoProbe, NoMend, NoSuggestion, NoFlight, ProbeType, MendType, SuggestionType, FlightType, NoEvidence

\* A state that was only observed replaces the verdict and drops its evidence.
LEMMA RecordHealthDoes ==
    ASSUME NEW g \in GuardType, NEW h \in HealthStates
    PROVE  LET r == recordHealthState(g, h)
           IN Frame(g, r) /\ r.health = h /\ r.probe = g.probe
<1> DEFINE r == recordHealthState(g, h)
<1>1. r \in GuardType BY RestTyped DEF recordHealthState, Superseded, GuardType, NoEvidence
<1> QED BY <1>1 DEF Frame, recordHealthState, Superseded, GuardType

\* A suggestion counts its attempt from one.
LEMMA EvaluateDoes ==
    ASSUME NEW g \in GuardType
    PROVE  SameVerdict(g, evaluateRecovery(g))
<1> DEFINE r == evaluateRecovery(g)
           m == [action |-> g.rung, attempt |-> g.tries + 1, epoch |-> g.next, asked |-> FALSE]
           s == [action |-> g.rung, attempt |-> g.tries + 1, epoch |-> g.next, conn |-> g.epoch]
           e == [g EXCEPT !.mend = m, !.cooling = TRUE, !.tries = @ + 1, !.next = @ + 1]
           f == [e EXCEPT !.suggested = s]
<1>1. m \in MendType /\ s \in SuggestionType
  BY DEF GuardType, MendType, SuggestionType, NoSuggestion
<1>2. r = g \/ r = f
  <2>5. [action |-> e.mend.action, attempt |-> e.mend.attempt, epoch |-> e.mend.epoch, conn |-> e.epoch] = s
    BY DEF GuardType
  <2>2. recoverySuggested(e) = f
    <3> HIDE DEF e, s
    <3> QED BY <2>5 DEF recoverySuggested
  <2> QED BY <2>2 DEF evaluateRecovery
<1>3. CASE r = g BY <1>3 DEF SameVerdict, Frame
<1>4. CASE r = f
  <2> SUFFICES SameVerdict(g, f) BY <1>4
  <2> HIDE DEF m, s, r
  <2>5. PICK t \in Nat, n \in Nat : t = g.tries + 1 /\ n = g.next + 1 BY DEF GuardType
  <2>6. e = [g EXCEPT !.mend = m, !.cooling = TRUE, !.tries = t, !.next = n] BY <2>5
  <2>1. e \in GuardType
    <3> HIDE DEF e
    <3> QED BY <1>1, <2>6 DEF GuardType
  <2>2. e.st = g.st /\ e.epoch = g.epoch /\ e.flight = g.flight /\ e.health = g.health /\ e.of = g.of /\ e.probe = g.probe
        /\ e.spared = g.spared BY DEF GuardType
  <2> HIDE DEF e
  <2>3. f \in GuardType BY <1>1, <2>1 DEF GuardType
  <2>4. f.st = e.st /\ f.epoch = e.epoch /\ f.flight = e.flight /\ f.health = e.health /\ f.of = e.of
        /\ f.probe = e.probe /\ f.spared = e.spared BY <2>1 DEF GuardType
  <2> HIDE DEF f
  <2> QED BY <1>1, <2>2, <2>3, <2>4 DEF SameVerdict, Frame
<1> QED BY <1>2, <1>3, <1>4

\* The result of a recovery moves the ladder only.
LEMMA AcknowledgeDoes ==
    ASSUME NEW g \in GuardType, NEW success \in BOOLEAN, NEW epoch
    PROVE  SameVerdict(g, acknowledgeRecoveryResult(g, success, epoch))
<1> DEFINE n == IF success THEN 1 ELSE IF g.rung < Len(Ladder) THEN g.rung + 1 ELSE g.rung
           f == [g EXCEPT !.rung = n, !.mend = NoMend]
<1>1. n \in Nat BY DEF GuardType
<1>2. acknowledgeRecoveryResult(g, success, epoch) \in {g, f} BY DEF acknowledgeRecoveryResult, GuardType
<1> HIDE DEF n
<1>3. f \in GuardType BY <1>1, RestTyped DEF GuardType
<1>4. f.st = g.st /\ f.epoch = g.epoch /\ f.flight = g.flight /\ f.health = g.health /\ f.of = g.of
      /\ f.probe = g.probe /\ f.spared = g.spared BY DEF GuardType
<1> HIDE DEF f
<1> QED BY <1>2, <1>3, <1>4 DEF SameVerdict, Frame

\* A finished recovery is no longer in flight.
LEMMA FinishRecoveryDoes ==
    ASSUME NEW g \in GuardType, NEW success \in BOOLEAN
    PROVE  LET r == finishGuardianRecovery(g, success)
           IN /\ r \in GuardType /\ ~r.flight.on /\ r.st = g.st /\ r.epoch = g.epoch
              /\ r.health = g.health /\ r.of = g.of /\ r.probe = g.probe
              /\ r.spared = g.spared
<1> DEFINE f == [g EXCEPT !.flight = NoFlight]
<1>1. f \in GuardType BY RestTyped DEF GuardType
<1>2. f.st = g.st /\ f.epoch = g.epoch /\ f.flight = NoFlight /\ f.health = g.health /\ f.of = g.of
      /\ f.probe = g.probe /\ f.spared = g.spared BY DEF GuardType
<1> HIDE DEF f
<1>4. SameVerdict(f, acknowledgeRecoveryResult(f, success, g.flight.epoch)) BY <1>1, AcknowledgeDoes
<1> QED BY <1>2, <1>4, RestTyped DEF SameVerdict, Frame, finishGuardianRecovery, f

\* Scheduling or withdrawing a request says nothing about the connection.
LEMMA ScheduleDoes ==
    ASSUME NEW g \in GuardType
    PROVE  SameVerdict(g, scheduleGuardianConnectivityProbe(g))
<1> DEFINE r == scheduleGuardianConnectivityProbe(g)
<1>3. PICK n \in Nat : n = g.request + 1 BY DEF GuardType
<1>4. r = [g EXCEPT !.request = n, !.periodic = (g.periodic \/ g.st = "connected")]
  BY <1>3 DEF scheduleGuardianConnectivityProbe
<1>1. r \in GuardType
  <2> HIDE DEF r
  <2> QED BY <1>4 DEF GuardType
<1> QED BY <1>1 DEF SameVerdict, Frame, scheduleGuardianConnectivityProbe, GuardType

\* A cancelled probe is off; the verdict stays until a state replaces it.
LEMMA CancelDoes ==
    ASSUME NEW g \in GuardType
    PROVE  LET r == cancelConnectivityProbe(g)
           IN Frame(g, r) /\ r.health = g.health /\ r.probe = NoProbe
<1> DEFINE r == cancelConnectivityProbe(g)
<1>1. r \in GuardType BY RestTyped DEF cancelConnectivityProbe, clearActiveProbe, GuardType
<1> QED BY <1>1 DEF Frame, cancelConnectivityProbe, clearActiveProbe, GuardType

\* So is one whose requests are withdrawn with it.
LEMMA CancelGuardianDoes ==
    ASSUME NEW g \in GuardType
    PROVE  LET r == cancelGuardianConnectivityProbe(g)
           IN Frame(g, r) /\ r.health = g.health /\ r.probe = NoProbe
<1> DEFINE f == [g EXCEPT !.request = @ + 1, !.periodic = FALSE]
<1>4. PICK n \in Nat : n = g.request + 1 BY DEF GuardType
<1>5. f = [g EXCEPT !.request = n, !.periodic = FALSE] BY <1>4
<1>1. f \in GuardType
  <2> HIDE DEF f
  <2> QED BY <1>5 DEF GuardType
<1>2. f.st = g.st /\ f.epoch = g.epoch /\ f.flight = g.flight /\ f.spared = g.spared /\ f.health = g.health
  BY DEF GuardType
<1>3. cancelGuardianConnectivityProbe(g) = cancelConnectivityProbe(f) BY DEF cancelGuardianConnectivityProbe
<1> HIDE DEF f
<1> QED BY <1>1, <1>2, <1>3, CancelDoes DEF Frame

\* A finished probe is off, and its verdict is of the connection it went through.
LEMMA FinishProbeDoes ==
    ASSUME NEW g \in GuardType
    PROVE  LET r == finishProbe(g)
           IN Frame(g, r) /\ r.of = g.probe.of /\ r.probe = NoProbe
<1> DEFINE c == clearActiveProbe(g)
           egress == g.probe.egress = "ok"
           seen == ObservedState(TRUE, g.probe.dns = "ok", egress, egress /\ g.probe.origin, egress, g.probe.quality)
           h == Hysteresis(c, seen)
           k == IF h.st # c.health \/ h.st = "healthy" THEN Superseded(c) ELSE c
           p == recordProbeResult(c, seen, g.probe.of)
           n == IF h.st = "healthy" THEN 1 ELSE k.rung
<1>1. c \in GuardType BY RestTyped DEF clearActiveProbe, GuardType
<1>2. c.st = g.st /\ c.epoch = g.epoch /\ c.flight = g.flight /\ c.spared = g.spared /\ c.probe = NoProbe
  BY DEF clearActiveProbe, GuardType
<1>3. seen \in HealthStates BY DEF ObservedState, HealthStates
<1>4. g.probe.of \in Nat BY DEF GuardType, ProbeType
<1>5. finishProbe(g) = AndEvaluated(p) BY DEF finishProbe
<1> HIDE DEF c, seen
<1>6. h.st \in HealthStates /\ h.fails \in Nat /\ h.oks \in Nat BY <1>1, <1>3 DEF Hysteresis, GuardType, HealthStates
<1>7. k \in GuardType /\ k.st = c.st /\ k.epoch = c.epoch /\ k.flight = c.flight /\ k.spared = c.spared
      /\ k.probe = c.probe BY <1>1, RestTyped DEF Superseded, GuardType
<1>8. p = [k EXCEPT !.health = h.st, !.fails = h.fails, !.oks = h.oks, !.fresh = TRUE, !.of = g.probe.of, !.rung = n]
  BY <1>7 DEF recordProbeResult, GuardType
<1>9. n \in Nat BY <1>7 DEF GuardType
<1> HIDE DEF h, k, p, n
<1>10. p \in GuardType BY <1>4, <1>6, <1>7, <1>8, <1>9 DEF GuardType
<1>11. p.st = k.st /\ p.epoch = k.epoch /\ p.flight = k.flight /\ p.spared = k.spared /\ p.probe = k.probe
       /\ p.of = g.probe.of BY <1>7, <1>8 DEF GuardType
<1> QED BY <1>2, <1>5, <1>7, <1>10, <1>11, EvaluateDoes DEF SameVerdict, Frame, AndEvaluated

\* A new probe is of the connection its snapshot was of; none starts through a
\* transport that is no longer direct.
LEMMA StartProbeDoes ==
    ASSUME NEW g \in GuardType, NEW literal \in BOOLEAN, NEW https \in BOOLEAN, NEW direct \in BOOLEAN,
           NEW epoch \in Nat
    PROVE  LET r == startConnectivityProbe(g, literal, https, direct, epoch)
           IN /\ Frame(g, r) /\ r.health \in {g.health, "unknown"}
              /\ r.health = "healthy" => r.of = g.of
              /\ r.probe.on => r.probe.of = epoch
<1> DEFINE c == cancelConnectivityProbe(g)
           p == [NoProbe EXCEPT !.on = TRUE, !.https = https, !.of = epoch, !.dns = IF literal THEN "ok" ELSE "wait"]
           q == [c EXCEPT !.probe = p]
<1>1. Frame(g, c) /\ c.health = g.health /\ c.probe = NoProbe BY CancelDoes
<1>2. c.of = g.of BY DEF cancelConnectivityProbe, clearActiveProbe, GuardType
<1>3. p \in ProbeType /\ p.of = epoch BY DEF NoProbe, ProbeType
<1>4. c \in GuardType BY <1>1 DEF Frame
<1>5. startConnectivityProbe(g, literal, https, direct, epoch) = IF direct THEN q ELSE recordHealthState(c, "unknown")
  BY DEF startConnectivityProbe
<1> HIDE DEF c, p
<1>6. q \in GuardType BY <1>3, <1>4 DEF GuardType
<1>7. q.st = c.st /\ q.epoch = c.epoch /\ q.flight = c.flight /\ q.spared = c.spared /\ q.health = c.health
      /\ q.of = c.of /\ q.probe = p BY <1>4 DEF GuardType
<1> HIDE DEF q
<1>9. CASE direct BY <1>1, <1>2, <1>3, <1>5, <1>6, <1>7, <1>9 DEF Frame
<1>10. CASE ~direct BY <1>1, <1>4, <1>5, <1>10, RecordHealthDoes, RestTyped DEF Frame, HealthStates
<1> QED BY <1>9, <1>10

-----------------------------------------------------------------------------
(* The inductive invariant of the guardian. *)

\* The worker's signals go in pairs, the last one says how it is, and two
\* connected states are never announced in a row.
IsState(x) == x.kind = "state"
SignalsOK(q, t, g) ==
    /\ q \in Seq(SignalType)
    /\ q = <<>> => g.st = t.st /\ g.epoch = t.epoch
    /\ q # <<>> =>
         /\ IsState(q[Len(q)]) /\ q[Len(q)].st = t.st
         /\ Len(q) = 1 => g.epoch = t.epoch
         /\ Len(q) > 1 => q[Len(q) - 1].epoch = t.epoch
    /\ \A i \in 1 .. Len(q) : i > 1 => (IsState(q[i]) <=> ~IsState(q[i - 1]))
    /\ \A i \in 1 .. Len(q) :
         IsState(q[i]) /\ q[i].st = "connected" =>
            /\ i <= 2 => g.st # "connected"
            /\ i > 2 => q[i - 2].st # "connected"

\* The next signal is the state that goes with the epoch heard before.
StateNext(q) == q # <<>> /\ IsState(q[1])

\* A verdict and a probe are of the connection the guardian knows, unless it is
\* about to hear of another one; the exception is a reconnection that a recovery asked for.
HealthOK(g, soon) ==
    g.health = "healthy" =>
        soon \/ (g.st = "connected" /\ g.of = g.epoch) \/ (g.st = "reconnecting" /\ g.spared)
ProbeOK(g, soon) == g.probe.on => g.st = "connected" /\ (soon \/ g.probe.of = g.epoch)
GuardOK(g, soon) == g \in GuardType /\ HealthOK(g, soon) /\ ProbeOK(g, soon)

\* A definite answer about an applied receipt follows from the receipt alone.
ShownOK ==
    shown.applied /\ shown.route \in {"vpn", "direct"} =>
        \A a \in shown.addresses :
            /\ a # Endpoint /\ shown.of.mode # "all" => a \in shown.of.routes
            /\ shown.route = IF a = Endpoint THEN "direct" ELSE IF a = Protected THEN "vpn"
                             ELSE IF shown.of.mode = "except" THEN "direct" ELSE "vpn"

GuardianInv ==
    /\ tunnel \in TunnelType /\ rules \in RulesType
    /\ SignalsOK(signals, tunnel, guard)
    /\ GuardOK(guard, StateNext(signals))
    /\ ShownOK

\* It implies what is shown of the connection.
LEMMA GuardianInvImplies == GuardianInv => VerdictsAreTrue
<1> SUFFICES ASSUME GuardianInv PROVE VerdictsAreTrue OBVIOUS
<1> QED
  BY DEF VerdictsAreTrue, GuardianInv, SignalsOK, GuardOK, HealthOK, HealthyIsProved, StateNext,
    ExplainedAsRouted, managedRouteRuntimeSnapshot, ShownOK, Travels

\* A guardian that knows of no connection has no verdict.
LEMMA GuardianInitHolds == GuardianInit => GuardianInv
<1> SUFFICES ASSUME GuardianInit PROVE GuardianInv OBVIOUS
<1>3. guard.health = "unknown" /\ guard.probe = NoProbe /\ guard.flight = NoFlight
      /\ guard.st = tunnel.st /\ guard.epoch = tunnel.epoch BY DEF GuardianInit
<1> QED
  BY <1>3, RestTyped DEF GuardianInv, GuardianInit, TunnelType, RulesType, TunnelStates, RouteModes, GuardOK,
    HealthOK, ProbeOK, GuardType, HealthStates, NoEvidence, SignalsOK, ShownOK, NotShown

-----------------------------------------------------------------------------
(* The queue of signals. *)

\* The worker appends its epoch and its state.
LEMMA SignalsAppend ==
    ASSUME NEW q, NEW t, NEW g, NEW u \in TunnelType, SignalsOK(q, t, g),
           u.st = "connected" => t.st # "connected"
    PROVE  LET n == q \o <<[kind |-> "epoch", epoch |-> u.epoch], [kind |-> "state", st |-> u.st]>>
           IN SignalsOK(n, u, g) /\ (StateNext(n) <=> StateNext(q))
<1> DEFINE x == [kind |-> "epoch", epoch |-> u.epoch]
           y == [kind |-> "state", st |-> u.st]
           p == <<x, y>>
           n == q \o p
<1>1. x \in SignalType /\ y \in SignalType /\ ~IsState(x) /\ IsState(y) /\ x.epoch = u.epoch /\ y.st = u.st
  BY DEF SignalType, TunnelType, IsState
<1> HIDE DEF x, y
<1>2. p \in Seq(SignalType) /\ Len(p) = 2 /\ p[1] = x /\ p[2] = y BY <1>1
<1>3. q \in Seq(SignalType) /\ Len(q) \in Nat BY DEF SignalsOK
<1> HIDE DEF p
<1>4. /\ n \in Seq(SignalType) /\ Len(n) = Len(q) + 2
      /\ \A i \in 1 .. Len(q) : n[i] = q[i]
      /\ n[Len(q) + 1] = x /\ n[Len(q) + 2] = y
  <2>1. \A S : \A a \in Seq(S) : \A b \in Seq(S) :
           a \o b \in Seq(S) /\ Len(a \o b) = Len(a) + Len(b) OBVIOUS
  <2>2. \A S : \A a \in Seq(S) : \A b \in Seq(S) : \A i \in 1 .. Len(a) + Len(b) :
           (a \o b)[i] = IF i <= Len(a) THEN a[i] ELSE b[i - Len(a)] OBVIOUS
  <2>3. n \in Seq(SignalType) /\ Len(n) = Len(q) + 2 BY <1>2, <1>3, <2>1
  <2>4. \A i \in 1 .. Len(q) + 2 : n[i] = IF i <= Len(q) THEN q[i] ELSE p[i - Len(q)]
    <3>1. \A i \in 1 .. Len(q) + Len(p) : n[i] = IF i <= Len(q) THEN q[i] ELSE p[i - Len(q)] BY <1>2, <1>3, <2>2
    <3> QED BY <1>2, <3>1
  <2> HIDE DEF n
  <2> QED BY <1>2, <1>3, <2>3, <2>4
<1> HIDE DEF n
<1>5. q # <<>> => Len(q) >= 1 BY <1>3
<1>6. q = <<>> => Len(q) = 0 OBVIOUS
<1>7. n # <<>> BY <1>3, <1>4
<1>8. \A i \in 1 .. Len(n) : i \in 1 .. Len(q) \/ i = Len(q) + 1 \/ i = Len(q) + 2 BY <1>3, <1>4
<1>10. \A i \in 1 .. Len(n) : i > 1 => (IsState(n[i]) <=> ~IsState(n[i - 1]))
  <2> SUFFICES ASSUME NEW i \in 1 .. Len(n), i > 1 PROVE IsState(n[i]) <=> ~IsState(n[i - 1]) OBVIOUS
  <2>1. CASE i \in 1 .. Len(q)
    <3>1. n[i] = q[i] /\ n[i - 1] = q[i - 1] BY <1>3, <1>4, <2>1
    <3> QED BY <2>1, <3>1 DEF SignalsOK
  <2>2. CASE i = Len(q) + 1 BY <1>3, <1>4, <1>6, <2>2, <1>1 DEF SignalsOK
  <2>3. CASE i = Len(q) + 2 BY <1>3, <2>3, <1>1, <1>4
  <2> QED BY <1>8, <2>1, <2>2, <2>3
<1>11. \A i \in 1 .. Len(n) :
         IsState(n[i]) /\ n[i].st = "connected" =>
            /\ i <= 2 => g.st # "connected"
            /\ i > 2 => n[i - 2].st # "connected"
  <2> SUFFICES ASSUME NEW i \in 1 .. Len(n), IsState(n[i]), n[i].st = "connected"
               PROVE  /\ i <= 2 => g.st # "connected"
                      /\ i > 2 => n[i - 2].st # "connected" OBVIOUS
  <2>1. CASE i \in 1 .. Len(q)
    <3>1. n[i] = q[i] /\ (i > 2 => n[i - 2] = q[i - 2]) BY <1>3, <1>4, <2>1
    <3> QED BY <2>1, <3>1 DEF SignalsOK
  <2>2. CASE i = Len(q) + 1 BY <1>1, <1>4, <2>2
  <2>3. CASE i = Len(q) + 2 BY <1>1, <1>4, <2>3, <1>6, <1>3, <1>5 DEF SignalsOK
  <2> QED BY <1>8, <2>1, <2>2, <2>3
<1>14. SignalsOK(n, u, g) BY <1>1, <1>3, <1>4, <1>7, <1>10, <1>11 DEF SignalsOK
<1> QED BY <1>1, <1>3, <1>4, <1>5, <1>6, <1>7, <1>14 DEF n, p, x, y, StateNext

\* What the tail of the queue holds.
LEMMA SignalsTail ==
    ASSUME NEW q \in Seq(SignalType), q # <<>>
    PROVE  /\ Tail(q) \in Seq(SignalType) /\ Len(Tail(q)) = Len(q) - 1 /\ Len(q) >= 1 /\ Len(q) \in Nat
           /\ \A i \in 1 .. Len(Tail(q)) : Tail(q)[i] = q[i + 1]
           /\ Head(q) = q[1] /\ q[1] \in SignalType
           /\ Len(q) = 1 <=> Tail(q) = <<>>
<1>1. Tail(q) \in Seq(SignalType) /\ Len(Tail(q)) = Len(q) - 1 /\ Len(q) >= 1 /\ Len(q) \in Nat OBVIOUS
<1>4. Len(q) = 1 <=> Tail(q) = <<>>
  <2>1. \A S : \A s \in Seq(S) : Len(s) = 0 <=> s = <<>> OBVIOUS
  <2>2. Len(Tail(q)) = 0 <=> Tail(q) = <<>>
    <3>1. Tail(q) \in Seq(SignalType) OBVIOUS
    <3> QED BY <2>1, <3>1, Zenon
  <2>3. Len(q) = 1 <=> Len(Tail(q)) = 0 BY <1>1
  <2> QED BY <2>2, <2>3, Zenon
<1> QED BY <1>1, <1>4

\* After an epoch comes its state.
LEMMA SignalsEpochHeard ==
    ASSUME NEW q, NEW t, NEW g, NEW h, SignalsOK(q, t, g), q # <<>>, ~IsState(q[1]),
           h.st = g.st, h.epoch = q[1].epoch
    PROVE  SignalsOK(Tail(q), t, h) /\ StateNext(Tail(q)) /\ q[1].epoch \in Nat
<1> DEFINE n == Tail(q)
<1>1. /\ n \in Seq(SignalType) /\ Len(n) = Len(q) - 1 /\ Len(q) >= 1 /\ Len(q) \in Nat
      /\ \A i \in 1 .. Len(n) : n[i] = q[i + 1]
      /\ q[1] \in SignalType
      /\ Len(q) = 1 <=> n = <<>> BY SignalsTail DEF SignalsOK
<1>11. Len(n) \in Nat /\ Len(q) \in Nat /\ Len(n) = Len(q) - 1 BY DEF SignalsOK
<1> HIDE DEF n
<1>2. Len(q) >= 2 BY <1>1 DEF SignalsOK
<1>3. IsState(q[2]) BY <1>2, <1>1 DEF SignalsOK
<1>4. n # <<>> /\ n[1] = q[2] BY <1>1, <1>2
<1>6. n[Len(n)] = q[Len(q)] /\ (Len(n) > 1 => n[Len(n) - 1] = q[Len(q) - 1]) BY <1>1, <1>2
<1>7. Len(n) = 1 => h.epoch = t.epoch
  <2> SUFFICES ASSUME Len(n) = 1 PROVE h.epoch = t.epoch OBVIOUS
  <2>1. Len(q) - 1 = 1 /\ Len(q) > 1
    <3>1. \A k, m \in Nat : k = m - 1 /\ k = 1 => m - 1 = 1 /\ m > 1 OBVIOUS
    <3>2. Len(n) \in Nat /\ Len(q) \in Nat /\ Len(n) = Len(q) - 1 BY <1>11
    <3> QED BY <3>1, <3>2, Zenon
  <2>3. q[1].epoch = t.epoch
    <3> DEFINE k == Len(q) - 1
    <3>1. k = 1 /\ q[k].epoch = t.epoch BY <2>1 DEF SignalsOK
    <3> HIDE DEF k
    <3> QED BY <3>1
  <2> QED BY <2>3
<1>8. \A i \in 1 .. Len(n) : i > 1 => (IsState(n[i]) <=> ~IsState(n[i - 1]))
  <2> SUFFICES ASSUME NEW i \in 1 .. Len(n), i > 1 PROVE IsState(n[i]) <=> ~IsState(n[i - 1]) OBVIOUS
  <2>1. n[i] = q[i + 1] /\ n[i - 1] = q[i] /\ i + 1 \in 1 .. Len(q) /\ i + 1 > 1 /\ (i + 1) - 1 = i BY <1>1
  <2> QED BY <2>1 DEF SignalsOK
<1>9. \A i \in 1 .. Len(n) :
         IsState(n[i]) /\ n[i].st = "connected" =>
            /\ i <= 2 => h.st # "connected"
            /\ i > 2 => n[i - 2].st # "connected"
  <2> SUFFICES ASSUME NEW i \in 1 .. Len(n), IsState(n[i]), n[i].st = "connected"
               PROVE  /\ i <= 2 => h.st # "connected"
                      /\ i > 2 => n[i - 2].st # "connected" OBVIOUS
  <2>1. n[i] = q[i + 1] /\ i + 1 \in 1 .. Len(q) BY <1>1
  <2>3. CASE i = 1 BY <2>1, <2>3 DEF SignalsOK
  <2>4. CASE i > 2
    <3>1. n[i - 2] = q[(i + 1) - 2] BY <1>1, <2>4, SMTT(30)
    <3> QED BY <2>1, <2>4, <3>1 DEF SignalsOK
  <2> QED BY <1>3, <1>4, <1>8, <2>3, <2>4
<1>10. SignalsOK(n, t, h) BY <1>6, <1>1, <1>4, <1>7, <1>8, <1>9 DEF SignalsOK
<1> QED BY <1>1, <1>3, <1>4, <1>10 DEF StateNext, n, SignalType, IsState

\* After a state comes the next epoch.
LEMMA SignalsStateHeard ==
    ASSUME NEW q, NEW t, NEW g, NEW h, SignalsOK(q, t, g), q # <<>>, IsState(q[1]),
           h.st = q[1].st, h.epoch = g.epoch
    PROVE  /\ SignalsOK(Tail(q), t, h) /\ ~StateNext(Tail(q))
           /\ q[1].st \in TunnelStates /\ (q[1].st = "connected" => g.st # "connected")
<1> DEFINE n == Tail(q)
<1>1. /\ n \in Seq(SignalType) /\ Len(n) = Len(q) - 1 /\ Len(q) >= 1 /\ Len(q) \in Nat
      /\ \A i \in 1 .. Len(n) : n[i] = q[i + 1]
      /\ q[1] \in SignalType
      /\ Len(q) = 1 <=> n = <<>> BY SignalsTail DEF SignalsOK
<1> HIDE DEF n
<1>3. q[1].st = "connected" => g.st # "connected" BY <1>1 DEF SignalsOK
<1>4. n # <<>> => Len(q) >= 2 /\ n[1] = q[2] BY <1>1
<1>5. n # <<>> => ~IsState(n[1]) BY <1>1, <1>4 DEF SignalsOK
<1>6. n # <<>> => n[Len(n)] = q[Len(q)] /\ (Len(n) > 1 => n[Len(n) - 1] = q[Len(q) - 1]) BY <1>1, <1>4
<1>8. \A i \in 1 .. Len(n) : i > 1 => (IsState(n[i]) <=> ~IsState(n[i - 1]))
  <2> SUFFICES ASSUME NEW i \in 1 .. Len(n), i > 1 PROVE IsState(n[i]) <=> ~IsState(n[i - 1]) OBVIOUS
  <2>1. n[i] = q[i + 1] /\ n[i - 1] = q[i] /\ i + 1 \in 1 .. Len(q) /\ i + 1 > 1 /\ (i + 1) - 1 = i BY <1>1
  <2> QED BY <2>1 DEF SignalsOK
<1>9. \A i \in 1 .. Len(n) :
         IsState(n[i]) /\ n[i].st = "connected" =>
            /\ i <= 2 => h.st # "connected"
            /\ i > 2 => n[i - 2].st # "connected"
  <2> SUFFICES ASSUME NEW i \in 1 .. Len(n), IsState(n[i]), n[i].st = "connected"
               PROVE  /\ i <= 2 => h.st # "connected"
                      /\ i > 2 => n[i - 2].st # "connected" OBVIOUS
  <2>1. n[i] = q[i + 1] /\ i + 1 \in 1 .. Len(q) BY <1>1
  <2>3. CASE i = 2 BY <2>3, <2>1 DEF SignalsOK
  <2>4. CASE i > 2
    <3>1. n[i - 2] = q[(i + 1) - 2] BY <1>1, <2>4, SMTT(30)
    <3> QED BY <2>1, <2>4, <3>1 DEF SignalsOK
  <2> QED BY <1>1, <1>5, <2>3, <2>4
<1>10. SignalsOK(n, t, h) BY <1>1, <1>5, <1>6, <1>8, <1>9 DEF SignalsOK
<1> QED BY <1>1, <1>3, <1>5, <1>10 DEF StateNext, n, SignalType, IsState

-----------------------------------------------------------------------------
(* The steps. *)

\* A step of the guardian that hears no signal.
LEMMA GuardMoves ==
    ASSUME GuardianInv, GuardOK(guard', StateNext(signals)), guard'.st = guard.st, guard'.epoch = guard.epoch,
           tunnel' \in TunnelType, tunnel'.st = tunnel.st, tunnel'.epoch = tunnel.epoch,
           signals' = signals, rules' \in RulesType, shown' = shown
    PROVE  GuardianInv'
<1> QED BY DEF GuardianInv, SignalsOK, ShownOK

\* A step of the worker that announces its state.
LEMMA TunnelMoves ==
    ASSUME GuardianInv, NEW t \in TunnelType, setConnectionState(t), t.st = "connected" => tunnel.st # "connected",
           ElseTunnel
    PROVE  GuardianInv'
<1>1. tunnel' = t /\ rules' = rules /\ guard' = guard /\ shown' = shown
      /\ signals' = signals \o <<[kind |-> "epoch", epoch |-> t.epoch], [kind |-> "state", st |-> t.st]>>
  BY DEF setConnectionState, ElseTunnel
<1>2. SignalsOK(signals', t, guard) /\ (StateNext(signals') <=> StateNext(signals))
  BY <1>1, SignalsAppend DEF GuardianInv
<1> QED BY <1>1, <1>2 DEF GuardianInv, GuardOK, HealthOK, ProbeOK, ShownOK

\* What the worker forgets with a connection leaves its type.
LEMMA ForgetsTyped ==
    ASSUME NEW t \in TunnelType
    PROVE  Forgets(t) \in TunnelType /\ Forgets(t).epoch = t.epoch /\ Forgets(t).st = t.st
<1>1. PICK n \in Nat : n = t.revision + 1 BY DEF TunnelType
<1>2. Forgets(t) = [t EXCEPT !.base = "lost", !.routes = {}, !.local = {}, !.revision = n] BY <1>1 DEF Forgets
<1> QED BY <1>2 DEF TunnelType

\* A new state and epoch leave it too.
LEMMA TunnelTyped ==
    ASSUME NEW t \in TunnelType, NEW s \in TunnelStates
    PROVE  /\ [t EXCEPT !.st = s] \in TunnelType /\ [t EXCEPT !.st = s].st = s
           /\ [t EXCEPT !.st = s, !.epoch = @ + 1] \in TunnelType /\ [t EXCEPT !.st = s, !.epoch = @ + 1].st = s
<1>1. PICK n \in Nat : n = t.epoch + 1 BY DEF TunnelType
<1>2. [t EXCEPT !.st = s, !.epoch = n] \in TunnelType /\ [t EXCEPT !.st = s, !.epoch = n].st = s BY DEF TunnelType
<1> QED BY <1>1, <1>2 DEF TunnelType

\* What the repository names has its type.
LEMMA RoutedTyped ==
    ASSUME rules \in RulesType, NEW mode
    PROVE  InForce \in Nat /\ Routed(mode) \in SUBSET Sites
<1>1. rules.policy \in Nat /\ rules.routes \in SUBSET Sites BY DEF RulesType
<1> QED BY <1>1 DEF InForce, Routed

\* And so does a start.
LEMMA StartsTyped ==
    ASSUME rules \in RulesType, NEW t \in TunnelType, NEW s \in TunnelStates
    PROVE  Starts(t, s) \in TunnelType /\ Starts(t, s).st = s
<1> DEFINE f == Forgets(t)
<1>1. f \in TunnelType BY ForgetsTyped
<1>2. PICK n \in Nat : n = f.epoch + 1 BY <1>1 DEF TunnelType
<1>3. PICK p \in Nat : p = InForce BY RoutedTyped
<1>4. PICK r \in SUBSET Sites : r = Routed(rules.mode) BY RoutedTyped
<1>5. rules.mode \in RouteModes BY DEF RulesType
<1>6. Starts(t, s) = [f EXCEPT !.st = s, !.epoch = n, !.mode = rules.mode, !.policy = p, !.routes = r]
  BY <1>2, <1>3, <1>4 DEF Starts
<1> HIDE DEF f
<1>7. [f EXCEPT !.st = s, !.epoch = n, !.mode = rules.mode, !.policy = p, !.routes = r] \in TunnelType
  BY <1>1, <1>5 DEF TunnelType
<1>8. [f EXCEPT !.st = s, !.epoch = n, !.mode = rules.mode, !.policy = p, !.routes = r].st = s BY <1>1 DEF TunnelType
<1> QED BY <1>6, <1>7, <1>8

\* The worker's steps.
LEMMA TunnelStepHolds ==
    ASSUME GuardianInv, TunnelStep PROVE GuardianInv'
<1>1. tunnel \in TunnelType /\ rules \in RulesType BY DEF GuardianInv
<1>2. Forgets(tunnel) \in TunnelType BY <1>1, ForgetsTyped
<1>3. CASE connectToVpn
  <2>1. CASE setConnectionState(Starts(tunnel, "connecting"))
    <3>1. "connecting" \in TunnelStates BY DEF TunnelStates
    <3>2. Starts(tunnel, "connecting") \in TunnelType /\ Starts(tunnel, "connecting").st = "connecting"
      BY <1>1, <3>1, StartsTyped
    <3> QED BY <1>3, <2>1, <3>2, TunnelMoves DEF connectToVpn
  <2>2. CASE tunnel.st \in {"disconnecting", "error"} /\ setConnectionState(tunnel)
    BY <1>1, <1>3, <2>2, TunnelMoves DEF connectToVpn
  <2> QED BY <1>3, <2>1, <2>2 DEF connectToVpn
<1>4. CASE Established
  <2>1. PICK base \in {"confirmed", "lost", tunnel.base}, routed \in BOOLEAN, local \in {{}, Sites} :
          setConnectionState([tunnel EXCEPT !.st = "connected", !.base = base, !.routed = routed, !.revision = @ + 1,
                                            !.local = IF tunnel.mode = "all" THEN {} ELSE local])
    BY <1>4 DEF Established
  <2>2. PICK n \in Nat : n = tunnel.revision + 1 BY <1>1 DEF TunnelType
  <2>3. PICK l \in SUBSET Sites : l = (IF tunnel.mode = "all" THEN {} ELSE local) OBVIOUS
  <2> DEFINE t == [tunnel EXCEPT !.st = "connected", !.base = base, !.routed = routed, !.revision = n, !.local = l]
  <2>4. setConnectionState(t) BY <2>1, <2>2, <2>3
  <2>5. t \in TunnelType BY <1>1 DEF TunnelType, TunnelStates
  <2> HIDE DEF t
  <2> QED BY <1>4, <2>4, <2>5, TunnelMoves DEF Established
<1>5. CASE Failed \/ Restarts \/ DisconnectCompleted
  <2>1. ElseTunnel /\ \E s \in {"error", "disconnected", "reconnecting"} : setConnectionState([tunnel EXCEPT !.st = s])
    BY <1>5 DEF Failed, Restarts, DisconnectCompleted
  <2>2. PICK s \in {"error", "disconnected", "reconnecting"} : setConnectionState([tunnel EXCEPT !.st = s]) BY <2>1
  <2> DEFINE t == [tunnel EXCEPT !.st = s]
  <2>3. s \in TunnelStates BY DEF TunnelStates
  <2>4. t \in TunnelType /\ t.st = s BY <1>1, <2>3, TunnelTyped
  <2>5. setConnectionState(t) BY <2>2
  <2> HIDE DEF t
  <2> QED BY <2>1, <2>4, <2>5, TunnelMoves
<1>6. CASE disconnectFromVpn
  <2>1. PICK s \in {"disconnecting", "disconnected", "error"} :
          setConnectionState([Forgets(tunnel) EXCEPT !.st = s, !.epoch = @ + 1]) BY <1>6 DEF disconnectFromVpn
  <2> DEFINE t == [Forgets(tunnel) EXCEPT !.st = s, !.epoch = @ + 1]
  <2>2. s \in TunnelStates BY DEF TunnelStates
  <2>3. t \in TunnelType /\ t.st = s BY <1>2, <2>2, TunnelTyped
  <2>4. setConnectionState(t) BY <2>1
  <2> HIDE DEF t
  <2> QED BY <1>6, <2>3, <2>4, TunnelMoves DEF disconnectFromVpn
<1>7. CASE Reconciles
  <2>1. CASE tunnel' = [tunnel EXCEPT !.base = "pending"]
    BY <1>1, <2>1, <1>7, GuardMoves DEF TunnelType, Reconciles, ElseTunnel, GuardianInv
  <2>2. CASE tunnel' = [tunnel EXCEPT !.base = "confirmed", !.policy = InForce, !.revision = @ + 1,
                                      !.routes = Routed(tunnel.mode)]
    <3>1. PICK n \in Nat : n = tunnel.revision + 1 BY <1>1 DEF TunnelType
    <3>2. PICK r \in SUBSET Sites : r = Routed(tunnel.mode) BY <1>1, RoutedTyped
    <3>3. PICK p \in Nat : p = InForce BY <1>1, RoutedTyped
    <3>4. tunnel' = [tunnel EXCEPT !.base = "confirmed", !.policy = p, !.revision = n, !.routes = r]
      BY <2>2, <3>1, <3>2, <3>3
    <3>5. tunnel' \in TunnelType /\ tunnel'.st = tunnel.st /\ tunnel'.epoch = tunnel.epoch
      BY <1>1, <3>4 DEF TunnelType
    <3> QED BY <1>1, <1>7, <3>5, GuardMoves DEF GuardianInv, Reconciles, ElseTunnel
  <2> QED BY <1>7, <2>1, <2>2 DEF Reconciles
<1>8. CASE AcceptTunnelPolicy BY <1>8, <1>1, GuardMoves DEF AcceptTunnelPolicy, RulesType, GuardianInv
<1>9. CASE PolicyExpires
  <2>2. rules' \in RulesType BY <1>1, <1>9 DEF PolicyExpires, RulesType
  <2> QED BY <1>1, <1>9, <2>2, GuardMoves DEF GuardianInv, PolicyExpires
<1>10. ASSUME NEW queued \in BOOLEAN, reconnectToVpn(queued) PROVE GuardianInv'
  <2>1. PICK n \in Nat : n = IF queued THEN tunnel.reconnects - 1 ELSE tunnel.reconnects
    BY <1>1, <1>10 DEF reconnectToVpn, TunnelType
  <2> DEFINE u == [tunnel EXCEPT !.reconnects = n]
             t == Starts(u, "reconnecting")
  <2>2. u \in TunnelType /\ u.st = tunnel.st /\ u.epoch = tunnel.epoch BY <1>1 DEF TunnelType
  <2>3. ElseTunnel /\ IF tunnel.st = "connected" THEN setConnectionState(t) ELSE tunnel' = u /\ UNCHANGED signals
    BY <1>10, <2>1 DEF reconnectToVpn
  <2> HIDE DEF u
  <2>4. CASE tunnel.st = "connected"
    <3>1. "reconnecting" \in TunnelStates BY DEF TunnelStates
    <3>2. t \in TunnelType /\ t.st = "reconnecting" BY <1>1, <2>2, <3>1, StartsTyped
    <3> HIDE DEF t
    <3> QED BY <2>3, <2>4, <3>2, TunnelMoves
  <2>5. CASE tunnel.st # "connected" BY <2>3, <2>5, <1>1, <2>2, GuardMoves DEF ElseTunnel, GuardianInv
  <2> QED BY <2>4, <2>5
<1> QED BY <1>3, <1>4, <1>5, <1>6, <1>7, <1>8, <1>9, <1>10 DEF TunnelStep

\* A recovery is answered: at most its flight ends.
LEMMA InFlightDoes ==
    ASSUME NEW g \in GuardType
    PROVE  LET r == InFlightAnswered(g)
           IN /\ r \in GuardType /\ r.st = g.st /\ r.epoch = g.epoch
              /\ r.health = g.health /\ r.of = g.of /\ r.probe = g.probe
<1>1. InFlightAnswered(g) \in {g, finishGuardianRecovery(g, TRUE), finishGuardianRecovery(g, FALSE)}
  BY DEF InFlightAnswered
<1>2. ASSUME NEW b \in BOOLEAN, InFlightAnswered(g) = finishGuardianRecovery(g, b)
      PROVE  LET r == InFlightAnswered(g)
             IN /\ r \in GuardType /\ r.st = g.st /\ r.epoch = g.epoch
                /\ r.health = g.health /\ r.of = g.of /\ r.probe = g.probe BY <1>2, FinishRecoveryDoes
<1> QED BY <1>1, <1>2

\* A heard state replaces the verdict and ends the probe, except that a probe is
\* not looked for on a connection that begins and a verdict is kept through the
\* reconnection of a recovery.
LEMMA StateHandlerDoes ==
    ASSUME NEW g \in GuardType, g.spared = (g.st = "reconnecting" /\ g.flight.on), g.st = "connected" => ~g.probe.on
    PROVE  LET r == StateHandler(g)
           IN GuardOK(r, FALSE) /\ r.st = g.st /\ r.epoch = g.epoch
<1> DEFINE r == StateHandler(g)
           c == cancelGuardianConnectivityProbe(g)
<1>1. Frame(g, c) /\ c.health = g.health /\ c.probe = NoProbe BY CancelGuardianDoes
<1>3. \A h \in HealthStates :
        LET u == recordHealthState(c, h) IN Frame(c, u) /\ u.health = h /\ u.probe = NoProbe
  BY <1>1, RecordHealthDoes DEF Frame
<1>4. "unknown" \in HealthStates /\ "recovering" \in HealthStates /\ "unhealthy" \in HealthStates BY DEF HealthStates
<1>5. CASE g.st = "connected"
  BY <1>4, RecordHealthDoes, <1>5, ScheduleDoes, SMTT(30) DEF StateHandler, r, SameVerdict, Frame, GuardOK, HealthOK,
    ProbeOK
<1>6. CASE g.st = "reconnecting"
  BY <1>6, <1>1, RestTyped, <1>3, <1>4 DEF StateHandler, Frame, GuardOK, HealthOK, ProbeOK, r
<1>7. CASE g.st = "error"
  BY <1>3, <1>4, EvaluateDoes, <1>7, <1>1, RestTyped DEF Frame, StateHandler, SameVerdict, GuardOK, HealthOK, ProbeOK, r
<1>8. CASE g.st \notin {"connected", "reconnecting", "error"}
  BY <1>3, <1>4, <1>8, <1>1, RestTyped DEF StateHandler, Frame, GuardOK, HealthOK, ProbeOK, r
<1> QED BY <1>5, <1>6, <1>7, <1>8

\* The guardian hears where the worker is.
LEMMA HearHolds ==
    ASSUME GuardianInv, HearEpoch \/ HearState PROVE GuardianInv'
<1>1. /\ tunnel \in TunnelType /\ rules \in RulesType /\ guard \in GuardType /\ SignalsOK(signals, tunnel, guard)
      /\ signals \in Seq(SignalType) /\ ProbeOK(guard, StateNext(signals)) /\ ShownOK
  BY DEF GuardianInv, GuardOK, SignalsOK
<1>2. signals # <<>> /\ tunnel' = tunnel /\ rules' = rules /\ shown' = shown /\ signals' = Tail(signals)
  BY DEF HearEpoch, HearState
<1>3. Head(signals) = signals[1] BY <1>1, <1>2, SignalsTail
<1>4. ShownOK' BY <1>1, <1>2 DEF ShownOK
<1>5. CASE HearEpoch
  <2>1. guard' = [guard EXCEPT !.epoch = signals[1].epoch] /\ ~IsState(signals[1])
    BY <1>3, <1>5 DEF HearEpoch, IsState
  <2>2. guard'.st = guard.st /\ guard'.epoch = signals[1].epoch /\ guard'.flight = guard.flight
        /\ guard'.spared = guard.spared /\ guard'.probe = guard.probe BY <1>1, <2>1 DEF GuardType
  <2>3. SignalsOK(Tail(signals), tunnel, guard') /\ StateNext(Tail(signals)) /\ signals[1].epoch \in Nat
    BY <1>1, <1>2, <2>1, <2>2, SignalsEpochHeard
  <2>4. guard' \in GuardType BY <1>1, <2>1, <2>3 DEF GuardType
  <2> QED BY <1>1, <1>2, <1>4, <2>2, <2>3, <2>4 DEF GuardianInv, GuardOK, HealthOK, ProbeOK
<1>6. CASE HearState
  <2> DEFINE g == [guard EXCEPT !.st = signals[1].st]
             i == InFlightAnswered(g)
             f == [i EXCEPT !.spared = i.st = "reconnecting" /\ i.flight.on]
  <2>1. guard' = StateHandler(f) /\ IsState(signals[1]) BY <1>3, <1>6 DEF HearState, IsState
  <2>2. g.st = signals[1].st /\ g.epoch = guard.epoch /\ g.flight = guard.flight
        /\ g.spared = guard.spared /\ g.probe = guard.probe BY <1>1 DEF GuardType
  <2>3. /\ SignalsOK(Tail(signals), tunnel, g) /\ ~StateNext(Tail(signals))
        /\ signals[1].st \in TunnelStates /\ (signals[1].st = "connected" => guard.st # "connected")
    <3> HIDE DEF g
    <3> QED BY <1>1, <1>2, <2>1, <2>2, SignalsStateHeard
  <2>4. g \in GuardType BY <1>1, <2>3 DEF GuardType
  <2> HIDE DEF g
  <2>5. i \in GuardType /\ i.st = g.st /\ i.epoch = g.epoch /\ i.probe = g.probe BY <2>4, InFlightDoes
  <2> HIDE DEF i
  <2>6. /\ f \in GuardType /\ f.st = g.st /\ f.epoch = g.epoch /\ f.probe = g.probe
        /\ f.spared = (f.st = "reconnecting" /\ f.flight.on) BY <2>5 DEF GuardType
  <2> HIDE DEF f
  <2>7. f.st = "connected" => ~f.probe.on BY <1>1, <2>2, <2>3, <2>6 DEF ProbeOK
  <2>8. GuardOK(guard', FALSE) /\ guard'.st = f.st /\ guard'.epoch = f.epoch BY <2>1, <2>6, <2>7, StateHandlerDoes
  <2>9. SignalsOK(Tail(signals), tunnel, guard') BY <2>3, <2>6, <2>8 DEF SignalsOK
  <2> QED BY <1>1, <1>2, <1>4, <2>3, <2>8, <2>9 DEF GuardianInv, GuardOK, HealthOK, ProbeOK
<1> QED BY <1>5, <1>6

\* A probe's verdict is of its connection; so a step that at most ends the
\* probe or withdraws the verdict keeps the guardian in order.
LEMMA FinishedProbeOK ==
    ASSUME NEW g, NEW soon \in BOOLEAN, GuardOK(g, soon), g.probe.on
    PROVE  LET r == finishProbe(g)
           IN GuardOK(r, soon) /\ r.st = g.st /\ r.epoch = g.epoch
<1> DEFINE r == finishProbe(g)
<1>1. Frame(g, r) /\ r.of = g.probe.of /\ r.probe = NoProbe BY FinishProbeDoes DEF GuardOK
<1> HIDE DEF r
<1> QED BY <1>1, RestTyped DEF Frame, r, GuardOK, HealthOK, ProbeOK

\* An answer to the probe either ends it or is noted.
LEMMA CompletedProbeOK ==
    ASSUME NEW g, NEW soon \in BOOLEAN, GuardOK(g, soon), g.probe.on
    PROVE  LET r == completeProbeIfReady(g)
           IN GuardOK(r, soon) /\ r.st = g.st /\ r.epoch = g.epoch
<1> QED BY FinishedProbeOK DEF completeProbeIfReady

\* A probe that heard an answer is still the same probe.
LEMMA NotedProbeOK ==
    ASSUME NEW g, NEW soon \in BOOLEAN, NEW p \in ProbeType, GuardOK(g, soon),
           p.on = g.probe.on, p.of = g.probe.of
    PROVE  LET r == [g EXCEPT !.probe = p]
           IN GuardOK(r, soon) /\ r.st = g.st /\ r.epoch = g.epoch /\ r.probe = p
<1> DEFINE r == [g EXCEPT !.probe = p]
<1>1. g \in GuardType BY DEF GuardOK
<1>2. r \in GuardType BY <1>1 DEF GuardType
<1>3. r.st = g.st /\ r.epoch = g.epoch /\ r.probe = p /\ r.health = g.health /\ r.of = g.of
      /\ r.flight = g.flight /\ r.spared = g.spared BY <1>1 DEF GuardType
<1> HIDE DEF r
<1> QED BY <1>2, <1>3 DEF r, GuardOK, HealthOK, ProbeOK

\* A withdrawn verdict keeps the guardian in order.
LEMMA WithdrawnOK ==
    ASSUME NEW g, NEW soon \in BOOLEAN, GuardOK(g, soon)
    PROVE  LET r == recordHealthState(g, "unknown")
           IN GuardOK(r, soon) /\ r.st = g.st /\ r.epoch = g.epoch
<1> DEFINE r == recordHealthState(g, "unknown")
<1>1. Frame(g, r) /\ r.health = "unknown" /\ r.probe = g.probe BY RecordHealthDoes DEF GuardOK, HealthStates
<1> HIDE DEF r
<1> QED BY <1>1 DEF Frame, r, GuardOK, HealthOK, ProbeOK

\* So does anything that leaves the verdict and the probe alone.
LEMMA SameVerdictOK ==
    ASSUME NEW g, NEW r, NEW soon \in BOOLEAN, GuardOK(g, soon), SameVerdict(g, r)
    PROVE  GuardOK(r, soon) /\ r.st = g.st /\ r.epoch = g.epoch
BY DEF SameVerdict, Frame, GuardOK, HealthOK, ProbeOK

\* The guardian's own steps.
LEMMA GuardStepHolds ==
    ASSUME GuardianInv, GuardStep PROVE GuardianInv'
<1> DEFINE soon == StateNext(signals)
           Fine(r) == GuardOK(r, soon) /\ r.st = guard.st /\ r.epoch = guard.epoch
<1>1. GuardOK(guard, soon) /\ guard \in GuardType /\ tunnel \in TunnelType /\ rules \in RulesType /\ soon \in BOOLEAN
  BY DEF GuardianInv, GuardOK, StateNext
<1>2. ASSUME Fine(guard'), ElseGuard PROVE GuardianInv' BY <1>2, <1>1, GuardMoves DEF ElseGuard
<1> HIDE DEF soon
<1>3. Fine(guard) BY <1>1
<1>4. Fine(recordHealthState(guard, "unknown")) BY <1>1, WithdrawnOK
<1>5. ASSUME NEW g, Fine(g) PROVE Fine(scheduleGuardianConnectivityProbe(g))
  BY <1>5, ScheduleDoes, <1>1, SameVerdictOK DEF GuardOK
<1>6. CASE HearEpoch \/ HearState BY <1>6, HearHolds
<1>7. CASE HintChanged BY <1>7, <1>2, <1>4, <1>5 DEF HintChanged
<1>8. CASE PeriodicProbe BY <1>8, <1>2, <1>3, <1>5 DEF PeriodicProbe
<1>9. ASSUME NEW a \in asks, RequestSnapshot(a) \/ AnswerSnapshot(a) PROVE GuardianInv'
  BY <1>9, <1>2, <1>3 DEF RequestSnapshot, AnswerSnapshot
<1>10. ASSUME NEW a \in asks, UseSnapshot(a) PROVE GuardianInv'
  <2>1. ElseGuard BY <1>10 DEF UseSnapshot
  <2>2. CASE guard' = guard BY <1>2, <1>3, <2>1, <2>2
  <2>3. CASE guard' = recordHealthState(guard, "unknown") BY <1>2, <1>4, <2>1, <2>3
  <2>4. ASSUME Wanted(a), SnapshotCurrent(a.snap), NEW literal \in BOOLEAN, NEW https \in BOOLEAN, NEW direct \in BOOLEAN,
               guard' = startConnectivityProbe(guard, literal, https, direct, a.snap.epoch)
        PROVE  GuardianInv'
    <3>1. guard.st = "connected" /\ a.snap.epoch = guard.epoch /\ guard.epoch \in Nat
      BY <1>1, <2>4 DEF Wanted, SnapshotCurrent, GuardType
    <3>2. /\ Frame(guard, guard') /\ guard'.health \in {guard.health, "unknown"}
          /\ guard'.health = "healthy" => guard'.of = guard.of
          /\ guard'.probe.on => guard'.probe.of = guard.epoch BY <1>1, <2>4, <3>1, StartProbeDoes
    <3> QED BY <1>1, <1>2, <2>1, <3>1, <3>2 DEF Frame, GuardOK, HealthOK, ProbeOK
  <2> QED BY <1>10, <2>2, <2>3, <2>4 DEF UseSnapshot
<1>11. CASE DnsAnswer
  BY <1>11, <1>1, NotedProbeOK, CompletedProbeOK, <1>2 DEF DnsAnswer, ElseProbe, GuardType, ProbeType
<1>12. CASE ReplyFinished
  <2>1. PICK x \in {"ok", "bad"}, tls \in BOOLEAN, timedOut \in BOOLEAN, latency \in {"good", "slow", "critical"} :
          LET n == [guard EXCEPT !.probe.egress = x, !.probe.origin = x = "ok" /\ guard.probe.https /\ tls,
                                 !.probe.quality = IF x = "ok" THEN latency ELSE @]
          IN guard' = IF timedOut THEN finishProbe(n) ELSE completeProbeIfReady(n) BY <1>12 DEF ReplyFinished
  <2>2. guard.probe.on /\ ElseGuard BY <1>12 DEF ReplyFinished, ElseProbe
  <2> DEFINE p == [guard.probe EXCEPT !.egress = x, !.origin = x = "ok" /\ guard.probe.https /\ tls,
                                      !.quality = IF x = "ok" THEN latency ELSE @]
             g == [guard EXCEPT !.probe = p]
  <2>3. p \in ProbeType /\ p.on = guard.probe.on /\ p.of = guard.probe.of BY <1>1 DEF GuardType, ProbeType
  <2>4. guard' \in {finishProbe(g), completeProbeIfReady(g)} BY <1>1, <2>1 DEF GuardType
  <2> HIDE DEF p
  <2>5. GuardOK(g, soon) /\ g.st = guard.st /\ g.epoch = guard.epoch /\ g.probe = p BY <1>1, <2>3, NotedProbeOK
  <2> HIDE DEF g
  <2>6. GuardOK(guard', soon) /\ guard'.st = g.st /\ guard'.epoch = g.epoch
    BY <1>1, <2>2, <2>3, <2>4, <2>5, FinishedProbeOK, CompletedProbeOK
  <2> QED BY <1>2, <2>2, <2>5, <2>6
<1>13. CASE ProbeTimeout BY <1>13, <1>1, FinishedProbeOK, <1>2 DEF ProbeTimeout, ElseProbe
<1>14. CASE ProbeStale BY <1>14, <1>2, <1>4 DEF ProbeStale, ElseProbe
<1>15. CASE requestPendingRecovery
  <2> DEFINE m == [guard.mend EXCEPT !.asked = TRUE]
             g == [guard EXCEPT !.mend = m]
             f == [on |-> TRUE, conn |-> g.epoch, epoch |-> g.mend.epoch]
  <2>1. /\ handleGuardianRecoveryRequest(g) /\ guard.mend.action # 0
        /\ signals' = signals /\ rules' = rules /\ shown' = shown BY <1>15 DEF requestPendingRecovery
  <2>2. m \in MendType /\ m.action = guard.mend.action BY <1>1 DEF GuardType, MendType
  <2> HIDE DEF m
  <2>3. g \in GuardType /\ g.mend = m BY <1>1, <2>2 DEF GuardType
  <2>4. SameVerdict(guard, g) BY <1>1, <2>3 DEF GuardType, SameVerdict, Frame
  <2> HIDE DEF g
  <2>5. Fine(g) BY <1>1, <2>4, SameVerdictOK
  <2>6. CASE guard' = acknowledgeRecoveryResult(g, FALSE, g.mend.epoch) /\ tunnel' = tunnel
    <3>1. SameVerdict(g, guard') BY <2>3, <2>6, AcknowledgeDoes
    <3>2. Fine(guard') BY <1>1, <2>5, <3>1, SameVerdictOK
    <3> QED BY <1>1, <2>1, <2>6, <3>2, GuardMoves DEF soon
  <2>7. CASE SuggestionCurrent(g) /\ guard' = [g EXCEPT !.flight = f] /\ tunnel' = [tunnel EXCEPT !.reconnects = @ + 1]
    <3>2. f \in FlightType BY <2>2, <2>3 DEF FlightType, GuardType, MendType
    <3> HIDE DEF f
    <3>6. PICK n \in Nat : n = tunnel.reconnects + 1 BY <1>1 DEF TunnelType
    <3> QED
      BY <1>1, <2>1, <2>2, <2>3, <2>5, <2>7, <3>2, <3>6, GuardMoves DEF soon, TunnelType, GuardOK, HealthOK, ProbeOK, SuggestionCurrent, NoSuggestion, GuardType
  <2> QED BY <2>1, <2>6, <2>7 DEF handleGuardianRecoveryRequest
<1>16. CASE RecoveryDeadline
  <2>1. guard' = finishGuardianRecovery(guard, FALSE) /\ ElseGuard BY <1>16 DEF RecoveryDeadline, ElseProbe
  <2>2. /\ guard' \in GuardType /\ ~guard'.flight.on /\ guard'.st = guard.st /\ guard'.epoch = guard.epoch
        /\ guard'.health = guard.health /\ guard'.of = guard.of /\ guard'.probe = guard.probe
        /\ guard'.spared = guard.spared BY <1>1, <2>1, FinishRecoveryDoes
  <2>3. GuardOK(guard', soon) BY <1>1, <2>2 DEF GuardOK, HealthOK, ProbeOK
  <2> QED BY <1>2, <2>1, <2>2, <2>3
<1>17. CASE CooledDown
  <2>1. guard' = [guard EXCEPT !.cooling = FALSE] /\ ElseGuard BY <1>17 DEF CooledDown, ElseProbe
  <2>2. SameVerdict(guard, guard') BY <1>1, <2>1 DEF SameVerdict, Frame, GuardType
  <2> QED BY <1>1, <1>2, <2>1, <2>2, SameVerdictOK
<1>18. CASE pruneRecoveryAttempts
  BY <1>18, <1>1, <1>2, SameVerdictOK DEF pruneRecoveryAttempts, ElseProbe, GuardType, SameVerdict, Frame
<1>19. CASE UserResetsPolicy
  <2>1. guard' = resetRecoveryPolicy(guard) /\ ElseGuard BY <1>19 DEF UserResetsPolicy, ElseProbe
  <2>2. SameVerdict(guard, guard')
    BY <1>1, <2>1, RestTyped DEF SameVerdict, Frame, GuardType, resetRecoveryPolicy
  <2> QED BY <1>1, <1>2, <2>1, <2>2, SameVerdictOK
<1> QED BY <1>6, <1>7, <1>8, <1>9, <1>10, <1>11, <1>12, <1>13, <1>14, <1>15, <1>16, <1>17, <1>18, <1>19 DEF GuardStep

\* What an answer says of a set of addresses it says of each of them.
LEMMA AggregateDoes ==
    ASSUME NEW s, NEW as, NEW a \in as, AggregateRoute(s, as) \in {"vpn", "direct"}
    PROVE  AddressDecision(s, a) = AggregateRoute(s, as)
<1> DEFINE R == {AddressDecision(s, b) : b \in as}
           r == AggregateRoute(s, as)
           x == AddressDecision(s, a)
<1>1. as # {} /\ "unknown" \notin R /\ ~(Cardinality(R) > 1) /\ r = (CHOOSE y \in R : TRUE) BY DEF AggregateRoute
<1>2. x \in R OBVIOUS
<1>3. \A b \in as : AddressDecision(s, b) \in {"unknown", "vpn", "direct"} BY DEF AddressDecision
<1> HIDE DEF R, r, x
<1>6. SUFFICES ASSUME x # r PROVE FALSE BY DEF r, x
<1>8. Cardinality({"vpn", "direct"}) = 2
  <2>1. Cardinality({"vpn"}) = 1 /\ IsFiniteSet({"vpn"}) BY FS_Singleton
  <2>2. {"vpn", "direct"} = {"vpn"} \cup {"direct"} /\ "direct" \notin {"vpn"} OBVIOUS
  <2> QED BY <2>1, <2>2, FS_AddElement
<1> QED BY <1>1, <1>2, <1>3, <1>6, <1>8

\* A new result is an answer about its receipt.
LEMMA PublishedOK ==
    ASSUME NEW gen, NEW s, NEW as, NEW examined, publishResult(gen, resultFor(s, as, examined))
    PROVE  ShownOK'
<1>1. CASE ~s.ready BY <1>1 DEF publishResult, resultFor, Unanswered, NotShown, ShownOK
<1>2. CASE s.ready
  <2> DEFINE Says(a) == IF a = Endpoint THEN "direct" ELSE IF a = Protected THEN "vpn"
                        ELSE IF s.mode = "except" THEN "direct" ELSE "vpn"
  <2>1. /\ shown'.applied = SnapshotAuthoritative(s) /\ shown'.route \in {AggregateRoute(s, as), "unknown"}
        /\ shown'.addresses = as /\ shown'.of = s BY <1>2 DEF publishResult, resultFor, NotShown
  <2> SUFFICES ASSUME SnapshotAuthoritative(s), AggregateRoute(s, as) \in {"vpn", "direct"}, NEW a \in as
               PROVE  /\ a # Endpoint /\ s.mode # "all" => a \in s.routes
                      /\ AggregateRoute(s, as) = Says(a)
    BY <2>1 DEF ShownOK
  <2>2. AddressDecision(s, a) \in {"vpn", "direct"} /\ AddressDecision(s, a) = AggregateRoute(s, as) BY AggregateDoes
  <2>3. ReceiptConfirmed(s) /\ s.connected BY DEF SnapshotAuthoritative, ReceiptConfirmed
  <2>4. s.mode # "all" => a \in s.routes
    BY <2>2, <2>3 DEF AddressDecision, DecisionRouteMode, ReceiptAnswersLocal, inspectRules, MatchingRules
  <2>5. AddressDecision(s, a) = Says(a)
    BY <2>2, <2>3, <2>4 DEF AddressDecision, DecisionRouteMode, ReceiptAnswersLocal, inspectRules, MatchingRules
  <2> QED BY <2>2, <2>4, <2>5
<1> QED BY <1>1, <1>2

\* The inspector's steps.
LEMMA InspectStepHolds ==
    ASSUME GuardianInv, InspectStep PROVE GuardianInv'
<1>2. ShownOK'
  <2>1. CASE shown' = shown BY <2>1 DEF GuardianInv, ShownOK
  <2>2. CASE LookupTimeout BY <2>2 DEF LookupTimeout, publishResult, Unanswered, NotShown, ShownOK
  <2>3. CASE SnapshotCompleted BY <2>3, PublishedOK DEF SnapshotCompleted
  <2> QED BY <2>1, <2>2, <2>3 DEF InspectStep, inspectHost, LookupFinished, requestResultWithSnapshot
<1> QED
  BY <1>2 DEF GuardianInv, SignalsOK, GuardOK, HealthOK, ProbeOK, InspectStep, inspectHost, LookupFinished,
    LookupTimeout, requestResultWithSnapshot, SnapshotCompleted, ElseInspect

\* What the guardian and the inspector show of the connection is so, for any
\* sites, policies, connections, probes and questions (VerdictsAreTrue).
THEOREM VerdictsHold == GuardianSpec => []VerdictsAreTrue
<1>1. GuardianInit => GuardianInv BY GuardianInitHolds
<1>2. GuardianInv /\ [TunnelStep \/ GuardStep \/ InspectStep]_guardianVars => GuardianInv'
  BY TunnelStepHolds, GuardStepHolds, InspectStepHolds DEF guardianVars, GuardianInv, ShownOK
<1>3. GuardianInv => VerdictsAreTrue BY GuardianInvImplies
<1> QED BY <1>1, <1>2, <1>3, PTL DEF GuardianSpec
-----------------------------------------------------------------------------
(***************************************************************************)
(* StoredOnce, for any number of files, receipts, tokens and failures, and *)
(* whatever either producer sends: only the collector changes its store.   *)
(***************************************************************************)

\* A table of the store is a sequence over its own entries; it is distinct when no
\* entry has the batch of another one.
Table(s) == s \in Seq(ToSet(s))
Distinct(s) == \A i, j \in 1..Len(s) : s[i].batch = s[j].batch => i = j

\* A sequence is one over its own entries.
LEMMA OverOwn ==
  ASSUME NEW S, NEW s \in Seq(S)
  PROVE  Table(s) /\ Len(s) \in Nat /\ ToSet(s) = {s[i] : i \in 1..Len(s)}
<1>1. DOMAIN s = 1..Len(s) /\ Len(s) \in Nat OBVIOUS
<1>2. ToSet(s) = {s[i] : i \in 1..Len(s)} BY <1>1 DEF ToSet
<1> QED BY <1>1, <1>2 DEF Table

\* An end of a table is one, and keeps it distinct (Newest).
LEMMA EndOfTable ==
  ASSUME NEW s, Table(s), NEW n \in Nat
  PROVE  /\ Table(Newest(s, n)) /\ Len(Newest(s, n)) \in Nat
         /\ ToSet(Newest(s, n)) \subseteq ToSet(s)
         /\ Distinct(s) => Distinct(Newest(s, n))
<1>1. s \in Seq(ToSet(s)) /\ Len(s) \in Nat BY DEF Table
<1>2. CASE Len(s) > n
  <2> DEFINE t == SubSeq(s, Len(s) - n + 1, Len(s))
  <2>1. /\ t \in Seq(ToSet(s)) /\ Len(t) = n
        /\ \A i \in 1..n : t[i] = s[Len(s) - n + i] /\ Len(s) - n + i \in 1..Len(s) BY <1>1, <1>2
  <2>2. Newest(s, n) = t BY <1>2 DEF Newest
  <2> HIDE DEF t
  <2>3. ASSUME Distinct(s) PROVE Distinct(t)
    <3> SUFFICES ASSUME NEW i \in 1..n, NEW j \in 1..n, t[i].batch = t[j].batch PROVE i = j
      BY <2>1 DEF Distinct
    <3>1. s[Len(s) - n + i].batch = s[Len(s) - n + j].batch BY <2>1
    <3>2. Len(s) - n + i = Len(s) - n + j BY <2>1, <2>3, <3>1 DEF Distinct
    <3> QED BY <1>1, <3>2
  <2>4. ToSet(t) = {t[i] : i \in 1..n} /\ Table(t) BY <2>1, OverOwn, ZenonT(40)
  <2> QED BY <1>1, <2>1, <2>2, <2>3, <2>4
<1>3. CASE ~(Len(s) > n) BY <1>1, <1>3 DEF Newest
<1> QED BY <1>2, <1>3

\* So is what is left when its oldest entry expires (Maintenance).
LEMMA TailOfTable ==
  ASSUME NEW s, Table(s), 1 \in 1..Len(s)
  PROVE  Table(Tail(s)) /\ (Distinct(s) => Distinct(Tail(s)))
<1>1. s \in Seq(ToSet(s)) /\ Len(s) \in Nat /\ s # <<>> BY DEF Table
<1>2. /\ Tail(s) \in Seq(ToSet(s)) /\ Len(Tail(s)) = Len(s) - 1
      /\ \A i \in 1..Len(s) - 1 : Tail(s)[i] = s[i + 1] BY <1>1
<1>3. Distinct(s) => Distinct(Tail(s)) BY <1>1, <1>2 DEF Distinct
<1> QED BY <1>2, <1>3, OverOwn

\* A new entry makes a table; one whose batch is new keeps it distinct.
LEMMA AppendToTable ==
  ASSUME NEW s, Table(s), NEW e
  PROVE  /\ Table(Append(s, e))
         /\ Distinct(s) /\ (\A x \in ToSet(s) : x.batch # e.batch) => Distinct(Append(s, e))
<1> DEFINE S == ToSet(s) \cup {e}
<1>1. s \in Seq(S) /\ Len(s) \in Nat /\ e \in S BY DEF Table
<1> HIDE DEF S
<1>2. /\ Append(s, e) \in Seq(S) /\ Len(Append(s, e)) = Len(s) + 1
      /\ \A i \in 1..Len(s) : Append(s, e)[i] = s[i]
      /\ Append(s, e)[Len(s) + 1] = e BY <1>1
<1>4. Distinct(s) /\ (\A x \in ToSet(s) : x.batch # e.batch) => Distinct(Append(s, e))
  BY <1>1, <1>2, OverOwn DEF Distinct
<1> QED BY <1>2, <1>4, OverOwn

\* The fields of a store that has been changed in one of them.
LEMMA StoreFields ==
  ASSUME NEW c, c = [token |-> c.token, files |-> c.files, receipts |-> c.receipts, ever |-> c.ever],
         NEW f, NEW r, NEW t, NEW e
  PROVE  /\ [c EXCEPT !.files = f] =
                [token |-> c.token, files |-> f, receipts |-> c.receipts, ever |-> c.ever]
         /\ [c EXCEPT !.receipts = r] =
                [token |-> c.token, files |-> c.files, receipts |-> r, ever |-> c.ever]
         /\ [c EXCEPT !.token = t] =
                [token |-> t, files |-> c.files, receipts |-> c.receipts, ever |-> c.ever]
         /\ [c EXCEPT !.files = f, !.ever = e] =
                [token |-> c.token, files |-> f, receipts |-> c.receipts, ever |-> e]
<1> DEFINE D == {"token", "files", "receipts", "ever"}
<1>1. DOMAIN c = D /\ c = [x \in D |-> c[x]] OBVIOUS
<1>2. [c EXCEPT !.files = f] = [token |-> c.token, files |-> f, receipts |-> c.receipts, ever |-> c.ever] BY <1>1
<1>5. [c EXCEPT !.files = f, !.ever = e] =
          [token |-> c.token, files |-> f, receipts |-> c.receipts, ever |-> e]
  <2> DEFINE g == [token |-> c.token, files |-> f, receipts |-> c.receipts, ever |-> c.ever]
  <2>1. [g EXCEPT !.ever = e] = [token |-> c.token, files |-> f, receipts |-> c.receipts, ever |-> e] OBVIOUS
  <2>2. [c EXCEPT !.files = f, !.ever = e] = [[c EXCEPT !.files = f] EXCEPT !.ever = e] OBVIOUS
  <2> QED BY <1>2, <2>1, <2>2
<1> QED BY <1>1, <1>2, <1>5

\* A store in order.
InOrder(c) ==
  /\ c = [token |-> c.token, files |-> c.files, receipts |-> c.receipts, ever |-> c.ever]
  /\ Table(c.files) /\ Table(c.receipts) /\ Distinct(c.files)

\* Steps that keep the files, or some of the newest.
LEMMA KeptSteps ==
  ASSUME NEW c, InOrder(c), NEW req
  PROVE  /\ InOrder(Record(c, req)) /\ InOrder(Reserve(c)) /\ InOrder(PruneClient(c))
         /\ ToSet(Reserve(c).files) \subseteq ToSet(c.files)
<1>1. MaxFiles - 1 \in Nat /\ MaxFiles \in Nat /\ MaxReceipts \in Nat BY CollectorAssumption
<1> DEFINE r == Newest(Append(c.receipts, [batch |-> req.batch, body |-> req.body]), MaxReceipts)
           f == Newest(c.files, MaxFiles - 1)
           g == Newest(c.files, MaxFiles)
<1>2. Table(r) BY <1>1, AppendToTable, EndOfTable DEF InOrder
<1>3. Table(f) /\ Distinct(f) /\ ToSet(f) \subseteq ToSet(c.files) /\ Table(g) /\ Distinct(g)
  BY <1>1, EndOfTable DEF InOrder
<1>4. Record(c, req) = [c EXCEPT !.receipts = r] BY DEF Record
<1>5. Reserve(c) = [c EXCEPT !.files = f] /\ PruneClient(c) = [c EXCEPT !.files = g] BY DEF Reserve, PruneClient
<1> HIDE DEF r, f, g
<1>6. Record(c, req) = [token |-> c.token, files |-> c.files, receipts |-> r, ever |-> c.ever]
  BY <1>4, StoreFields DEF InOrder
<1>7. /\ Reserve(c) = [token |-> c.token, files |-> f, receipts |-> c.receipts, ever |-> c.ever]
      /\ PruneClient(c) = [token |-> c.token, files |-> g, receipts |-> c.receipts, ever |-> c.ever]
  BY <1>5, StoreFields DEF InOrder
<1> QED BY <1>2, <1>3, <1>6, <1>7 DEF InOrder

\* The rename of a batch that no file has.
LEMMA KeptRename ==
  ASSUME NEW c, InOrder(c), NEW req, \A x \in ToSet(c.files) : x.batch # req.batch
  PROVE  InOrder(Rename(c, req))
<1> DEFINE f == Append(c.files, Stored(req))
           e == c.ever \cup req.cells
<1>2. Table(f) /\ Distinct(f) BY AppendToTable DEF InOrder, Stored
<1>3. Rename(c, req) = [c EXCEPT !.files = f, !.ever = e] BY DEF Rename
<1> HIDE DEF f, e
<1>4. Rename(c, req) = [token |-> c.token, files |-> f, receipts |-> c.receipts, ever |-> e]
  BY <1>3, StoreFields DEF InOrder
<1> QED BY <1>2, <1>4 DEF InOrder

\* An upload leaves the store in order, however far it got.
LEMMA UploadKeeps ==
  ASSUME NEW c, InOrder(c), NEW req, NEW o \in Upload(c, req)
  PROVE  InOrder(o.col)
<1>1. CASE o = Outcome(c, 403) BY <1>1 DEF Outcome
<1>2. CASE o \in Replay(c, req) BY <1>2, KeptSteps DEF Replay, Outcome
<1>3. CASE Receipt(c, req.batch) \cup LogFiles(c, req.batch) = {} /\ o \in Store(c, req)
  <2> DEFINE renamed == Rename(Reserve(c), req)
             stored == PruneClient(Record(renamed, req))
  <2>2. InOrder(Reserve(c)) /\ \A x \in ToSet(Reserve(c).files) : x.batch # req.batch BY <1>3, KeptSteps DEF LogFiles
  <2>3. InOrder(renamed) BY <2>2, KeptRename
  <2>4. o.col \in {c, Reserve(c), renamed, stored} BY <1>3 DEF Store, Outcome
  <2> HIDE DEF renamed
  <2> QED BY <2>2, <2>3, <2>4, KeptSteps
<1> QED BY <1>1, <1>2, <1>3 DEF Upload

\* Only the collector touches its store; retention takes the oldest entries.
LEMMA StoreKept ==
  ASSUME InOrder(col), [Next]_vars
  PROVE  InOrder(col')
<1>1. CASE Serve \/ ServeLate BY <1>1, UploadKeeps DEF Serve, ServeLate
<1>2. CASE Upkeep
  <2>1. CASE \E t : col' = [col EXCEPT !.token = t] BY <2>1, StoreFields DEF InOrder
  <2>2. CASE 1 \in 1..Len(col.files) /\ col' = [col EXCEPT !.files = Tail(col.files)]
    <3>1. Table(Tail(col.files)) /\ Distinct(Tail(col.files)) BY <2>2, TailOfTable DEF InOrder
    <3> QED BY <2>2, <3>1, StoreFields DEF InOrder
  <2>3. CASE 1 \in 1..Len(col.receipts) /\ col' = [col EXCEPT !.receipts = Tail(col.receipts)]
    <3>1. Table(Tail(col.receipts)) BY <2>3, TailOfTable DEF InOrder
    <3> QED BY <2>3, <3>1, StoreFields DEF InOrder
  <2> QED BY <1>2, <2>1, <2>2, <2>3 DEF Upkeep, Maintenance, Rotate
<1>3. CASE UploaderStep \/ ClientCrash \/ Tunnel
  <2>1. UNCHANGED col
    BY <1>3 DEF UploaderStep, ClientCrash, Tunnel, Trigger, ContextChanged, SnapshotFailed, NotConnected, NeedToken,
      CollectAll, CollectSome, Collect, BootstrapAnswer, Arm, MoveCursor, HeartbeatAcked, Refused, UploadFailed
  <2> QED BY <2>1
<1>4. CASE \E k \in Logs : Write(k) \/ RotateLog(k) BY <1>4 DEF Write, RotateLog
<1>5. CASE HeadlessNext
  BY <1>5 DEF HeadlessNext, PollerStep, PollBootstrap, BootstrapReply, Poll, PostReply, Import, Restart, Grow, Replace
<1>6. CASE UNCHANGED vars BY <1>6 DEF vars, collectorVars
<1> QED
  BY <1>1, <1>2, <1>3, <1>4, <1>5, <1>6 DEF Next, DesktopStep, DaemonStep, StoreStep, LogUploaderNext, CollectorStep

\* A batch is stored once, for any limits and any number of failures: whatever
\* is retried, delayed or sent again after a crash finds the file or the
\* receipt of the first time (Upload).
THEOREM BatchesAreStoredOnce == Spec => []StoredOnce
<1>1. Init => InOrder(col)
  <2> SUFFICES ASSUME Init PROVE InOrder(col) OBVIOUS
  <2>2. Table(<<>>) /\ Distinct(<<>>)
    <3>1. <<>> \in Seq({}) /\ Len(<<>>) = 0 OBVIOUS
    <3>2. Table(<<>>) BY <3>1, OverOwn
    <3> QED BY <3>1, <3>2 DEF Distinct
  <2> QED BY <2>2 DEF InOrder, Init, CollectorInit
<1>2. InOrder(col) /\ [Next]_vars => InOrder(col)' BY StoreKept
<1>3. InOrder(col) => StoredOnce BY DEF InOrder, Distinct, StoredOnce
<1> QED BY <1>1, <1>2, <1>3, PTL DEF Spec
=============================================================================
