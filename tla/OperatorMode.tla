---------------------------- MODULE OperatorMode ----------------------------
(***************************************************************************)
(* The desktop application's processes (client/main, amneziaApplication):  *)
(* who owns the settings and the core, the local endpoint the owner        *)
(* listens on, and the operator commands another process of the same       *)
(* executable sends to it: status, watch, disconnect, doctor and           *)
(* routes-explain (core/utils/operatorCommand).                            *)
(*                                                                         *)
(* The owner's GUI thread answers commands from what it has heard of the   *)
(* VPN worker, another thread: queued state changes and snapshots it asks  *)
(* for.  A process may die at any step.                                    *)
(***************************************************************************)
EXTENDS Naturals, Sequences, FiniteSets, TLC

CONSTANTS Launchers,    \* processes that may run at the same time
          Paths,        \* installations of the executable: the endpoint is per path
          Hosts,        \* servers the worker connects to
          MaxPids,      \* bound: processes ever started
          MaxSessions,  \* bound: connections the worker opens
          MaxChanges    \* bound: state changes of the worker and edits of the settings

ASSUME OperatorAssumption ==
    /\ Launchers # {} /\ Paths # {} /\ Hosts # {}
    /\ {MaxPids, MaxSessions, MaxChanges} \subseteq Nat

NoPid == 0
NoHost == "none"

VARIABLES
    lock,     \* the pid in the settings-global lock file
    bound,    \* path -> the pid whose endpoint is in the file system
    proc,     \* the processes
    pids,     \* processes started so far
    worker,   \* the VPN worker of the process that runs the core
    inbox,    \* what the worker has queued for that process's GUI thread
    view,     \* m_operator*: what the GUI thread knows of the worker
    wants,    \* the routing settings
    client,   \* an operator command from another process
    stopping, \* operatorDisconnect in its nested event loop
    watch     \* an OperatorWatchSession in another process

processVars == <<lock, bound, proc, pids>>
workerVars == <<worker, inbox, view, wants>>
operatorVars == <<processVars, workerVars, client, stopping, watch>>

NoReceipt == [epoch |-> 0, host |-> NoHost, mode |-> "all", policy |-> 0, hit |-> FALSE]
Resting == [runs |-> FALSE, st |-> "disconnected", protocol |-> FALSE, host |-> NoHost, epoch |-> 0, next |-> "none",
            changes |-> 0, receipt |-> NoReceipt, disconnect |-> FALSE]
Unseen == [st |-> "disconnected", host |-> NoHost, known |-> FALSE, aged |-> FALSE,
           generation |-> 0, pending |-> FALSE, asked |-> FALSE, askedAt |-> 0]
NoCommand == [kind |-> "none"]
NotStopping == [on |-> FALSE]
NotWatching == [at |-> "off", path |-> "none", pid |-> NoPid, to |-> NoPid, story |-> {}, end |-> "none"]
Gone == [at |-> "off", path |-> "none", pid |-> NoPid, settings |-> FALSE]

OperatorInit ==
    /\ lock = NoPid /\ bound = [p \in Paths |-> NoPid] /\ pids = 0
    /\ proc = [l \in Launchers |-> Gone]
    /\ worker = Resting /\ inbox = <<>> /\ view = Unseen /\ wants = [mode |-> "all", policy |-> 0, edits |-> 0]
    /\ client = NoCommand /\ stopping = NotStopping /\ watch = NotWatching

-----------------------------------------------------------------------------
(* Start-up and teardown of a process. *)

Alive(pid) == \E l \in Launchers : proc[l].pid = pid /\ pid # NoPid
LauncherOf(pid) == IF Alive(pid) THEN (CHOOSE l \in Launchers : proc[l].pid = pid) ELSE "none"
Listening(path) == Alive(bound[path])
Serves(pid) == Alive(pid) /\ proc[LauncherOf(pid)].at = "running"
hasCoreOwnership(l) == lock = proc[l].pid
Becomes(l, stage) == proc' = [proc EXCEPT ![l].at = stage]
Exits(l) == proc' = [proc EXCEPT ![l] = Gone]
ElseProcess == UNCHANGED <<workerVars, client, stopping, watch>>

\* The lock of a process that is provably gone may be taken over.
acquireCoreOwnership(pid) ==
    IF lock = NoPid \/ ~Alive(lock) THEN lock' = pid ELSE UNCHANGED lock

\* The constructor: the lock before anything of the settings.
Launch(l, path) ==
    /\ proc[l].at = "off" /\ pids < MaxPids
    /\ pids' = pids + 1
    /\ acquireCoreOwnership(pids + 1)
    /\ proc' = [proc EXCEPT ![l] = [at |-> "launched", path |-> path, pid |-> pids + 1,
                                    settings |-> lock' = pids + 1]]
    /\ UNCHANGED bound /\ ElseProcess

\* requestPrimaryWindowRaise: a primary in its event loop answers, in time or not.
isTrustedPrimaryRunning(path) == IF Serves(bound[path]) THEN BOOLEAN ELSE {FALSE}

isAnotherInstanceRunning(l) ==
    /\ proc[l].at = "launched"
    /\ \E acknowledged \in isTrustedPrimaryRunning(proc[l].path) :
           Becomes(l, IF acknowledged THEN "leaving" ELSE "probed")
    /\ UNCHANGED <<lock, bound, pids>> /\ ElseProcess

\* Without the lock there is no endpoint; a file of a dead process is removed.
startLocalServer(l) ==
    /\ proc[l].at = "probed"
    /\ IF hasCoreOwnership(l) /\ ~Listening(proc[l].path)
       THEN Becomes(l, "starting") /\ bound' = [bound EXCEPT ![proc[l].path] = proc[l].pid]
       ELSE Becomes(l, "leaving") /\ UNCHANGED bound   \* raised the primary's window, or refused
    /\ UNCHANGED <<lock, pids>> /\ ElseProcess

\* --publish-bundled-updates-once: with the lock and without an endpoint.
PublishBundledUpdatesOnce(l) ==
    /\ proc[l].at = "launched"
    /\ Becomes(l, IF hasCoreOwnership(l) THEN "publishing" ELSE "leaving")
    /\ UNCHANGED <<lock, bound, pids>> /\ ElseProcess

\* parseCommands refuses the arguments, or only cleans the logs up.
parseCommands(l) ==
    /\ proc[l].at = "starting"
    /\ Becomes(l, "leaving")
    /\ UNCHANGED <<lock, bound, pids>> /\ ElseProcess

\* initVpnConnection and the core; the first snapshot is asked for at once.
init(l) ==
    /\ proc[l].at = "starting"
    /\ Becomes(l, "running")
    /\ worker' = [Resting EXCEPT !.runs = TRUE] /\ inbox' = <<>>
    /\ view' = [Unseen EXCEPT !.pending = TRUE, !.asked = TRUE]
    /\ UNCHANGED <<lock, bound, pids, wants, client, stopping, watch>>

\* Quitting ends the event loop; the destructor stops the worker first.
Quit(l) ==
    /\ proc[l].at \in {"running", "publishing"} /\ ~stopping.on
    /\ Becomes(l, "stopping")
    /\ UNCHANGED <<lock, bound, pids>> /\ ElseProcess

StopWorker(l) ==
    /\ proc[l].at = "stopping"
    /\ Becomes(l, "leaving")
    /\ worker' = Resting /\ inbox' = <<>> /\ view' = Unseen
    /\ UNCHANGED <<lock, bound, pids, wants, client, stopping, watch>>

CloseSettings(l) ==
    /\ proc[l].at = "leaving"
    /\ proc' = [proc EXCEPT ![l].at = "closed", ![l].settings = FALSE]
    /\ UNCHANGED <<lock, bound, pids>> /\ ElseProcess

Unbound(pid) == [p \in Paths |-> IF bound[p] = pid THEN NoPid ELSE bound[p]]

DeleteLocalServer(l) ==
    /\ proc[l].at = "closed"
    /\ bound' = Unbound(proc[l].pid)
    /\ Becomes(l, "unbound")
    /\ UNCHANGED <<lock, pids>> /\ ElseProcess

\* A teardown that gives the lock back before the settings are closed.
ReleaseOwnershipEarly(l) ==
    /\ proc[l].at \in {"leaving", "unbound"}
    /\ lock' = IF hasCoreOwnership(l) THEN NoPid ELSE lock
    /\ IF proc[l].at = "unbound" THEN Exits(l) ELSE UNCHANGED proc
    /\ UNCHANGED <<bound, pids>> /\ ElseProcess

ReleaseOwnership(l) ==
    /\ proc[l].at = "unbound"
    /\ lock' = IF hasCoreOwnership(l) THEN NoPid ELSE lock
    /\ Exits(l)
    /\ UNCHANGED <<bound, pids>> /\ ElseProcess

\* A crash, a kill, or qFatal when the worker does not stop: the lock file and
\* the endpoint's file stay behind.
Crash(l) ==
    /\ proc[l].at # "off"
    /\ Exits(l)
    /\ IF proc[l].at \in {"running", "stopping"}
       THEN worker' = Resting /\ inbox' = <<>> /\ view' = Unseen /\ stopping' = NotStopping
       ELSE UNCHANGED <<worker, inbox, view, stopping>>
    /\ UNCHANGED <<lock, bound, pids, wants, client, watch>>

ProcessStep ==
    \E l \in Launchers :
        \/ \E path \in Paths : Launch(l, path)
        \/ isAnotherInstanceRunning(l) \/ startLocalServer(l) \/ PublishBundledUpdatesOnce(l)
        \/ parseCommands(l) \/ init(l) \/ Quit(l) \/ StopWorker(l) \/ CloseSettings(l) \/ DeleteLocalServer(l)
        \/ ReleaseOwnership(l) \/ Crash(l)

-----------------------------------------------------------------------------
(* The worker's thread.  Its handlers change the connection first and      *)
(* announce the state last; a nested event loop in between may run a       *)
(* snapshot request.                                                       *)

Steady == worker.runs /\ worker.next = "none"
Changing == Steady /\ worker.changes < MaxChanges
ElseWorker == UNCHANGED <<processVars, wants, client, watch>>

ConnectToVpn(h) ==
    /\ Changing /\ worker.epoch < MaxSessions
    /\ worker' = [worker EXCEPT !.host = h, !.epoch = @ + 1, !.next = "connecting",
                                !.protocol = TRUE, !.changes = @ + 1]
    /\ UNCHANGED <<inbox, view, stopping>> /\ ElseWorker

\* What the protocol of the connection reports, and a reconnection.
ProtocolReports(st) ==
    /\ Changing /\ st # worker.st /\ worker.protocol /\ worker.st # "disconnected"
    /\ worker' = [worker EXCEPT !.next = st, !.changes = @ + 1]
    /\ UNCHANGED <<inbox, view, stopping>> /\ ElseWorker

\* disconnectFromVpn, queued to the worker: it lets go of the protocol and
\* announces that it is disconnecting.  With no protocol there is nothing to
\* stop, or nobody to prove that the tunnel went; a teardown that is on its way
\* swallows the request.
DisconnectFromVpn ==
    /\ Steady /\ worker.disconnect
    /\ \E st \in IF worker.protocol THEN {"disconnecting"}
                ELSE {"disconnected", "error"}
                     \cup (IF worker.st = "disconnecting" THEN {"none"} ELSE {}) :
          /\ st \in {"disconnected", "error"} => Changing
          /\ worker' = [worker EXCEPT !.disconnect = FALSE, !.protocol = FALSE, !.next = st,
                                      !.changes = IF st \in {"disconnected", "error"} THEN @ + 1 ELSE @]
    /\ UNCHANGED <<inbox, view, stopping>> /\ ElseWorker

\* The retired protocol's last report, or its deadline.
DisconnectEnds(st) ==
    /\ Steady /\ worker.st = "disconnecting"
    /\ worker' = [worker EXCEPT !.next = st]
    /\ UNCHANGED <<inbox, view, stopping>> /\ ElseWorker

\* setConnectionState: the receipts of the routes end with the connection; the
\* end of the old protocol is not announced while the worker reconnects.
SetConnectionState ==
    /\ worker.next # "none"
    /\ LET swallowed == worker.next = "disconnected" /\ worker.st = "reconnecting" IN
       /\ worker' = [worker EXCEPT !.st = IF swallowed THEN @ ELSE worker.next, !.next = "none",
                                   !.receipt = IF worker.next = "connected" THEN @ ELSE NoReceipt]
       /\ inbox' = IF swallowed THEN inbox
                   ELSE Append(inbox, [is |-> "state", st |-> worker.next, heard |-> stopping.on])
    /\ UNCHANGED <<view, stopping>> /\ ElseWorker

\* The service confirmed the managed routes of this connection.
ConfirmManagedRoutes(hit) ==
    /\ Steady /\ worker.st = "connected" /\ worker.receipt = NoReceipt
    /\ worker' = [worker EXCEPT !.receipt = [epoch |-> worker.epoch, host |-> worker.host,
                                 mode |-> wants.mode, policy |-> wants.policy, hit |-> hit]]
    /\ UNCHANGED <<inbox, view, stopping>> /\ ElseWorker

\* The user or the server's policy changes what routing should be.
EditRouting(mode, policy) ==
    /\ worker.runs /\ wants.edits < MaxChanges /\ <<mode, policy>> # <<wants.mode, wants.policy>>
    /\ wants' = [mode |-> mode, policy |-> policy, edits |-> wants.edits + 1]
    /\ UNCHANGED <<processVars, worker, inbox, view, client, stopping, watch>>

\* captureVpnSnapshot, run by the worker for a refresh the GUI asked for.
captureVpnSnapshot ==
    /\ worker.runs /\ view.asked
    /\ view' = [view EXCEPT !.asked = FALSE]
    /\ inbox' = Append(inbox, [is |-> "snapshot", st |-> worker.st, host |-> worker.host, of |-> view.askedAt])
    /\ UNCHANGED <<worker, stopping>> /\ ElseWorker

-----------------------------------------------------------------------------
(* The GUI thread's view of the worker. *)

requestOperatorVpnSnapshotRefresh(v) ==
    IF v.pending THEN v ELSE [v EXCEPT !.pending = TRUE, !.asked = TRUE, !.askedAt = v.generation]

HeardState(st) ==
    requestOperatorVpnSnapshotRefresh([view EXCEPT !.st = st, !.generation = @ + 1, !.known = FALSE])

HeardSnapshot(m) ==
    LET v == [view EXCEPT !.pending = FALSE] IN
    IF m.of # view.generation THEN requestOperatorVpnSnapshotRefresh(v)
    ELSE [v EXCEPT !.known = TRUE, !.aged = FALSE, !.st = m.st, !.host = m.host]

ProcessEvent ==
    /\ worker.runs /\ inbox # <<>>
    /\ LET m == Head(inbox) IN
       /\ view' = IF m.is = "state" THEN HeardState(m.st) ELSE HeardSnapshot(m)
       /\ stopping' = IF stopping.on /\ m.is = "state" /\ m.st = "disconnected" /\ m.heard
                      THEN [stopping EXCEPT !.heard = TRUE] ELSE stopping
    /\ inbox' = Tail(inbox)
    /\ UNCHANGED worker /\ ElseWorker

RefreshTimer ==
    /\ worker.runs /\ ~view.pending
    /\ view' = requestOperatorVpnSnapshotRefresh(view)
    /\ UNCHANGED <<worker, inbox, stopping>> /\ ElseWorker

\* operatorSnapshotStaleAfterMs since the last snapshot.
SnapshotAges ==
    /\ worker.runs /\ view.known /\ ~view.aged
    /\ view' = [view EXCEPT !.aged = TRUE]
    /\ UNCHANGED <<worker, inbox, stopping>> /\ ElseWorker

WorkerStep ==
    \/ \E h \in Hosts : ConnectToVpn(h)
    \/ \E st \in {"connected", "reconnecting", "error", "disconnected"} : ProtocolReports(st)
    \/ \E st \in {"disconnected", "error"} : DisconnectEnds(st)
    \/ DisconnectFromVpn \/ SetConnectionState
    \/ captureVpnSnapshot \/ ProcessEvent \/ RefreshTimer \/ SnapshotAges

RoutingStep ==
    \/ \E hit \in BOOLEAN : ConfirmManagedRoutes(hit)
    \/ \E mode \in {"all", "only", "except"}, policy \in {0, 1} : EditRouting(mode, policy)

-----------------------------------------------------------------------------
(* Operator commands: parsed before the application is built, forwarded to *)
(* the primary of the same path, or answered by the process itself when    *)
(* none can be reached within the retry window.                            *)

Commands == {"status", "disconnect", "doctor", "explain"}
Fresh == view.known /\ ~view.aged
Reply(kind, exit, claim, about) ==
    [kind |-> kind, at |-> "answered", exit |-> exit, claim |-> claim, about |-> about]
Silent(kind, exit) == Reply(kind, exit, "none", "none")
ElseClient == UNCHANGED <<processVars, worker, inbox, wants, watch>>

\* executeOperatorCommand without a worker: nothing is known of a tunnel.
RunsLocally(kind) ==
    CASE kind \in {"status", "disconnect"} -> Silent(kind, 4)
      [] kind = "doctor" -> Silent(kind, 0)
      [] OTHER -> Reply(kind, 0, "unknown", "none")

tryForwardOperatorCommand(kind, path) ==
    /\ client = NoCommand
    /\ client' = IF Listening(path) THEN [kind |-> kind, at |-> "sent", to |-> bound[path]]
                 ELSE RunsLocally(kind)
    /\ UNCHANGED <<view, stopping>> /\ ElseClient

\* The answer does not come: the primary went away or stays busy.
ForwardFails ==
    /\ client.kind # "none" /\ client.at \in {"sent", "waiting"}
    /\ client' = Silent(client.kind, 5)
    /\ UNCHANGED <<view, stopping>> /\ ElseClient

PrintAnswer ==
    /\ client.kind # "none" /\ client.at = "answered"
    /\ client' = NoCommand
    /\ UNCHANGED <<view, stopping>> /\ ElseClient

Asked(kind) == client.kind = kind /\ client.at = "sent" /\ Serves(client.to) /\ worker.runs

operatorStatus ==
    /\ Asked("status")
    /\ view' = requestOperatorVpnSnapshotRefresh(view)
    /\ client' = Reply("status", IF Fresh THEN 0 ELSE 4,
                       IF Fresh THEN view.st ELSE "unknown",
                       IF Fresh /\ view.st # "disconnected" THEN view.host ELSE NoHost)
    /\ UNCHANGED stopping /\ ElseClient

\* readVpnSnapshot waits for the worker, which may be in a handler.
readVpnSnapshot == IF Steady THEN {TRUE} ELSE BOOLEAN

Session == IF worker.st = "disconnected" THEN 0 ELSE worker.epoch

operatorDisconnect ==
    /\ Asked("disconnect")
    /\ \E available \in readVpnSnapshot :
           IF stopping.on
           THEN /\ client' = Silent("disconnect", 4)
                /\ UNCHANGED <<worker, stopping>>
           ELSE IF available /\ worker.st = "disconnected"
           THEN /\ client' = Reply("disconnect", 0, "already", "none")
                /\ UNCHANGED <<worker, stopping>>
           ELSE /\ stopping' = [on |-> TRUE, session |-> Session, heard |-> FALSE]
                /\ worker' = [worker EXCEPT !.disconnect = TRUE]
                /\ client' = [client EXCEPT !.at = "waiting"]
    /\ UNCHANGED <<processVars, inbox, view, wants, watch>>

\* Completed as soon as the state moves at all.
CompletedOnAnyChange(available) ==
    stopping.heard \/ (IF available THEN worker.st ELSE view.st) # "connected"

Completed(available) ==
    stopping.heard \/ (IF available THEN worker.st ELSE view.st) = "disconnected"

\* What was queued for the loop itself is dropped with it.
Unheard == [i \in DOMAIN inbox |-> IF inbox[i].is = "state" THEN [inbox[i] EXCEPT !.heard = FALSE]
                                   ELSE inbox[i]]

\* The nested loop ends with the state or with its timeout; the last answer
\* falls back on the state last heard when the worker does not reply.
DisconnectReturns ==
    /\ stopping.on
    /\ \E available \in readVpnSnapshot :
           client' = IF client.kind = "disconnect" /\ client.at = "waiting"
                     THEN Reply("disconnect", IF Completed(available) THEN 0 ELSE 5,
                                IF ~Completed(available) THEN "timeout"
                                ELSE IF stopping.heard \/ available THEN "completed"
                                ELSE "believed",
                                [session |-> stopping.session, by |-> client.to])
                     ELSE client
    /\ stopping' = NotStopping
    /\ inbox' = Unheard
    /\ UNCHANGED <<processVars, worker, view, wants, watch>>

\* The checks that look at the environment pass or fail on their own.
operatorDoctor(environment) ==
    /\ Asked("doctor")
    /\ client' = Silent("doctor", IF environment /\ ~(view.known /\ view.aged)
                                        /\ ~(Fresh /\ view.st = "error") THEN 0 ELSE 1)
    /\ UNCHANGED <<view, stopping>> /\ ElseClient

-----------------------------------------------------------------------------
(* routes-explain: what the receipts of the live connection let it say. *)

Targets == [literal : BOOLEAN, special : BOOLEAN]

Authoritative(available) ==
    LET r == worker.receipt IN
    /\ available /\ worker.st = "connected" /\ r # NoReceipt
    /\ r.epoch = worker.epoch /\ r.host = worker.host
    /\ r.mode = wants.mode
    /\ r.policy = wants.policy

snapshotRoute(available) ==
    IF ~Authoritative(available) THEN "unknown"
    ELSE CASE worker.receipt.mode = "all" -> "vpn"
           [] worker.receipt.mode = "only" -> IF worker.receipt.hit THEN "vpn" ELSE "unknown"
           [] worker.receipt.mode = "except" -> IF worker.receipt.hit THEN "direct" ELSE "unknown"

assessRouteRuntime(policyRoute, available, target) ==
    IF /\ Authoritative(available)
       /\ target.literal /\ ~target.special   \* neither protected nor IPv6
       /\ wants.mode = "all"                   \* split routes are not verified by the OS
       /\ policyRoute \in {"vpn", "direct"}
    THEN policyRoute ELSE "unknown"

operatorRoutesExplain(target) ==
    /\ Asked("explain")
    /\ \E available \in readVpnSnapshot :
           client' = Reply("explain", 0,
               assessRouteRuntime(snapshotRoute(available), available, target),
               snapshotRoute(available))
    /\ UNCHANGED <<view, stopping>> /\ ElseClient

ClientStep ==
    \/ \E kind \in Commands, path \in Paths : tryForwardOperatorCommand(kind, path)
    \/ ForwardFails \/ PrintAnswer
    \/ operatorStatus \/ operatorDisconnect \/ DisconnectReturns
    \/ \E environment \in BOOLEAN : operatorDoctor(environment)
    \/ \E target \in Targets : operatorRoutesExplain(target)

-----------------------------------------------------------------------------
(* OperatorWatchSession: a status request per interval to one primary.     *)

ElseWatch == UNCHANGED <<processVars, workerVars, client, stopping>>
Ends(reason) == watch' = [watch EXCEPT !.at = "ended", !.end = reason, !.to = NoPid]

WatchStarts(path) ==
    /\ watch.at = "off"
    /\ watch' = [NotWatching EXCEPT !.at = "polling", !.path = path]
    /\ ElseWatch

Pinned(pid) == watch.pid \in {NoPid, pid}

sendRequest(pid) ==
    IF Pinned(pid) THEN watch' = [watch EXCEPT !.at = "asked", !.to = pid, !.pid = pid]
    ELSE Ends("primary_replaced")

\* Before the first frame a missing primary is awaited, within a deadline.
retryInitialConnection ==
    IF watch.story = {} THEN (UNCHANGED watch \/ Ends("primary_unavailable"))
    ELSE Ends("primary_lost")

poll ==
    /\ watch.at = "polling"
    /\ IF Listening(watch.path) THEN sendRequest(bound[watch.path]) ELSE retryInitialConnection
    /\ ElseWatch

\* consumeResponse and publish: the answer names the process that gave it.
publish ==
    /\ watch.at = "asked" /\ Serves(watch.to)
    /\ watch' = [watch EXCEPT !.at = "polling", !.to = NoPid, !.story = @ \cup {watch.to}]
    /\ UNCHANGED <<processVars, worker, inbox, wants, client, stopping>>
    /\ view' = IF worker.runs THEN requestOperatorVpnSnapshotRefresh(view) ELSE view

WatchFails ==
    /\ watch.at = "asked"
    /\ Ends(IF Alive(watch.to) THEN "response_timeout" ELSE "primary_lost")
    /\ ElseWatch

WatchStep ==
    \/ \E path \in Paths : WatchStarts(path)
    \/ poll \/ publish \/ WatchFails

OperatorStep == ProcessStep \/ WorkerStep \/ RoutingStep \/ ClientStep \/ WatchStep
OperatorSpec == OperatorInit /\ [][OperatorStep]_operatorVars

-----------------------------------------------------------------------------
(* What the application promises. *)

\* Whoever has the settings open for writing or listens as the primary owns
\* the settings-global lock, so two processes, whatever path each was started
\* from and however the last one ended, never run a core on the same settings.
OneAuthority ==
    \A l \in Launchers :
        (proc[l].settings \/ \E path \in Paths : proc[l].pid = bound[path] /\ proc[l].at # "off")
            => hasCoreOwnership(l)

\* What a status answer calls fresh is the worker's state: once the GUI thread
\* has handled every announcement, a snapshot that is still offered shows the
\* connection as it is, however requests, captures and changes interleaved.
FreshStatusIsTrue ==
    (Steady /\ view.known /\ \A i \in DOMAIN inbox : inbox[i].is # "state")
        => view.st = worker.st /\ (worker.st # "disconnected" => view.host = worker.host)

\* A disconnect reported as completed is one: the session that was up when it
\* was asked for, of the process that answers, is gone.  (When the worker does
\* not reply at all the code reports what it last heard, "believed", which need
\* not be so.)
DisconnectIsReal ==
    (client.kind = "disconnect" /\ client.at = "answered" /\ client.claim = "completed")
        => ~(/\ Serves(client.about.by)
             /\ worker.st = "connected" /\ worker.epoch = client.about.session)

\* A watch is one story: every frame comes from the primary it first met,
\* through crashes and restarts of the application.
WatchIsOneStory == Cardinality(watch.story) <= 1

\* What the running application tells an operator's command is so.
AnswersAreTrue == FreshStatusIsTrue /\ DisconnectIsReal /\ WatchIsOneStory
=============================================================================
