----------------------------- MODULE ServerAdmin -----------------------------
(***************************************************************************)
(* Administration of one protocol container of a self-hosted server:       *)
(* InstallController (set up, reconfigure, remove, scan), the              *)
(* configurators that create a client on the server, UsersController (the  *)
(* clients table, renaming, revocation) and ExportController, which hands  *)
(* the created clients out.                                                *)
(*                                                                         *)
(* Every operation is a row of steps, each one SSH call.  A call may fail  *)
(* without effect or take effect and lose its answer; the step says        *)
(* whether the operation then ends, goes on, or gives up the listing of a  *)
(* client only.  An administrator's application has two threads at work on *)
(* one UsersController: the interface and a pool thread.                   *)
(***************************************************************************)
EXTENDS Integers, Sequences, FiniteSets, SequencesExt

CONSTANTS Admins,       \* the administrators' installations of the application
          Protocols,    \* the kinds of container the server may have
          FirstAddress, \* the last octet of the address of the first client
          MaxClients,   \* bound: clients ever created
          MaxTasks,     \* bound: operations started
          MaxFaults     \* bound: SSH calls that fail

ASSUME ServerBounds ==
    /\ Protocols \subseteq {"wireguard", "openvpn", "xray"}
    /\ {FirstAddress, MaxClients, MaxTasks, MaxFaults} \subseteq Nat

Threads == {"ui", "pool"}
NoClient == 0

VARIABLES
    vpn,    \* the container: its state, key generation, configured and accepted clients, clients table
    rows,   \* administrator -> m_clientsTable, shared by the two threads
    book,   \* administrator -> what the repository keeps of the container
    tasks,  \* administrator, thread -> the operation it runs
    queued, \* administrators whose interface still has to clear the cached profile
    tally   \* bounds, and what was promised: clients handed out, revocations answered

adminVars == <<vpn, rows, book, tasks, queued, tally>>

Settings == {0, 1} \* what a user may set up a container with
Unknown == [has |-> FALSE, gen |-> 0, own |-> NoClient, set |-> 0]
NoTask == [kind |-> "none", todo |-> <<>>, id |-> NoClient, who |-> NoClient, row |-> 0, ip |-> 0,
           copy |-> <<>>, gen |-> 0, snap |-> Unknown, new |-> 0, shifted |-> FALSE]

Ids(peers) == {peers[i].id : i \in DOMAIN peers}
Exec == vpn.up # "absent"

AdminInit ==
    \* A container that two clients use already, set up by somebody else or by this administrator.
    /\ \E p \in Protocols :
         LET peers == [i \in 1..2 |-> [id |-> i, ip |-> IF p = "wireguard" THEN FirstAddress + i - 1 ELSE 0]]
         IN vpn = [proto |-> p, up |-> "running", gen |-> 1, conf |-> peers, live |-> ToSet(peers),
                   table |-> IF p = "xray" THEN <<2>> ELSE <<1, 2>>, set |-> 0, listed |-> TRUE,
                   default |-> IF p = "xray" THEN 1 ELSE NoClient]
    /\ rows = [a \in Admins |-> <<>>]
    /\ book \in [Admins -> {Unknown, [has |-> TRUE, gen |-> 1, own |-> NoClient, set |-> 0]}]
    /\ tasks = [a \in Admins |-> [t \in Threads |-> NoTask]]
    /\ queued = {}
    /\ tally = [ids |-> 2, tasks |-> 0, faults |-> 0, given |-> {}, revoked |-> {}, doomed |-> {},
                revived |-> {}, lost |-> {}, contended |-> FALSE,
                missed |-> {}, mistaken |-> {}, crossed |-> FALSE]

-----------------------------------------------------------------------------
(* The steps of the operations.                                            *)

Ends(do) == [do |-> do, on |-> "ends"]
Ignored(do) == [do |-> do, on |-> "goes"]
Skips(do) == [do |-> do, on |-> "skips"]

\* UsersController::updateClients.
updateClients(on) == <<[do |-> "loadTable", on |-> on]>>

\* UsersController::appendClient; its callers are signal handlers that drop the result.
appendClient ==
    updateClients("skips") \o <<Skips("appendRow"), Skips("saveRows")>>

\* The name is not modelled: the table is uploaded as it is.
renameClient == <<Ends("saveRows")>>

\* The configurators' createConfig.
prepareWireguardConfig == <<Ends("readIps"), Ends("appendPeer"), Ends("sync")>>
prepareOpenVpnConfig == <<Ends("signCert"), Ends("readKeys")>>
applyServerSettingsToRemote == <<Ends("copyConf"), Ends("writeAdded"), Ends("restart"), Ends("readKeys")>>

createConfig(p) ==
    CASE p = "wireguard" -> prepareWireguardConfig
      [] p = "openvpn" -> prepareOpenVpnConfig
      [] p = "xray" -> applyServerSettingsToRemote

revokeOpenVpn == <<Ends("revokeCert"), Ends("dropRow"), Ends("saveRows")>>

revokeWireGuard ==
    <<Ends("copyConf"), Ends("writeRemoved"), Ends("dropRow"), Ends("saveRows"), Ends("sync")>>
revokeXray ==
    <<Ends("copyConf"), Ends("writeRemoved"), Ends("dropRow"), Ignored("saveRows"), Ends("restart")>>

Revocation(p) ==
    CASE p = "wireguard" -> revokeWireGuard
      [] p = "openvpn" -> revokeOpenVpn
      [] p = "xray" -> revokeXray

\* revokeClient of a row: removeClientLogAccess is best effort, then a match
\* with the administrator's own profile is signalled to the interface.
revokeClientRow(p) == <<Ends("takeRow")>> \o Revocation(p) \o <<Ignored("dropLogs"), Ends("matchOwn")>>

\* clearCachedProfile and the revocation by configuration it requests, whose
\* signal clears the profile, now empty, once more.
clearCachedProfile(p) ==
    <<Ends("clearOwn")>> \o updateClients("ends") \o <<Ends("findRow")>> \o Revocation(p)
        \o <<Ends("dropLogs"), Ends("confirmRevoked")>> \o updateClients("ends")

\* The same inside updateServerConfig, which has no answer to look at.
clearedQuietly(p) == [i \in DOMAIN clearCachedProfile(p) |-> Skips(clearCachedProfile(p)[i].do)]

\* processContainerForAdmin
processContainerForAdmin(p) == createConfig(p) \o appendClient

\* setupContainer: the old container goes before the new one is built.
setupContainer(p, isUpdate) ==
    <<Ends("check"), Ends("docker")>> \o (IF isUpdate THEN <<>> ELSE <<Ends("port")>>)
        \o <<Ignored("removeBox"), Ends("build"), Ends("runBox"), Ends("configure")>>
        \o (IF p = "xray" THEN <<Ends("writeDefault")>> ELSE <<>>) \o <<Ends("startup")>>

\* prepareContainerConfig has nothing to create where set-up left a client.
installContainer(p) ==
    setupContainer(p, FALSE) \o (IF p = "xray" THEN appendClient ELSE processContainerForAdmin(p))

\* installContainer of a known server saves after the listing, installServer before.
installServer(p) ==
    setupContainer(p, FALSE) \o (IF p = "xray" THEN <<>> ELSE createConfig(p)) \o <<Ends("saveOwn")>> \o appendClient

\* The containers of a VPN protocol are set up again when their settings
\* differ; only WireGuard's is left alone when they do not.
isReinstallContainerRequired(old, new) == old # new
isUpdateDockerContainerRequired(p, old, new) == p # "wireguard" \/ old # new

updateServerConfig(p, old, new) ==
    CASE isReinstallContainerRequired(old, new) ->
           setupContainer(p, TRUE) \o clearedQuietly(p) \o <<Ends("saveNew")>>
      [] ~isReinstallContainerRequired(old, new) /\ isUpdateDockerContainerRequired(p, old, new) /\ p # "xray" ->
           <<Ends("configure"), Ends("startup"), Ends("saveEdit")>>
      [] OTHER -> <<Ends("saveEdit")>>

Plan(kind, p, old, new) ==
    CASE kind = "list" -> updateClients("ends")
      [] kind = "rename" -> renameClient
      [] kind = "share" -> createConfig(p) \o appendClient \o <<Ends("token"), Ends("handOut")>>
      [] kind = "native" -> createConfig(p) \o appendClient \o <<Ends("handOut")>>
      [] kind = "prepare" -> processContainerForAdmin(p) \o <<Ends("saveOwn")>>
      [] kind = "revoke" -> revokeClientRow(p)
      [] kind = "clear" -> clearCachedProfile(p)
      [] kind \in {"install", "server", "scan"} -> <<Ends("look")>>
      [] kind = "update" -> updateServerConfig(p, old, new)
      [] kind = "remove" -> <<Ends("removeBox"), Ends("saveRemoved")>>

\* What follows getAlreadyInstalledContainers: a container that runs is
\* adopted, whoever set it up and however far.
Found(kind, p) ==
    CASE Exec -> processContainerForAdmin(p) \o <<Ends("saveOwn")>>
      [] ~Exec /\ kind = "install" -> installContainer(p) \o <<Ends("saveOwn")>>
      [] ~Exec /\ kind = "server" -> installServer(p)
      [] ~Exec /\ kind = "scan" -> <<>>

-----------------------------------------------------------------------------
(* Running a task.                                                         *)

Is(a, t, do) == tasks[a][t].todo # <<>> /\ tasks[a][t].todo[1].do = do
Proceeds(a, t, task) == tasks' = [tasks EXCEPT ![a][t] = IF task.todo = <<>> THEN NoTask ELSE task]
After(task) == [task EXCEPT !.todo = Tail(@)]

\* The rest of a group whose caller does not look at the result.
Skipped(task) ==
    LET later == {i \in DOMAIN task.todo : task.todo[i].on # "skips"}
        from == IF later = {} THEN Len(task.todo) + 1 ELSE Min(later)
    IN [task EXCEPT !.todo = SubSeq(@, from, Len(@))]

Broken(task) ==
    CASE task.todo[1].on = "ends" -> NoTask
      [] task.todo[1].on = "goes" -> After(task)
      [] task.todo[1].on = "skips" -> Skipped(task)

\* What a step works on, and puts back.
Now(a, t) == [vpn |-> vpn, tally |-> tally, rows |-> rows[a], task |-> tasks[a][t]]

\* The table that a revocation of the other thread works on was changed under it.
Crosses(a, t, now) == now.rows # rows[a] /\ \E u \in Threads \ {t} : tasks[a][u].who # NoClient

Put(a, t, now) ==
    /\ vpn' = now.vpn /\ tally' = [now.tally EXCEPT !.crossed = @ \/ Crosses(a, t, now)]
    /\ rows' = [rows EXCEPT ![a] = now.rows]
    /\ Proceeds(a, t, After(now.task))

Refused(a, t) == Proceeds(a, t, Broken(tasks[a][t])) /\ UNCHANGED rows

\* One SSH call.  "can" is what the command itself needs; a call that could
\* succeed may still fail, before or after it took effect.
Call(a, t, do, can, now) ==
    /\ Is(a, t, do)
    /\ UNCHANGED <<book, queued>>
    /\ \/ can /\ Put(a, t, now)
       \/ ~can /\ Refused(a, t) /\ UNCHANGED <<vpn, tally>>
       \/ /\ can /\ tally.faults < MaxFaults
          /\ Refused(a, t)
          /\ \/ vpn' = vpn /\ tally' = [tally EXCEPT !.faults = @ + 1]
             \/ vpn # now.vpn /\ vpn' = now.vpn /\ tally' = [now.tally EXCEPT !.faults = @ + 1]

\* A step of the application's own.
Local(a, t, do, now) == Is(a, t, do) /\ Put(a, t, now) /\ UNCHANGED <<book, queued>>

Fresh == tally.ids + 1
Spare == tally.ids < MaxClients

-----------------------------------------------------------------------------
(* The clients table.                                                      *)

\* A table file that does not exist is an error; an empty one is filled from
\* the server's configuration and written back.
LoadTable(a, t) ==
    Call(a, t, "loadTable", Exec /\ vpn.listed,
         LET how(do) == [do |-> do, on |-> tasks[a][t].todo[1].on]
         IN [Now(a, t) EXCEPT !.rows = vpn.table,
               !.task.todo = IF vpn.table # <<>> THEN @
                             ELSE <<Head(@), how("loadPeers"), how("saveRows")>> \o Tail(@)])

\* getOpenVpnClients, getWireGuardClients, getXrayClients
LoadPeers(a, t) ==
    Call(a, t, "loadPeers", Exec,
         LET others == SelectSeq(vpn.conf, LAMBDA e : e.id # vpn.default)
         IN [Now(a, t) EXCEPT !.rows = [i \in DOMAIN others |-> others[i].id]])

\* A client that is listed already is renamed instead.
AppendRow(a, t) ==
    Local(a, t, "appendRow",
          [Now(a, t) EXCEPT !.rows = IF Contains(@, tasks[a][t].id) THEN @ ELSE Append(@, tasks[a][t].id)])

SaveRows(a, t) ==
    Call(a, t, "saveRows", Exec, [Now(a, t) EXCEPT !.vpn.table = rows[a], !.vpn.listed = TRUE])

\* The pool thread's first look at the row it was given.
TakeRow(a, t) ==
    LET row == tasks[a][t].row
    IN \/ /\ row \in DOMAIN rows[a]
          /\ Local(a, t, "takeRow", [Now(a, t) EXCEPT !.task.who = rows[a][row],
                                                      !.tally.doomed = @ \cup {rows[a][row]}])
       \/ /\ row \notin DOMAIN rows[a] /\ Is(a, t, "takeRow")
          /\ Refused(a, t) /\ UNCHANGED <<vpn, book, queued, tally>>

\* clientIndexById; a client that is not listed needs no revocation.
FindRow(a, t) ==
    /\ Is(a, t, "findRow") /\ UNCHANGED <<vpn, rows, book, queued>>
    /\ LET found == {i \in DOMAIN rows[a] : rows[a][i] = tasks[a][t].who}
       IN \/ found = {} /\ Proceeds(a, t, Broken(tasks[a][t])) /\ UNCHANGED tally
          \/ found # {} /\ Proceeds(a, t, [After(tasks[a][t]) EXCEPT !.row = Min(found)])
             /\ tally' = [tally EXCEPT !.doomed = @ \cup {tasks[a][t].who}]

DropRow(a, t) ==
    Local(a, t, "dropRow",
          [Now(a, t) EXCEPT !.rows = IF tasks[a][t].row \in DOMAIN @ THEN RemoveAt(@, tasks[a][t].row) ELSE @])

-----------------------------------------------------------------------------
(* Creating a client on the server.                                        *)

\* The address after the last one listed; 255 and 0 are passed over.
AddressByCount(peers) == FirstAddress + Len(peers)
nextIp(peers) ==
    LET last == peers[Len(peers)].ip
    IN CASE last % 256 = 254 -> last + 3
         [] last % 256 = 255 -> last + 2
         [] OTHER -> last + 1

\* grep finds no AllowedIPs line in a configuration without clients, and fails.
ReadIps(a, t) ==
    Call(a, t, "readIps", Exec /\ vpn.conf # <<>>,
         [Now(a, t) EXCEPT !.task.ip = nextIp(vpn.conf), !.task.copy = vpn.conf, !.task.gen = vpn.gen])

\* The peer is appended to the file as it is now, at the address chosen then.
AppendPeer(a, t) ==
    Call(a, t, "appendPeer", Exec /\ Spare,
         [Now(a, t) EXCEPT !.vpn.conf = Append(@, [id |-> Fresh, ip |-> tasks[a][t].ip]),
                           !.task.id = Fresh, !.tally.ids = Fresh,
                           !.tally.contended = @ \/ vpn.conf # tasks[a][t].copy])

\* syncconf and docker restart: the running process takes the file.
Sync(a, t) == Call(a, t, "sync", vpn.up = "running", [Now(a, t) EXCEPT !.vpn.live = ToSet(vpn.conf)])

Restart(a, t) ==
    Call(a, t, "restart", Exec, [Now(a, t) EXCEPT !.vpn.live = ToSet(vpn.conf), !.vpn.up = "running"])

\* An issued certificate is accepted at once.
SignCert(a, t) ==
    Call(a, t, "signCert", Exec /\ Spare,
         LET cert == [id |-> Fresh, ip |-> 0]
         IN [Now(a, t) EXCEPT !.vpn.conf = Append(@, cert), !.vpn.live = @ \cup {cert},
                              !.task.id = Fresh, !.task.gen = vpn.gen, !.tally.ids = Fresh])

\* Reads whose content goes into the profile only.
ReadKeys(a, t) == Call(a, t, "readKeys", Exec, Now(a, t))

\* Xray's file is there once the set-up has written it, with its default client.
CopyConf(a, t) ==
    Call(a, t, "copyConf", Exec /\ (vpn.proto = "xray" => vpn.default # NoClient),
         [Now(a, t) EXCEPT !.task.copy = vpn.conf, !.task.gen = vpn.gen])

\* A file written back from a copy undoes what happened to it in between.
Overwrite(a, t, new, mine) ==
    LET stale == tasks[a][t].gen # vpn.gen
    IN [Now(a, t) EXCEPT
          !.vpn.conf = new,
          !.tally.lost = @ \cup (IF stale THEN 0..MaxClients ELSE Ids(vpn.conf) \ (Ids(new) \cup {mine})),
          !.tally.revived = @ \cup (Ids(new) \ (Ids(vpn.conf) \cup {mine}))]

WriteAdded(a, t) ==
    Call(a, t, "writeAdded", Exec /\ Spare,
         [Overwrite(a, t, Append(tasks[a][t].copy, [id |-> Fresh, ip |-> 0]), Fresh) EXCEPT
            !.task.id = Fresh, !.tally.ids = Fresh])

-----------------------------------------------------------------------------
(* Revoking a client.                                                      *)

\* easyrsa revoke, then the revocation list; a failure in between leaves a
\* certificate that is gone from the index and still accepted.
RevokeCert(a, t) ==
    LET who == tasks[a][t].who
        gone == [Now(a, t) EXCEPT !.vpn.conf = SelectSeq(@, LAMBDA e : e.id # who),
                                  !.vpn.live = {e \in @ : e.id # who}]
    IN \/ Call(a, t, "revokeCert", Exec /\ who \in Ids(vpn.conf), gone)
       \/ /\ Is(a, t, "revokeCert") /\ Exec /\ who \in Ids(vpn.conf) /\ tally.faults < MaxFaults
          /\ vpn' = [vpn EXCEPT !.conf = gone.vpn.conf]
          /\ tally' = [tally EXCEPT !.faults = @ + 1]
          /\ Refused(a, t) /\ UNCHANGED <<book, queued>>

\* The client is looked up in the shared table again after the read: it is the
\* one that is on the row now.
WriteRemoved(a, t) ==
    LET task == tasks[a][t]
        who == IF task.row \in DOMAIN rows[a] THEN rows[a][task.row] ELSE NoClient
        kept == SelectSeq(task.copy, LAMBDA e : e.id # who)
    IN Call(a, t, "writeRemoved",
            /\ Exec
            /\ vpn.proto = "wireguard" => Len(kept) = Len(task.copy) - 1
            /\ vpn.proto = "xray" => task.copy # <<>>,
            [Overwrite(a, t, kept, who) EXCEPT
               !.task.shifted = who # task.who,
               !.tally.mistaken = IF who # task.who THEN @ \cup {who} ELSE @])

DropLogs(a, t) == Call(a, t, "dropLogs", TRUE, Now(a, t))

\* The answer of a revocation: success, for the client the user chose, whichever
\* one the write removed.
Revoked(a, t) ==
    LET who == tasks[a][t].who
    IN [Now(a, t) EXCEPT !.tally.revoked = @ \cup {who},
                         !.tally.missed = IF tasks[a][t].shifted THEN @ \cup {who} ELSE @ \ {who}]

MatchOwn(a, t) ==
    /\ Is(a, t, "matchOwn")
    /\ Put(a, t, Revoked(a, t))
    /\ queued' = IF book[a].own = tasks[a][t].who THEN queued \cup {a} ELSE queued
    /\ UNCHANGED book

ConfirmRevoked(a, t) == Local(a, t, "confirmRevoked", Revoked(a, t))

ClearOwn(a, t) ==
    /\ Is(a, t, "clearOwn")
    /\ Put(a, t, [Now(a, t) EXCEPT !.task.who = book[a].own])
    /\ book' = [book EXCEPT ![a].own = NoClient]
    /\ UNCHANGED queued

-----------------------------------------------------------------------------
(* Setting a container up and taking it down.                              *)

\* isUserInSudo and isServerDpkgBusy, then installDockerWorker and
\* prepareHostWorker, then isServerPortBusy: nothing the clients depend on.
Check(a, t) == Call(a, t, "check", TRUE, Now(a, t))
InstallDocker(a, t) == Call(a, t, "docker", TRUE, Now(a, t))
CheckPort(a, t) == Call(a, t, "port", TRUE, Now(a, t))

Gone == [up |-> "absent", conf |-> <<>>, live |-> {}, table |-> <<>>, listed |-> FALSE, default |-> NoClient,
         gen |-> vpn.gen + 1, proto |-> vpn.proto, set |-> vpn.set]

\* The remove script ends with the image; there is none to remove twice.
RemoveBox(a, t) == Call(a, t, "removeBox", Exec, [Now(a, t) EXCEPT !.vpn = Gone])

BuildImage(a, t) == Call(a, t, "build", TRUE, Now(a, t))

\* docker run refuses a name in use; OpenVPN's script makes the authority here.
RunBox(a, t) ==
    Call(a, t, "runBox", ~Exec,
         [Now(a, t) EXCEPT !.vpn.up = "created", !.vpn.gen = IF vpn.proto = "openvpn" THEN @ + 1 ELSE @])

\* configureContainerWorker: new keys and no clients, or OpenVPN's server.conf.
Configure(a, t) ==
    Call(a, t, "configure", Exec,
         IF vpn.proto = "openvpn" THEN [Now(a, t) EXCEPT !.vpn.set = tasks[a][t].new]
         ELSE [Now(a, t) EXCEPT !.vpn.set = tasks[a][t].new, !.vpn.gen = @ + 1, !.vpn.conf = <<>>, !.task.gen = vpn.gen + 1])

\* writeServerConfigForSetup: the client the container made for itself.
WriteDefault(a, t) ==
    Call(a, t, "writeDefault", Exec /\ Spare,
         [Now(a, t) EXCEPT !.vpn.conf = <<[id |-> Fresh, ip |-> 0]>>, !.vpn.default = Fresh,
                           !.task.id = Fresh, !.tally.ids = Fresh, !.task.gen = vpn.gen])

\* startupContainerWorker, after the host's firewall script whose result is ignored.
Startup(a, t) ==
    Call(a, t, "startup", Exec,
         [Now(a, t) EXCEPT !.vpn.up = "running",
                           !.vpn.live = IF vpn.proto = "openvpn" THEN @ ELSE ToSet(vpn.conf)])

\* getAlreadyInstalledContainers.
Look(a, t) ==
    Call(a, t, "look", TRUE,
         [Now(a, t) EXCEPT !.task.todo = <<Head(@)>> \o Found(tasks[a][t].kind, vpn.proto)])

\* publishClientLogCollector for the new client.
Token(a, t) == Call(a, t, "token", Exec, Now(a, t))

\* The profile leaves the application: its client was promised to work.
Given(a, t) == tally.given \cup {[id |-> tasks[a][t].id, gen |-> tasks[a][t].gen]}

HandOut(a, t) == Local(a, t, "handOut", [Now(a, t) EXCEPT !.tally.given = Given(a, t)])

Saves(a, t, do, new, given) ==
    /\ Is(a, t, do)
    /\ Put(a, t, [Now(a, t) EXCEPT !.tally.given = given])
    /\ book' = [book EXCEPT ![a] = new]
    /\ UNCHANGED queued

SaveOwn(a, t) ==
    Saves(a, t, "saveOwn", [has |-> TRUE, gen |-> tasks[a][t].gen, own |-> tasks[a][t].id, set |-> vpn.set], Given(a, t))

\* updateServerConfig writes the record it read before the work, with the new
\* settings; only Xray's set-up puts a client into them.
SaveNew(a, t) ==
    LET task == tasks[a][t] IN
    Saves(a, t, "saveNew",
          [has |-> TRUE, gen |-> vpn.gen, own |-> IF vpn.proto = "xray" THEN task.id ELSE NoClient, set |-> task.new],
          IF vpn.proto = "xray" THEN Given(a, t) ELSE tally.given)

SaveEdit(a, t) == Saves(a, t, "saveEdit", tasks[a][t].snap, tally.given)

SaveRemoved(a, t) == Saves(a, t, "saveRemoved", Unknown, tally.given)

-----------------------------------------------------------------------------
(* What the user and the host do.                                          *)

Known == {"list", "share", "native", "clear", "update", "remove"}
Strange == {"install", "server", "scan"}

Starts(a, t, kind, row) ==
    /\ tasks[a][t] = NoTask /\ tally.tasks < MaxTasks
    /\ \E new \in IF kind = "update" THEN Settings ELSE {book[a].set} :
         tasks' = [tasks EXCEPT ![a][t] = [NoTask EXCEPT !.kind = kind, !.row = row, !.new = new, !.snap = book[a],
                                                         !.todo = Plan(kind, vpn.proto, book[a].set, new)]]
    /\ tally' = [tally EXCEPT !.tasks = @ + 1]
    /\ UNCHANGED <<vpn, rows, book, queued>>

Ask(a) ==
    \/ \E kind \in Known : book[a].has /\ Starts(a, "ui", kind, 0)
    \/ \E kind \in Strange : ~book[a].has /\ Starts(a, "ui", kind, 0)
    \/ book[a].has /\ rows[a] # <<>> /\ Starts(a, "ui", "rename", 0)

\* QtConcurrent: revocations of a row, and validateConfig before a connection.
AskPool(a) ==
    \/ \E row \in DOMAIN rows[a] : book[a].has /\ Starts(a, "pool", "revoke", row)
    \/ book[a].has /\ book[a].own = NoClient /\ Starts(a, "pool", "prepare", 0)

\* adminConfigRevoked reaches the interface's thread.
ClearQueued(a) ==
    /\ a \in queued /\ tasks[a]["ui"] = NoTask
    /\ queued' = queued \ {a}
    /\ tasks' = [tasks EXCEPT ![a]["ui"] = [NoTask EXCEPT !.kind = "clear", !.snap = book[a],
                                                          !.todo = clearCachedProfile(vpn.proto)]]
    /\ UNCHANGED <<vpn, rows, book, tally>>

\* rebootServer, or any other restart of the host.
HostReboots ==
    /\ vpn.up = "running" /\ vpn.proto # "openvpn" /\ tally.faults < MaxFaults
    /\ vpn' = [vpn EXCEPT !.live = ToSet(vpn.conf)]
    /\ tally' = [tally EXCEPT !.faults = @ + 1]
    /\ UNCHANGED <<rows, book, tasks, queued>>

TableStep(a, t) ==
    \/ LoadTable(a, t) \/ LoadPeers(a, t) \/ AppendRow(a, t) \/ SaveRows(a, t)
    \/ TakeRow(a, t) \/ FindRow(a, t) \/ DropRow(a, t)

CreateStep(a, t) ==
    \/ ReadIps(a, t) \/ AppendPeer(a, t) \/ Sync(a, t) \/ Restart(a, t) \/ SignCert(a, t)
    \/ ReadKeys(a, t) \/ CopyConf(a, t) \/ WriteAdded(a, t) \/ Token(a, t) \/ HandOut(a, t)

RevokeStep(a, t) ==
    \/ RevokeCert(a, t) \/ WriteRemoved(a, t) \/ DropLogs(a, t) \/ MatchOwn(a, t)
    \/ ConfirmRevoked(a, t) \/ ClearOwn(a, t)

SetupStep(a, t) ==
    \/ Check(a, t) \/ InstallDocker(a, t) \/ CheckPort(a, t) \/ RemoveBox(a, t) \/ BuildImage(a, t) \/ RunBox(a, t) \/ Configure(a, t)
    \/ WriteDefault(a, t) \/ Startup(a, t) \/ Look(a, t)
    \/ SaveOwn(a, t) \/ SaveNew(a, t) \/ SaveEdit(a, t) \/ SaveRemoved(a, t)

AdminStep ==
    \/ HostReboots
    \/ \E a \in Admins :
         \/ Ask(a) \/ AskPool(a) \/ ClearQueued(a)
         \/ \E t \in Threads : TableStep(a, t) \/ CreateStep(a, t) \/ RevokeStep(a, t) \/ SetupStep(a, t)

-----------------------------------------------------------------------------
(* Properties.                                                             *)

\* A revocation that was answered without an error leaves its client neither
\* in the server's configuration nor accepted by the running process, through
\* every later operation.  Two cases are excepted, because there the code does
\* leave it: another administrator's or thread's write of an older copy of the
\* file put the client back (revived), and the write removed the client of
\* another row, the table having changed between revokeClient's look at the
\* row and the second one after the read (missed).
RevocationIsReal ==
    \A id \in tally.revoked \ (tally.revived \cup tally.missed) :
        id \notin Ids(vpn.conf) /\ \A e \in vpn.live : e.id # id

\* A client that was handed out keeps working while its container runs with
\* the keys it was made for: the process accepts it, and gives its address to
\* nobody else.  Excepted are a client somebody began to revoke, one that a
\* write of an older copy dropped (lost) and one removed in another's place
\* (mistaken); and no address is promised any more once a peer was appended at
\* an address chosen before another peer came in (contended).
ClientsWork ==
    \A g \in tally.given :
        (vpn.up = "running" /\ g.gen = vpn.gen /\ g.id \notin tally.doomed \cup tally.lost \cup tally.mistaken)
            => \E e \in vpn.live :
                  /\ e.id = g.id
                  /\ (vpn.proto = "wireguard" /\ ~tally.contended) => \A f \in vpn.live \ {e} : f.ip # e.ip

\* The wrong client is removed, and a client that is still in reported as
\* removed, only when the other thread of the same application changed the
\* table during the revocation.
MistakesAreRaces == tally.missed # {} \/ tally.mistaken # {} => tally.crossed

\* Who gets in is who was let in: revoked clients are out, the others work.
AccessIsAsAnswered == RevocationIsReal /\ ClientsWork /\ MistakesAreRaces

=============================================================================
