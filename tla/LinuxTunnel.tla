----------------------------- MODULE LinuxTunnel -----------------------------
(***************************************************************************)
(* The privileged daemon on Linux: Daemon and WireguardUtilsLinux driven   *)
(* by local connections.  There is one thread, but a UAPI command and the  *)
(* wait for the tunnel process run the event loop, so the request of       *)
(* another connection may run to its end inside a request that waits.  The *)
(* running requests form a stack; only its last frame acts.                *)
(***************************************************************************)
EXTENDS Naturals, Sequences

CONSTANTS
    Callers,      \* local connections, each with its own migration nonce
    Servers,      \* AWG servers, a public key and an endpoint each
    Excludable,   \* prefixes a configuration may keep outside the tunnel
    MaxDepth,     \* bound: requests nested in each other
    MaxUses,      \* bound: references the daemon counts for one excluded prefix
    MaxErrors     \* bound: calls of the OS or of the UAPI that fail

ASSUME LinuxTunnelAssumption ==
    /\ MaxDepth \in Nat \ {0} /\ MaxUses \in Nat \ {0} /\ MaxErrors \in Nat

VARIABLES
    stack,    \* requests being executed, the innermost last
    ld,       \* Daemon: connection, references, nonce; the nonces of the connections
    wgu,      \* WireguardUtilsLinux: tunnel process, route monitor, endpoint states
    kern,     \* routes in the kernel, and the kill switch rules
    errors,   \* calls that failed
    receipt   \* what the last step told a caller

linuxVars == <<stack, ld, wgu, kern, errors, receipt>>

NoServer == [server |-> "none", excluded |-> {}]
Wanted == [server : Servers, excluded : SUBSET Excludable]

\* EndpointRouteState, and the receipt the route monitor keeps for it.
NoEndpoint == [at |-> "none", owned |-> FALSE, removed |-> FALSE]

LinuxInit ==
    /\ stack = <<>>
    /\ ld = [conn |-> NoServer, refs |-> [d \in Excludable |-> 0], nonce |-> "none",
             held |-> [c \in Callers |-> FALSE]]
    /\ wgu = [tunnel |-> "none", monitor |-> FALSE, receipts |-> {}, busy |-> FALSE,
              known |-> {}, ep |-> [s \in Servers |-> NoEndpoint]]
    /\ kern = [excluded |-> {}, endpoints |-> {}, tunnelled |-> FALSE, rules |-> FALSE]
    /\ errors = 0
    /\ receipt = "none"

\* A call of the OS or of the UAPI and its outcome.
Try(ok) == IF ok THEN UNCHANGED errors ELSE errors < MaxErrors /\ errors' = errors + 1

Top == stack[Len(stack)]
At(pc) == stack # <<>> /\ Top.pc = pc
Continue(f) == stack' = [stack EXCEPT ![Len(stack)] = f]
Resume(pc) == Continue([Top EXCEPT !.pc = pc])
Pop == stack' = SubSeq(stack, 1, Len(stack) - 1)
Silent == receipt' = "none"
Tell(what) == receipt' = what

\* Where uapiCommand or waitForTunnelName runs the event loop.
Waiting == {"name", "interfaceUapi", "peerUapi", "recoverUapi", "removeUapi", "status"}
Interruptible == stack # <<>> => Top.pc \in Waiting

Frame(op, by, cfg, pc) ==
    [op |-> op, by |-> by, cfg |-> cfg, last |-> NoServer, pc |-> pc, todo |-> {}, then |-> "none",
     owned |-> FALSE, clean |-> TRUE, network |-> TRUE]

Enter(f) ==
    /\ Interruptible /\ Len(stack) < MaxDepth
    /\ \A i \in DOMAIN stack : stack[i].by # f.by
    /\ stack' = Append(stack, f)

(***************************** requests ***********************************)

\* parseCommand: activate
ActivateRequested(c, cfg) ==
    /\ Enter(Frame("activate", c, cfg, "begin"))
    /\ ld' = [ld EXCEPT !.nonce = c, !.held[c] = TRUE]
    /\ Silent /\ UNCHANGED <<wgu, kern, errors>>

\* parseCommand: deactivate, with the nonce of the connection or with none
DeactivateRequested(c, legacy) ==
    /\ LET owned == ~legacy /\ ld.held[c] /\ ld.nonce = c IN
       IF owned \/ legacy
       THEN /\ Enter([Frame("deactivate", c, NoServer, "down") EXCEPT
                         !.owned = owned, !.then = "told"])
            /\ Silent
       ELSE /\ Interruptible /\ UNCHANGED stack
            /\ receipt' = "refused"
    /\ UNCHANGED <<ld, wgu, kern, errors>>

\* getStatus and checkHandshake only read, but they wait (inside another
\* request they would leave no trace).
StatusRequested ==
    /\ stack = <<>> /\ wgu.tunnel = "running" /\ ld.conn # NoServer
    /\ Enter(Frame("status", "timer", NoServer, "status"))
    /\ Silent /\ UNCHANGED <<ld, wgu, kern, errors>>

StatusDone ==
    /\ At("status")
    /\ Pop /\ Silent /\ UNCHANGED <<ld, wgu, kern, errors>>

\* A connection that closes takes its nonce with it.
CallerGone(c) ==
    /\ Interruptible /\ ld.held[c] /\ \A i \in DOMAIN stack : stack[i].by # c
    /\ ld' = [ld EXCEPT !.held[c] = FALSE]
    /\ Silent /\ UNCHANGED <<stack, wgu, kern, errors>>

\* amneziawg-go exits; the interface and the routes through it go with it.
TunnelExits ==
    /\ Interruptible /\ wgu.tunnel = "running"
    /\ Try(FALSE)
    /\ wgu' = [wgu EXCEPT !.tunnel = "dead"]
    /\ kern' = [kern EXCEPT !.tunnelled = FALSE]
    /\ Silent /\ UNCHANGED <<stack, ld>>

(***************************** activate ***********************************)

Failed == Pop /\ Tell("disconnected")

\* Connected already: switch the server, or deactivate first.
Begin ==
    /\ At("begin")
    /\ \E sameKeys \in BOOLEAN :
          CASE ld.conn # NoServer ->
                 /\ Continue(IF sameKeys
                             THEN [Top EXCEPT !.pc = "exclude", !.then = "switch", !.last = ld.conn,
                                              !.todo = Top.cfg.excluded]
                             ELSE [Top EXCEPT !.pc = "down", !.then = "activate"])
                 /\ UNCHANGED <<wgu, errors>>
            [] ld.conn = NoServer /\ wgu.tunnel = "running" ->
                 Resume("addresses") /\ UNCHANGED <<wgu, errors>>
            [] OTHER -> Resume("spawn") /\ UNCHANGED <<wgu, errors>>
    /\ Silent /\ UNCHANGED <<ld, kern>>

\* addInterface: the process starts, its socket appears, it is configured.
Spawn ==
    /\ At("spawn")
    /\ \/ Try(TRUE) /\ wgu' = [wgu EXCEPT !.tunnel = "running"] /\ Resume("name") /\ Silent
       \/ Try(FALSE) /\ Failed /\ UNCHANGED wgu
    /\ UNCHANGED <<ld, kern>>

NameFound ==
    /\ At("name")
    /\ \/ /\ wgu.tunnel = "running"
          /\ wgu' = [wgu EXCEPT !.monitor = TRUE, !.receipts = {}]
          /\ Try(TRUE) /\ Resume("interfaceUapi") /\ Silent
       \/ /\ IF wgu.tunnel = "running" THEN Try(FALSE) ELSE UNCHANGED errors
          /\ wgu' = [wgu EXCEPT !.tunnel = "none"]
          /\ Failed
    /\ UNCHANGED <<ld, kern>>

\* The kill switch rules follow a successful configuration.
InterfaceConfigured ==
    /\ At("interfaceUapi")
    /\ \/ /\ wgu.tunnel = "running" /\ Try(TRUE)
          /\ kern' = [kern EXCEPT !.rules = TRUE] /\ Resume("addresses") /\ Silent
       \/ /\ IF wgu.tunnel = "running" THEN Try(FALSE) ELSE UNCHANGED errors
          /\ Failed /\ UNCHANGED kern
    /\ UNCHANGED <<ld, wgu>>

\* addInterfaceIPs and setMTUAndUp
Addresses ==
    /\ At("addresses")
    /\ \/ /\ Try(TRUE) /\ Silent
          /\ Continue([Top EXCEPT !.pc = "exclude", !.todo = Top.cfg.excluded])
       \/ Try(FALSE) /\ Failed
    /\ UNCHANGED <<ld, wgu, kern>>

\* rtmSendRoute: an acknowledgement may be lost after the kernel acted.
AddThrow(d, ok) ==
    IF ~wgu.monitor THEN ~ok /\ UNCHANGED <<kern, errors>>
    ELSE /\ Try(ok)
         /\ IF ok THEN kern' = [kern EXCEPT !.excluded = @ \cup {d}]
            ELSE kern' \in {kern, [kern EXCEPT !.excluded = @ \cup {d}]}

DeleteThrow(d, ok) ==
    IF ~wgu.monitor THEN ~ok /\ UNCHANGED <<kern, errors>>
    ELSE /\ Try(ok)
         /\ IF ok THEN kern' = [kern EXCEPT !.excluded = @ \ {d}]
            ELSE kern' \in {kern, [kern EXCEPT !.excluded = @ \ {d}]}

\* Daemon::addExclusionRoute; a switch goes on without a route that failed.
AddExclusion(d) ==
    /\ At("exclude") /\ d \in Top.todo /\ ld.refs[d] < MaxUses
    /\ ld' = [ld EXCEPT !.refs[d] = @ + 1]
    /\ \E ok \in BOOLEAN :
          /\ IF ld.refs[d] > 0 THEN ok /\ UNCHANGED <<kern, errors>> ELSE AddThrow(d, ok)
          /\ IF ok \/ Top.then = "switch"
             THEN Continue([Top EXCEPT !.todo = @ \ {d}]) /\ Silent ELSE Failed
    /\ UNCHANGED wgu

ExclusionsAdded == At("exclude") /\ Top.todo = {} /\ Resume("peer") /\ Silent /\ UNCHANGED <<ld, wgu, kern, errors>>

Endpoint(s) == wgu.ep[s]

\* updatePeer up to the UAPI: the endpoint route is created exclusively.
UpdatePeer ==
    /\ At("peer")
    /\ LET s == Top.cfg.server
           go(w) == wgu' = [w EXCEPT !.busy = TRUE] /\ Resume("peerUapi") /\ Silent
           owned == [NoEndpoint EXCEPT !.at = "tracked", !.owned = TRUE]
           unsure == [NoEndpoint EXCEPT !.at = "uncertain"] IN
       IF wgu.busy \/ ~wgu.monitor \/ Endpoint(s).at = "uncertain" \/ Endpoint(s).removed
       THEN Failed /\ UNCHANGED <<wgu, kern, errors>>
       ELSE IF Endpoint(s).at = "tracked" THEN go(wgu) /\ UNCHANGED <<kern, errors>>
       ELSE \/ /\ s \notin kern.endpoints /\ Try(TRUE)
               /\ go([wgu EXCEPT !.ep[s] = owned, !.receipts = @ \cup {s}])
               /\ kern' = [kern EXCEPT !.endpoints = @ \cup {s}]
            \/ /\ IF s \in kern.endpoints THEN UNCHANGED errors ELSE Try(FALSE)
               /\ Failed /\ UNCHANGED <<wgu, kern>>
            \/ /\ Try(FALSE) /\ Failed
               /\ wgu' = [wgu EXCEPT !.ep[s] = unsure]
               /\ kern' \in {kern, [kern EXCEPT !.endpoints = @ \cup {s}]}
    /\ UNCHANGED ld

\* The reply: an initial peer that may be half configured is removed again.
PeerUpdated ==
    /\ At("peerUapi")
    /\ LET s == Top.cfg.server IN
       \/ /\ wgu.tunnel = "running" /\ Try(TRUE) /\ Silent
          /\ wgu' = [wgu EXCEPT !.known = @ \cup {s}, !.busy = FALSE, !.ep[s].removed = FALSE]
          /\ Continue(IF Top.then = "switch"
                      THEN [Top EXCEPT !.pc = "leave", !.todo = Top.last.excluded]
                      ELSE [Top EXCEPT !.pc = "run"])
       \/ /\ IF wgu.tunnel = "running" THEN Try(FALSE) ELSE UNCHANGED errors
          /\ IF s \in wgu.known THEN Failed /\ wgu' = [wgu EXCEPT !.busy = FALSE]
             ELSE Resume("recoverUapi") /\ Silent /\ UNCHANGED wgu
    /\ UNCHANGED <<ld, kern>>

\* A cleanup that does not read the kernel's answer.
CleanEndpointUnread(w, s, ok) ==
    LET e == w.ep[s] IN
    IF e.at = "uncertain" THEN ~ok /\ wgu' = w /\ UNCHANGED <<kern, errors>>
    ELSE IF ~e.owned THEN ok /\ wgu' = [w EXCEPT !.ep[s] = NoEndpoint] /\ UNCHANGED <<kern, errors>>
    ELSE /\ ok /\ wgu' = [w EXCEPT !.ep[s] = NoEndpoint, !.receipts = @ \ {s}]
         /\ \/ Try(TRUE) /\ kern' = [kern EXCEPT !.endpoints = @ \ {s}]
            \/ Try(FALSE) /\ UNCHANGED kern

\* cleanupEndpointRoute: only with the monitor's receipt, never when uncertain.
\* w is the state of the utils; ok says that no route of s is owned any more.
CleanEndpoint(w, s, ok) ==
    LET e == w.ep[s] IN
    IF e.at = "uncertain" THEN ~ok /\ wgu' = w /\ UNCHANGED <<kern, errors>>
    ELSE IF ~e.owned THEN ok /\ wgu' = [w EXCEPT !.ep[s] = NoEndpoint] /\ UNCHANGED <<kern, errors>>
    ELSE IF ~w.monitor THEN ~ok /\ wgu' = w /\ UNCHANGED <<kern, errors>>
    ELSE IF s \notin w.receipts THEN ~ok /\ wgu' = [w EXCEPT !.ep[s].at = "uncertain"] /\ UNCHANGED <<kern, errors>>
    ELSE /\ Try(ok)
         /\ IF ok THEN /\ wgu' = [w EXCEPT !.ep[s] = NoEndpoint, !.receipts = @ \ {s}]
                       /\ kern' = [kern EXCEPT !.endpoints = @ \ {s}]
            ELSE \/ wgu' = w /\ UNCHANGED kern
                 \/ /\ wgu' = [w EXCEPT !.ep[s].at = "uncertain"]
                    /\ kern' \in {kern, [kern EXCEPT !.endpoints = @ \ {s}]}

PeerRecovered ==
    /\ At("recoverUapi")
    /\ LET s == Top.cfg.server IN
       \/ \E ok \in BOOLEAN : CleanEndpoint([wgu EXCEPT !.busy = FALSE, !.ep[s].removed = TRUE], s, ok)
       \/ /\ IF wgu.tunnel = "running" THEN Try(FALSE) ELSE UNCHANGED errors
          /\ wgu' = [wgu EXCEPT !.busy = FALSE] /\ UNCHANGED kern
    /\ Failed /\ UNCHANGED ld

\* Resolvers, the routes into the tunnel, run(Up).
Run ==
    /\ At("run")
    /\ \/ /\ Try(TRUE) /\ wgu.tunnel = "running"
          /\ ld' = [ld EXCEPT !.conn = Top.cfg]
          /\ kern' = [kern EXCEPT !.tunnelled = TRUE] /\ Pop /\ Tell("active")
       \/ /\ IF wgu.tunnel = "running" THEN Try(FALSE) ELSE UNCHANGED errors
          /\ kern' \in {kern, [kern EXCEPT !.tunnelled = @ \/ wgu.tunnel = "running"]}
          /\ Continue([Top EXCEPT !.pc = "remove", !.then = "fail", !.last = Top.cfg])
          /\ Silent /\ UNCHANGED ld
    /\ UNCHANGED wgu

\* switchServer after the new peer: the old exclusions, then the old peer.
LeaveExclusion(d) ==
    /\ At("leave") /\ d \in Top.todo
    /\ Continue([Top EXCEPT !.todo = @ \ {d}])
    /\ IF ld.refs[d] > 1 THEN ld' = [ld EXCEPT !.refs[d] = @ - 1] /\ UNCHANGED <<kern, errors>>
       ELSE \E ok \in BOOLEAN : DeleteThrow(d, ok) /\ ld' = IF ok THEN [ld EXCEPT !.refs[d] = 0] ELSE ld
    /\ Silent /\ UNCHANGED wgu

LeftExclusions ==
    /\ At("leave") /\ Top.todo = {}
    /\ IF Top.cfg.server # Top.last.server THEN Resume("remove") /\ UNCHANGED ld
       ELSE Resume("switched") /\ ld' = [ld EXCEPT !.conn = Top.cfg]
    /\ Silent /\ UNCHANGED <<wgu, kern, errors>>

ServerSwitched ==
    /\ At("switched")
    /\ \/ Try(TRUE) /\ Pop /\ Tell("active")
       \/ Try(FALSE) /\ Failed
    /\ UNCHANGED <<ld, wgu, kern>>

(***************************** deletePeer *********************************)

\* What deletePeer's answer means to its caller.
AfterRemove(ok) ==
    CASE Top.then = "fail" -> Failed /\ UNCHANGED ld
      [] Top.then = "switch" ->
            IF ok THEN Resume("switched") /\ Silent /\ ld' = [ld EXCEPT !.conn = Top.cfg]
            ELSE Failed /\ UNCHANGED ld
      [] OTHER ->
            /\ Continue([Top EXCEPT !.pc = "downRoutes", !.todo = {d \in Excludable : ld.refs[d] > 0},
                                    !.network = @ /\ ok, !.clean = @ /\ ok])
            /\ Silent /\ UNCHANGED ld

RemovePeer ==
    /\ At("remove")
    /\ LET s == Top.last.server IN
       IF wgu.busy THEN AfterRemove(FALSE) /\ UNCHANGED <<wgu, kern, errors>>
       ELSE IF Endpoint(s).removed THEN \E ok \in BOOLEAN : CleanEndpoint(wgu, s, ok) /\ AfterRemove(ok)
       ELSE Resume("removeUapi") /\ wgu' = [wgu EXCEPT !.busy = TRUE] /\ Silent /\ UNCHANGED <<ld, kern, errors>>

PeerRemoved ==
    /\ At("removeUapi")
    /\ LET s == Top.last.server
           free == [wgu EXCEPT !.busy = FALSE] IN
       \/ /\ wgu.tunnel = "running"
          /\ \E ok \in BOOLEAN :
                /\ IF Endpoint(s).at = "none" THEN ok /\ wgu' = [free EXCEPT !.known = @ \ {s}] /\ UNCHANGED <<kern, errors>>
                   ELSE CleanEndpoint([free EXCEPT !.ep[s].removed = TRUE, !.known = @ \ {s}], s, ok)
                /\ AfterRemove(ok)
       \/ /\ IF wgu.tunnel = "running" THEN Try(FALSE) ELSE UNCHANGED errors
          /\ wgu' = free /\ AfterRemove(FALSE) /\ UNCHANGED kern

(***************************** deactivate *********************************)

\* Resolvers and the routes of the connection; without a connection only the
\* exclusions and the interface are left to clean.
DownBegins ==
    /\ At("down")
    /\ \E dns \in BOOLEAN :
          /\ Try(dns)
          /\ IF ld.conn = NoServer
             THEN /\ Continue([Top EXCEPT !.pc = "downRoutes", !.clean = dns,
                                          !.todo = {d \in Excludable : ld.refs[d] > 0}])
             ELSE Continue([Top EXCEPT !.pc = "downPrefixes", !.clean = dns, !.last = ld.conn])
    /\ Silent /\ UNCHANGED <<ld, wgu, kern>>

DownPrefixes ==
    /\ At("downPrefixes")
    /\ \/ /\ wgu.monitor /\ wgu.tunnel = "running" /\ Try(TRUE)
          /\ kern' = [kern EXCEPT !.tunnelled = FALSE] /\ Resume("remove")
       \/ /\ IF wgu.monitor /\ wgu.tunnel = "running" THEN Try(FALSE) ELSE UNCHANGED errors
          /\ Continue([Top EXCEPT !.pc = "remove", !.network = FALSE, !.clean = FALSE]) /\ UNCHANGED kern
    /\ Silent /\ UNCHANGED <<ld, wgu>>

DownExclusion(d) ==
    /\ At("downRoutes") /\ d \in Top.todo
    /\ \E ok \in BOOLEAN :
          /\ DeleteThrow(d, ok)
          /\ Continue([Top EXCEPT !.todo = @ \ {d}, !.network = @ /\ ok, !.clean = @ /\ ok])
          /\ ld' = IF ok THEN [ld EXCEPT !.refs[d] = 0] ELSE ld
    /\ Silent /\ UNCHANGED wgu

\* Where deactivate returns to.
DownReturns(ok) ==
    CASE Top.then = "activate" /\ ok ->
           /\ Continue([Top EXCEPT !.pc = "begin", !.then = "none", !.clean = TRUE, !.network = TRUE])
           /\ Silent /\ ld' = [ld EXCEPT !.conn = NoServer]
      [] Top.then = "activate" /\ ~ok -> Failed /\ UNCHANGED ld
      [] Top.then = "told" /\ Top.owned /\ ok ->
           /\ Pop /\ Tell("confirmed")
           /\ ld' = [ld EXCEPT !.conn = NoServer, !.nonce = "none", !.held[Top.by] = FALSE]
      [] OTHER -> Pop /\ Tell("refused") /\ ld' = IF ok THEN [ld EXCEPT !.conn = NoServer] ELSE ld

DownRoutesEnd ==
    /\ At("downRoutes") /\ Top.todo = {}
    /\ IF Top.network THEN Resume("interface") /\ Silent /\ UNCHANGED ld ELSE DownReturns(FALSE)
    /\ UNCHANGED <<wgu, kern, errors>>

\* deleteInterface, first half: every endpoint must be removed and clean.
DownEndpoint(s) ==
    /\ At("interface") /\ ~wgu.busy /\ Endpoint(s) # NoEndpoint
    /\ \E ok \in BOOLEAN :
          /\ IF Endpoint(s).removed THEN CleanEndpoint(wgu, s, ok)
             ELSE ~ok /\ UNCHANGED <<wgu, kern, errors>>
          /\ IF ok THEN UNCHANGED <<stack, ld>> /\ Silent ELSE DownReturns(FALSE)

\* Second half: the monitor, the process, the kill switch (whose answer nobody
\* reads).
DownInterface ==
    /\ At("interface")
    /\ IF wgu.busy THEN DownReturns(FALSE) /\ UNCHANGED <<wgu, kern, errors>>
       ELSE /\ \A s \in Servers : Endpoint(s) = NoEndpoint
            /\ LET w == [wgu EXCEPT !.monitor = FALSE, !.receipts = {}] IN
               \/ /\ wgu.tunnel # "running" /\ wgu' = w
                  /\ DownReturns(FALSE) /\ UNCHANGED <<kern, errors>>
               \/ /\ wgu.tunnel = "running" /\ Try(FALSE)   \* it cannot be ended, or its interface stays
                  /\ wgu' \in {w, [w EXCEPT !.tunnel = "dead"]}
                  /\ kern' = IF wgu'.tunnel = "dead" THEN [kern EXCEPT !.tunnelled = FALSE] ELSE kern
                  /\ DownReturns(FALSE)
               \/ /\ wgu.tunnel = "running" /\ Try(TRUE)
                  /\ wgu' = [w EXCEPT !.tunnel = "none", !.known = {}]
                  /\ kern' = [kern EXCEPT !.tunnelled = FALSE, !.rules = FALSE]
                  /\ DownReturns(Top.clean)

LinuxStep(configs) ==
    \/ \E c \in Callers :
           \/ \E cfg \in configs : ActivateRequested(c, cfg)
           \/ \E legacy \in BOOLEAN : DeactivateRequested(c, legacy)
           \/ CallerGone(c)
    \/ StatusRequested \/ StatusDone \/ TunnelExits \/ Begin \/ Spawn \/ NameFound \/ InterfaceConfigured \/ Addresses
    \/ ExclusionsAdded \/ UpdatePeer \/ PeerUpdated \/ PeerRecovered \/ Run \/ LeftExclusions \/ ServerSwitched
    \/ RemovePeer \/ PeerRemoved \/ DownBegins \/ DownPrefixes \/ DownRoutesEnd \/ DownInterface
    \/ \E d \in Excludable : AddExclusion(d) \/ LeaveExclusion(d) \/ DownExclusion(d)
    \/ \E s \in Servers : DownEndpoint(s)

LinuxSpec == LinuxInit /\ [][LinuxStep(Wanted)]_linuxVars

(***************************** what it promises ***************************)

\* A cleanup the daemon confirms is complete: when the caller that owns the
\* session gets its receipt, no tunnel process, no route into the tunnel, no
\* excluded prefix and no endpoint route of the session is left, whatever
\* requests of other connections ran inside its UAPI waits and whatever calls
\* failed before.
ConfirmedCleanup ==
    receipt = "confirmed" =>
        /\ wgu.tunnel = "none" /\ ~wgu.busy
        /\ kern = [excluded |-> {}, endpoints |-> {}, tunnelled |-> FALSE, rules |-> FALSE]
=============================================================================
