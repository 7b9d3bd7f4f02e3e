-------------------------- MODULE RulesPublication ---------------------------
(***************************************************************************)
(* Publication of a server's routing rules.  An administrator's client     *)
(* edits the rules locally, queues them and publishes them over SSH in     *)
(* three remote scripts: read the revision and upload, stage a candidate,  *)
(* commit.  The commit runs on the server under flock, whether or not the  *)
(* client still listens, and either verifies the new policy or restores    *)
(* the files and containers it replaced.  Several administrators publish   *)
(* to one server.                                                          *)
(***************************************************************************)
EXTENDS Integers, FiniteSets

CONSTANTS Publishers,  \* administrators' clients
          Payloads,    \* rule lists an administrator may enter
          HasTunnel,   \* whether a tunnel endpoint is published as well
          MaxAttempts, \* bound: publications started
          MaxEdits,    \* bound: edits
          MaxMishaps,  \* bound: failing commands, lost connections
          MaxReboots   \* bound: reboots of the server

VARIABLES host,    \* the server's files: source, script, rules, ready
          boxes,   \* the containers
          txn,     \* the commit script that holds the lock
          waiting, \* commit scripts waiting for it
          admin,   \* per publisher: SitesController
          att,     \* per publisher: publishVersionedServerRoutingRules
          hist     \* counters, receipts given, what went wrong beyond repair

pubVars == <<host, boxes, txn, waiting, admin, att, hist>>

(* A site is entered as a host, a host with its prefix length or a domain. *)
Domains == {"domain"}
Unsafe == {"0.0.0.0/0"}
CanonicalSite(site) == IF site = "host/32" THEN "host" ELSE site
Canonical(sites) == {CanonicalSite(s) : s \in sites}
AllowedRoute(site) == site \notin Unsafe
Valid(sites) == \A s \in sites : AllowedRoute(s)

NoPolicy == [rev |-> 0, content |-> {}, stamp |-> 0]
NoFile == [rev |-> 0, content |-> {}, stamp |-> 0, sites |-> {}, known |-> {}]
Policy(t) == [rev |-> t.rev, content |-> Canonical(t.sites), stamp |-> t.id]
NoTxn == [id |-> 0, at |-> "none"]

NoJob == [on |-> FALSE]
Job(sites, exp, back) == [on |-> TRUE, sites |-> sites, exp |-> exp, back |-> back, ready |-> FALSE]
IdleAttempt == [at |-> "idle", id |-> 0]

Start == CHOOSE s \in Payloads : TRUE

PubInit ==
    /\ host = [source |-> {}, script |-> NoPolicy, rules |-> NoFile, ready |-> FALSE]
    /\ boxes = {} /\ txn = NoTxn /\ waiting = {}
    /\ admin = [p \in Publishers |-> [local |-> Start, last |-> -1, pend |-> NoJob, job |-> NoJob,
                                      timer |-> FALSE, base |-> Start, crossed |-> FALSE]]
    /\ att = [p \in Publishers |-> IdleAttempt]
    /\ hist = [attempts |-> 0, edits |-> 0, mishaps |-> 0, reboots |-> 0, receipts |-> {},
               restored |-> 0, broken |-> FALSE, torn |-> FALSE, stray |-> FALSE]

MayFail == hist.mishaps < MaxMishaps
Failing == [hist EXCEPT !.mishaps = @ + 1]

-----------------------------------------------------------------------------
(* SitesController: local rules and the queue of publications.             *)

\* startNextManagedSplitTunnelingPublish
Started(a) ==
    IF a.pend.on /\ ~a.job.on /\ a.pend.ready THEN [a EXCEPT !.job = a.pend, !.pend = NoJob] ELSE a

AttemptFor(p, a) == IF a.job.on /\ ~admin[p].job.on THEN [at |-> "start", id |-> 0] ELSE att[p]

Entered(p, sites) == sites # admin[p].local /\ Valid(sites)

Edit(p, sites) ==
    /\ hist.edits < MaxEdits /\ Entered(p, sites)
    /\ LET a == admin[p]
           job == IF a.pend.on THEN Job(sites, a.pend.exp, a.pend.back) ELSE Job(sites, a.last, a.local)
       IN  admin' = [admin EXCEPT ![p] = [a EXCEPT !.local = sites, !.pend = job, !.timer = TRUE]]
    /\ hist' = [hist EXCEPT !.edits = @ + 1]
    /\ UNCHANGED <<host, boxes, txn, waiting, att>>

Debounced(p) ==
    /\ admin[p].timer
    /\ LET a == Started([admin[p] EXCEPT !.timer = FALSE, !.pend = IF @.on THEN [@ EXCEPT !.ready = TRUE] ELSE @])
       IN  admin' = [admin EXCEPT ![p] = a] /\ att' = [att EXCEPT ![p] = AttemptFor(p, a)]
    /\ UNCHANGED <<host, boxes, txn, waiting, hist>>

Retry(p) ==
    /\ admin[p].pend.on
    /\ LET a == admin[p]
           job == [a.pend EXCEPT !.ready = TRUE, !.exp = IF a.last >= 0 THEN a.last ELSE @]
           b == Started([a EXCEPT !.pend = job])
       IN  admin' = [admin EXCEPT ![p] = b] /\ att' = [att EXCEPT ![p] = AttemptFor(p, b)]
    /\ UNCHANGED <<host, boxes, txn, waiting, hist>>

\* The draft left after a failure: the newer one, or after a conflict the same.
StillPending(a, r) ==
    IF r.result = "conflict" THEN [(IF a.pend.on THEN a.pend ELSE a.job) EXCEPT !.exp = r.rev, !.ready = FALSE]
    ELSE IF a.pend.on THEN [a.pend EXCEPT !.back = a.job.back] ELSE NoJob

\* The watcher's handler for a failed publication.
Failed(a, r) ==
    LET pend == StillPending(a, r)
        last == CASE r.result = "conflict" -> r.rev
                  [] r.result = "restored" -> r.exp
                  [] r.result = "partial" -> -1
                  [] OTHER -> a.last
    IN  [a EXCEPT !.job = NoJob, !.pend = pend, !.last = last,
                  !.local = IF pend.on THEN @ ELSE a.job.back,
                  !.crossed = @ \/ (r.result = "conflict" /\ a.pend.on)]

Published(a, r) ==
    [a EXCEPT !.job = NoJob, !.last = r.rev, !.base = a.job.sites, !.crossed = FALSE,
              !.pend = IF @.on THEN [@ EXCEPT !.exp = r.rev] ELSE @]

\* The publication of p ends with r; the queue goes on.
Concluded(p, r) ==
    LET a == Started(IF r.result = "verified" THEN Published(admin[p], r) ELSE Failed(admin[p], r))
    IN  /\ admin' = [admin EXCEPT ![p] = a]
        /\ att' = [att EXCEPT ![p] = IF a.job.on THEN [at |-> "start", id |-> 0] ELSE IdleAttempt]

Result(name, rev, exp) == [result |-> name, rev |-> rev, exp |-> exp]

\* The script of transaction t reports: its publisher may have stopped listening.
Answer(t, name, rev) ==
    IF att[t.by].at = "committing" /\ att[t.by].id = t.id
    THEN Concluded(t.by, Result(name, rev, t.exp))
    ELSE UNCHANGED <<admin, att>>

-----------------------------------------------------------------------------
(* Read, upload and stage.                                                 *)

ReadRevision(p) ==
    /\ att[p].at = "start"
    /\ LET job == admin[p].job
           rev == host.rules.rev
       IN  \/ /\ ~Valid(job.sites) \/ (job.exp >= 0 /\ job.exp # rev)
              /\ Concluded(p, Result(IF Valid(job.sites) THEN "conflict" ELSE "not_needed", rev, job.exp))
              /\ UNCHANGED hist
           \/ /\ Valid(job.sites) /\ (job.exp < 0 \/ job.exp = rev) /\ hist.attempts < MaxAttempts
              /\ att' = [att EXCEPT ![p] = [at |-> "read", id |-> hist.attempts + 1, by |-> p, exp |-> rev,
                                            rev |-> rev + 1, sites |-> job.sites]]
              /\ hist' = [hist EXCEPT !.attempts = @ + 1]
              /\ UNCHANGED admin
           \/ MayFail /\ Concluded(p, Result("not_needed", rev, job.exp)) /\ hist' = Failing
    /\ UNCHANGED <<host, boxes, txn, waiting>>

\* The candidate resolver validates the source and builds its rules apart.
Stage(p) ==
    /\ att[p].at = "read"
    /\ \/ /\ txn = NoTxn /\ host.rules.rev # att[p].exp
          /\ Concluded(p, Result("conflict", host.rules.rev, att[p].exp)) /\ UNCHANGED hist
       \/ /\ txn = NoTxn /\ host.rules.rev = att[p].exp
          /\ att' = [att EXCEPT ![p].at = "staged"] /\ UNCHANGED <<admin, hist>>
       \/ /\ MayFail /\ hist' = Failing
          /\ Concluded(p, Result("not_needed", host.rules.rev, att[p].exp))
    /\ UNCHANGED <<host, boxes, txn, waiting>>

Submit(p) ==
    /\ att[p].at = "staged"
    /\ waiting' = waiting \cup {[id |-> att[p].id, by |-> p, exp |-> att[p].exp, rev |-> att[p].rev,
                                 sites |-> att[p].sites, cand |-> TRUE]}
    /\ att' = [att EXCEPT ![p] = [at |-> "committing", id |-> @.id]]
    /\ UNCHANGED <<host, boxes, txn, admin, hist>>

\* The SSH session fails: the client removes the candidate under the script.
GiveUp(p) ==
    /\ att[p].at = "committing" /\ (MayFail \/ ~\E t \in waiting \cup {txn} : t.id = att[p].id)
    /\ waiting' = {IF t.id = att[p].id THEN [t EXCEPT !.cand = FALSE] ELSE t : t \in waiting}
    /\ txn' = IF txn.id = att[p].id THEN [txn EXCEPT !.cand = FALSE] ELSE txn
    /\ Concluded(p, Result("not_reported", -1, -1))
    /\ hist' = IF MayFail THEN Failing ELSE hist
    /\ UNCHANGED <<host, boxes>>

-----------------------------------------------------------------------------
(* The commit script.                                                      *)

Box(kind, of, up, runs) == [kind |-> kind, of |-> of, up |-> up, runs |-> runs]
Published0(kind) == {b \in boxes : b.kind = kind /\ b.of = 0}
Backup(kind) == {b \in boxes : b.kind = kind /\ b.of = txn.id}

LockTimeout(t) ==
    /\ txn # NoTxn
    /\ waiting' = waiting \ {t}
    /\ Answer(t, "not_needed", host.rules.rev)
    /\ UNCHANGED <<host, boxes, txn, hist>>

Begun(t) ==
    [id |-> t.id, by |-> t.by, exp |-> t.exp, rev |-> t.rev, sites |-> t.sites, cand |-> t.cand,
     at |-> "tunnel", old |-> host, was |-> {b \in boxes : b.of = 0},
     newBridge |-> FALSE, newTunnel |-> FALSE, oldBridge |-> FALSE, oldTunnel |-> FALSE, ok |-> TRUE]

\* A mutant: the revision is compared while staging only.
CurrentUnchecked(t) == TRUE

Current(t) == host.rules.rev = t.exp

CommitLock(t) ==
    /\ txn = NoTxn
    /\ waiting' = waiting \ {t}
    /\ \/ ~Current(t) /\ Answer(t, "conflict", host.rules.rev) /\ UNCHANGED <<txn, hist>>
       \/ Current(t) /\ ~t.cand /\ Answer(t, "not_needed", t.exp) /\ UNCHANGED <<txn, hist>>
       \/ Current(t) /\ t.cand /\ txn' = Begun(t) /\ UNCHANGED <<admin, att, hist>>
       \/ MayFail /\ Answer(t, "not_needed", t.exp) /\ UNCHANGED txn /\ hist' = Failing
    /\ UNCHANGED <<host, boxes>>

Rest == <<waiting, admin, att>>
At(step) == txn.at = step
Goes(step) == txn' = [txn EXCEPT !.at = step]

\* fail_commit, or a signal: the trap undoes the transaction.
Fail(step) ==
    /\ At(step) /\ MayFail /\ hist' = Failing /\ Goes("undo")
    /\ UNCHANGED <<host, boxes>> /\ UNCHANGED Rest

Renamed(kind, up) ==
    (boxes \ Published0(kind)) \cup {[b EXCEPT !.of = txn.id, !.up = up] : b \in Published0(kind)}

\* Rename the old container, note it, stop it.  A signal between the rename
\* and the note leaves the container under its backup name.
SetAside(kind, next, Noted(_)) ==
    \/ /\ Published0(kind) # {} /\ boxes' = Renamed(kind, FALSE)
       /\ txn' = [Noted(txn) EXCEPT !.at = next] /\ UNCHANGED <<host, hist>>
    \/ /\ Published0(kind) # {} /\ MayFail /\ \E b \in Published0(kind) : boxes' = Renamed(kind, b.up)
       /\ txn' = [Noted(txn) EXCEPT !.at = "undo"] /\ hist' = Failing /\ UNCHANGED host
    \/ /\ Published0(kind) # {} /\ MayFail /\ \E b \in Published0(kind) : boxes' = Renamed(kind, b.up)
       /\ Goes("undo") /\ hist' = [Failing EXCEPT !.torn = TRUE] /\ UNCHANGED host
    \/ Published0(kind) = {} /\ Goes(next) /\ UNCHANGED <<host, boxes, hist>>

\* A mutant: bridge_backed_up is never set.
BridgeUnnoted(t) == t

BridgeNoted(t) == [t EXCEPT !.oldBridge = TRUE]
TunnelNoted(t) == [t EXCEPT !.oldTunnel = TRUE]

StopTunnel ==
    /\ At("tunnel") /\ UNCHANGED Rest
    /\ \/ HasTunnel /\ SetAside("tunnel", "bridge", TunnelNoted)
       \/ ~HasTunnel /\ Goes("bridge") /\ UNCHANGED <<host, boxes, hist>>

StopBridge == At("bridge") /\ SetAside("bridge", "source", BridgeNoted) /\ UNCHANGED Rest

SwitchSource ==
    /\ At("source") /\ UNCHANGED <<boxes, hist>> /\ UNCHANGED Rest
    /\ \/ txn.cand /\ host' = [host EXCEPT !.source = txn.sites] /\ Goes("script")
       \/ ~txn.cand /\ Goes("undo") /\ UNCHANGED host

SwitchScript ==
    /\ At("script") /\ UNCHANGED <<boxes, hist>> /\ UNCHANGED Rest
    /\ \/ txn.cand /\ host' = [host EXCEPT !.script = Policy(txn)] /\ Goes("ready")
       \/ ~txn.cand /\ Goes("undo") /\ UNCHANGED host

RemoveReady ==
    /\ At("ready") /\ host' = [host EXCEPT !.ready = FALSE] /\ Goes("run")
    /\ UNCHANGED <<boxes, hist>> /\ UNCHANGED Rest

AddressFree == ~\E b \in boxes : b.kind = "bridge" /\ b.up

\* A signal between docker run and the flag that records it: the trap finds
\* nothing to remove, and the new container stays.
Strays(box) ==
    /\ MayFail /\ hist' = [Failing EXCEPT !.stray = TRUE]
    /\ boxes' = boxes \cup {box} /\ Goes("undo")

\* docker run: a container that was created but did not start keeps the name.
RunBridge ==
    /\ At("run") /\ UNCHANGED host /\ UNCHANGED Rest
    /\ \/ /\ AddressFree
          /\ boxes' = boxes \cup {Box("bridge", 0, TRUE, host.script)}
          /\ txn' = [txn EXCEPT !.at = "verify", !.newBridge = TRUE] /\ UNCHANGED hist
       \/ AddressFree /\ Strays(Box("bridge", 0, TRUE, host.script))
       \/ /\ ~AddressFree \/ MayFail
          /\ boxes' = boxes \cup {Box("bridge", 0, FALSE, host.script)}
          /\ Goes("undo") /\ hist' = IF AddressFree THEN Failing ELSE hist

Serves(t) == host.rules.rev = t.rev /\ host.rules.content = Canonical(t.sites)

VerifyBridge ==
    /\ At("verify") /\ UNCHANGED <<host, boxes>> /\ UNCHANGED Rest
    /\ \/ host.ready /\ Serves(txn) /\ Goes("tunnel run") /\ UNCHANGED hist
       \/ host.ready /\ ~Serves(txn) /\ Goes("undo") /\ UNCHANGED hist

RunTunnel ==
    /\ At("tunnel run") /\ UNCHANGED host /\ UNCHANGED Rest
    /\ \/ /\ HasTunnel
          /\ boxes' = boxes \cup {Box("tunnel", 0, TRUE, NoPolicy)}
          /\ txn' = [txn EXCEPT !.at = IF Serves(txn) THEN "receipt" ELSE "undo", !.newTunnel = TRUE]
          /\ UNCHANGED hist
       \/ HasTunnel /\ Strays(Box("tunnel", 0, TRUE, NoPolicy))
       \/ /\ HasTunnel /\ MayFail /\ Goes("undo") /\ hist' = Failing
          /\ boxes' \in {boxes, boxes \cup {Box("tunnel", 0, FALSE, NoPolicy)}}
       \/ ~HasTunnel /\ Goes("receipt") /\ UNCHANGED <<boxes, hist>>

Receipt ==
    /\ At("receipt")
    /\ \/ /\ host.source = txn.sites /\ host.script = Policy(txn)
          /\ boxes' = {b \in boxes : b.of # txn.id}
          /\ hist' = [hist EXCEPT !.receipts = @ \cup {[id |-> txn.id, rev |-> txn.rev, sites |-> txn.sites]},
                                  !.broken = FALSE, !.stray = FALSE]
          /\ Answer(txn, "verified", txn.rev) /\ txn' = NoTxn
       \/ /\ host.source # txn.sites \/ host.script # Policy(txn)
          /\ Goes("undo") /\ UNCHANGED <<boxes, hist, admin, att>>
    /\ UNCHANGED <<host, waiting>>

-----------------------------------------------------------------------------
(* rollback_publish.                                                       *)

UndoRemove ==
    /\ At("undo") /\ UNCHANGED host /\ UNCHANGED Rest
    /\ LET new == {b \in boxes : b.of = 0 /\ ((b.kind = "bridge" /\ txn.newBridge)
                                              \/ (b.kind = "tunnel" /\ txn.newTunnel))}
       IN  \/ boxes' = boxes \ new /\ Goes("undo files") /\ UNCHANGED hist
           \/ /\ new # {} /\ MayFail /\ hist' = Failing
              /\ txn' = [txn EXCEPT !.at = "undo files", !.ok = FALSE] /\ UNCHANGED boxes

Files == {"source", "script", "rules", "ready"}

Restored(missed) ==
    [source |-> IF "source" \in missed THEN host.source ELSE txn.old.source,
     script |-> IF "script" \in missed THEN host.script ELSE txn.old.script,
     rules  |-> IF "rules" \in missed THEN host.rules ELSE txn.old.rules,
     ready  |-> IF "ready" \in missed THEN host.ready ELSE txn.old.ready]

UndoFiles ==
    /\ At("undo files") /\ UNCHANGED boxes /\ UNCHANGED Rest
    /\ \/ host' = Restored({}) /\ Goes("undo boxes") /\ UNCHANGED hist
       \/ /\ MayFail /\ hist' = Failing
          /\ \E f \in Files : host' = Restored({f})
          /\ txn' = [txn EXCEPT !.at = "undo boxes", !.ok = FALSE]

\* docker rename fails when the name is taken; docker start follows it.
Returned(kind, noted) ==
    IF ~noted \/ Published0(kind) # {} THEN {b \in boxes : b.kind = kind}
    ELSE ({b \in boxes : b.kind = kind} \ Backup(kind))
         \cup {Box(kind, 0, \E o \in txn.was : o.kind = kind /\ o.up,
                   IF kind = "bridge" THEN host.script ELSE NoPolicy)}

Reported == IF txn.ok THEN "restored" ELSE "partial"

UndoBoxes ==
    /\ At("undo boxes")
    /\ LET clash == (txn.oldBridge /\ Published0("bridge") # {}) \/ (txn.oldTunnel /\ Published0("tunnel") # {})
       IN  /\ \/ boxes' = Returned("bridge", txn.oldBridge) \cup Returned("tunnel", txn.oldTunnel)
                 /\ txn' = [txn EXCEPT !.at = "report", !.ok = @ /\ ~clash] /\ UNCHANGED hist
              \/ /\ MayFail /\ hist' = Failing /\ (txn.oldBridge \/ txn.oldTunnel)
                 /\ boxes' = boxes /\ txn' = [txn EXCEPT !.at = "report", !.ok = FALSE]
    /\ UNCHANGED host /\ UNCHANGED Rest

UndoReport ==
    /\ At("report")
    /\ Answer(txn, Reported, txn.rev)
    /\ hist' = [hist EXCEPT !.restored = IF txn.ok THEN txn.id ELSE @, !.broken = @ \/ ~txn.ok]
    /\ txn' = NoTxn /\ UNCHANGED <<host, boxes, waiting>>

-----------------------------------------------------------------------------
(* The containers, the VPN clients, the machine.                           *)

Resolvable(found) == (host.source \ Domains) \cup (host.source \cap (found \cup host.rules.known))

\* build_rules of a running resolver: it carries the policy it was started
\* with and reads the source file each time.
Build(b, found) ==
    /\ b.kind = "bridge" /\ b.up
    /\ host' = [host EXCEPT !.rules = [rev |-> b.runs.rev, content |-> b.runs.content, stamp |-> b.runs.stamp,
                                       sites |-> host.source, known |-> Resolvable(found)],
                            !.ready = TRUE]
    /\ UNCHANGED <<boxes, txn, waiting, admin, att, hist>>

\* Containers with restart=always come up again; one bridge gets the address.
Reboot ==
    /\ hist.reboots < MaxReboots
    /\ \E first \in {b \in boxes : b.kind = "bridge"} :
           boxes' = {IF b.kind = "bridge" THEN [b EXCEPT !.up = (b = first), !.runs = host.script]
                                          ELSE [b EXCEPT !.up = TRUE] : b \in boxes}
    /\ txn' = NoTxn /\ waiting' = {}
    /\ hist' = [hist EXCEPT !.reboots = @ + 1, !.broken = @ \/ txn # NoTxn]
    /\ UNCHANGED <<host, admin, att>>

CommitStep ==
    \/ StopTunnel \/ StopBridge \/ SwitchSource \/ SwitchScript \/ RemoveReady
    \/ RunBridge \/ VerifyBridge \/ RunTunnel \/ Receipt
    \/ UndoRemove \/ UndoFiles \/ UndoBoxes \/ UndoReport
    \/ \E step \in {"tunnel", "bridge", "source", "script", "ready", "verify", "tunnel run", "receipt"} : Fail(step)

PubStep ==
    \/ \E p \in Publishers :
           \/ \E sites \in Payloads : Edit(p, sites)
           \/ Debounced(p) \/ Retry(p)
           \/ ReadRevision(p) \/ Stage(p) \/ Submit(p) \/ GiveUp(p)
    \/ \E t \in waiting : CommitLock(t) \/ LockTimeout(t)
    \/ CommitStep
    \/ \E b \in boxes, found \in SUBSET Domains : Build(b, found)
    \/ Reboot

-----------------------------------------------------------------------------
\* A verified publication is what it says: no two receipts claim one revision,
\* and outside a transaction the served rules are never behind a receipt, carry
\* the content the receipt of their revision names, and list the sites their
\* policy was hashed over.  A commit killed half way, a rollback that reported
\* itself partial and a container that a signal left running unrecorded suspend
\* this, until the next verified publication.
ReceiptIsTrue ==
    /\ \A r, s \in hist.receipts : r.rev = s.rev => r = s
    /\ txn = NoTxn /\ ~hist.broken /\ ~hist.stray =>
           /\ \A r \in hist.receipts : host.rules.rev >= r.rev
                  /\ (host.rules.rev = r.rev => host.rules.content = Canonical(r.sites))
           /\ host.rules.content = Canonical(host.rules.sites)

Standing(bs) == {b.kind : b \in {c \in bs : c.of = 0}}
Named(h) == <<h.source, h.script, h.rules.rev, h.rules.content, h.rules.sites>>
Running(bs) == {b.kind : b \in {c \in bs : c.of = 0 /\ c.up}}

\* "restored" is only reported when it is so: the files name the policy the
\* transaction found and the containers it renamed stand under their names
\* again, running exactly if they ran.  Excepted are a signal between a rename, or
\* a docker run, and the flag that records it (there the code does report
\* "restored", with the old container still aside or the new one still running),
\* and a server already left half way.
RestoredIsBefore ==
    [][ txn.at = "undo boxes" /\ txn'.at = "report" /\ txn'.ok /\ ~hist.torn /\ ~hist.stray /\ ~hist.broken
            => Named(host') = Named(txn.old) /\ Standing(txn.was) \subseteq Standing(boxes') /\ Running(boxes') = Running(txn.was) ]_pubVars

\* An administrator's client that has nothing left to publish shows the rules it
\* last published, or the ones it began with: a failed publication takes its
\* edit back and nothing but it, however edits were coalesced and whichever
\* publication failed.  (A conflict under a newer draft is the exception.)
IdleShowsPublished ==
    \A p \in Publishers :
        LET a == admin[p] IN ~a.pend.on /\ ~a.job.on /\ ~a.crossed => a.local = a.base

\* What is published, on the server and on the administrators' screens.
PublicationIsTrue == ReceiptIsTrue /\ IdleShowsPublished
=============================================================================
