---------------------------- MODULE UpdateChannel ----------------------------
(***************************************************************************)
(* Publication of a bundled release to the self-hosted update channel: the *)
(* administrator's client (SelfHostedUpdateBootstrapper) drives the        *)
(* publisher script on the server over SSH, one command per step.  Every   *)
(* command of the script holds the channel's lock from its first check to  *)
(* its last write, so a command is one step of the server; an interrupted  *)
(* one stops between two of its durable writes.                            *)
(*                                                                         *)
(* An SSH failure says nothing about the command: it may have run, may     *)
(* never run, or may still be waiting for the lock and run later (`late`). *)
(***************************************************************************)
EXTENDS Naturals, FiniteSets

CONSTANTS Publishers,   \* administrators whose clients publish
          Releases,     \* manifests: [gen, payload, version, content, rollback, auto]
          Absent,       \* the channel has no manifest
          MaxAttempts,  \* maximumAutomaticPublishAttempts
          MaxRuns,      \* bound: publication runs of all publishers
          MaxLost       \* bound: SSH answers lost

ASSUME ChannelAssumption ==
    Absent \notin Releases /\ {MaxAttempts, MaxRuns, MaxLost} \subseteq Nat

VARIABLES chan,   \* the server: current manifest, durable state of every run
          pub,    \* each publisher: its step, its run and its retry state
          late,   \* commands whose SSH session failed before they ran
          net     \* how many runs were started and answers lost

channelVars == <<chan, pub, late, net>>

Runs == 1..MaxRuns
Committed == {"committed", "finalizing", "finalized"}
Aborted == {"aborted", "abort_finalizing", "finalized_aborted"}
RolledBack == {"rolled_back", "rollback_finalizing", "rollback_finalized"}

NoRun == [phase |-> "none", expected |-> Absent, candidate |-> Absent]
Idle == [at |-> "idle", run |-> 0, release |-> Absent, expected |-> Absent,
         result |-> "none", scheduled |-> FALSE, succeeded |-> FALSE,
         exhausted |-> FALSE, attempts |-> 0]

ChannelInit ==
    /\ chan = [manifest |-> Absent, runs |-> [r \in Runs |-> NoRun]]
    /\ pub = [p \in Publishers |-> Idle]
    /\ late = {}
    /\ net = [runs |-> 0, lost |-> 0]

-----------------------------------------------------------------------------
(* The publisher script.  Each operator is one command: the set of states  *)
(* of the channel it may leave, each with the answer it prints.            *)

Answer(c, ok, kind) == [chan |-> c, ok |-> ok, kind |-> kind]
Refused(c) == {Answer(c, FALSE, "")}
WithPhase(c, r, ph) == [c EXCEPT !.runs[r].phase = ph]

\* check_cas
CasHolds(c, run) == c.manifest \in {run.expected, run.candidate}

\* prepare_mode: the run must be new and the manifest the one it was judged against
Prepare(c, r, run) ==
    IF c.runs[r].phase # "none" \/ ~CasHolds(c, run) THEN Refused(c)
    ELSE {Answer([c EXCEPT !.runs[r] = [run EXCEPT !.phase = "prepared"]],
                 TRUE, "READY")}

\* commit_mode: the write of the new manifest lies between two writes of the state
Commit(c, r, run) ==
    IF c.runs[r].phase # "prepared" \/ ~CasHolds(c, run) THEN Refused(c)
    ELSE LET switched == [c EXCEPT !.manifest = run.candidate]
         IN {Answer(WithPhase(switched, r, "committed"), TRUE, "APPLIED"),
             Answer(WithPhase(c, r, "committing"), FALSE, ""),
             Answer(WithPhase(switched, r, "committing"), FALSE, "")}

\* a reconciliation that reports a prepared run as not applied without fencing it
ReconcileUnfenced(c, r, run) ==
    LET phase == c.runs[r].phase IN
    CASE phase \in Committed /\ c.manifest = run.candidate -> {Answer(c, TRUE, "APPLIED")}
      [] phase \in Aborted \cup {"prepared"} /\ c.manifest = run.expected ->
             {Answer(c, TRUE, "NOT_APPLIED")}
      [] OTHER -> {Answer(c, TRUE, "INDETERMINATE")}

\* reconcile_mode: decides an unfinished run, and fences it before it says so
Reconcile(c, r, run) ==
    LET phase == c.runs[r].phase
        applied == c.manifest = run.candidate
        untouched == c.manifest = run.expected
    IN CASE phase \in Committed /\ applied -> {Answer(c, TRUE, "APPLIED")}
         [] phase = "committing" /\ applied ->
                {Answer(WithPhase(c, r, "committed"), TRUE, "APPLIED")}
         [] phase \in {"prepared", "committing"} /\ untouched
              /\ ~(phase = "committing" /\ applied) ->
                {Answer(WithPhase(c, r, "aborted"), TRUE, "NOT_APPLIED")}
         [] phase \in Aborted /\ untouched -> {Answer(c, TRUE, "NOT_APPLIED")}
         [] OTHER -> {Answer(c, TRUE, "INDETERMINATE")}

\* finalize_mode, finalize_abort_mode and finalize_rollback_mode: `from` are
\* the phases accepted, the last of which is the settled one; cleaning the
\* staging directories may stop in the middle one
Finalize(c, r, manifest, from, middle, settled, kind) ==
    IF c.manifest # manifest \/ c.runs[r].phase \notin from THEN Refused(c)
    ELSE {Answer(WithPhase(c, r, settled), TRUE, kind)}
         \cup (IF c.runs[r].phase = settled THEN {}
               ELSE {Answer(WithPhase(c, r, middle), FALSE, "")})

\* rollback_mode: restores the manifest the run replaced
Rollback(c, r, run) ==
    IF c.runs[r].phase # "committed" \/ c.manifest # run.candidate THEN Refused(c)
    ELSE LET restored == [c EXCEPT !.manifest = run.expected]
         IN {Answer(WithPhase(restored, r, "rolled_back"), TRUE, "APPLIED"),
             Answer(WithPhase(c, r, "rollback_prepared"), FALSE, ""),
             Answer(WithPhase(c, r, "rolling_back"), FALSE, ""),
             Answer(WithPhase(restored, r, "rolling_back"), FALSE, "")}

\* reconcile_rollback_mode
ReconcileRollback(c, r, run) ==
    LET phase == c.runs[r].phase
        restored == c.manifest = run.expected
        standing == c.manifest = run.candidate
    IN CASE phase \in RolledBack /\ restored -> {Answer(c, TRUE, "APPLIED")}
         [] phase = "rolling_back" /\ restored ->
                {Answer(WithPhase(c, r, "rolled_back"), TRUE, "APPLIED")}
         [] phase \in {"committed", "rollback_prepared", "rollback_aborted"}
              /\ standing ->
                {Answer(WithPhase(c, r, "rollback_aborted"), TRUE, "NOT_APPLIED")}
         [] phase = "rolling_back" /\ standing /\ ~restored ->
                {Answer(WithPhase(c, r, "rollback_aborted"), TRUE, "NOT_APPLIED")}
         [] OTHER -> {Answer(c, TRUE, "INDETERMINATE")}

\* the mode given on the command line
Execute(c, cmd, r, run) ==
    CASE cmd = "prepare" -> Prepare(c, r, run)
      [] cmd = "commit" -> Commit(c, r, run)
      [] cmd = "reconcile" -> Reconcile(c, r, run)
      [] cmd = "finalize" ->
             Finalize(c, r, run.candidate, Committed, "finalizing", "finalized", "APPLIED")
      [] cmd = "finalize-abort" ->
             Finalize(c, r, run.expected, Aborted, "abort_finalizing",
                      "finalized_aborted", "NOT_APPLIED")
      [] cmd = "rollback" -> Rollback(c, r, run)
      [] cmd = "reconcile-rollback" -> ReconcileRollback(c, r, run)
      [] cmd = "finalize-rollback" ->
             Finalize(c, r, run.expected, RolledBack, "rollback_finalizing",
                      "rollback_finalized", "APPLIED")

-----------------------------------------------------------------------------
(* The client: which releases may replace which.                           *)

\* validateBundledPublishTransition; generation 0 is a manifest without a policy
ValidTransition(current, candidate) ==
    \/ current = Absent
    \/ /\ current # Absent
       /\ candidate.version >= current.version
       /\ current.gen > 0 => /\ candidate.gen >= current.gen
                             /\ candidate.gen = current.gen
                                  => candidate.payload = current.payload
       /\ (candidate.version = current.version /\ candidate.payload # current.payload)
             => /\ candidate.gen > current.gen
                /\ candidate.content = current.content

-----------------------------------------------------------------------------
(* publishPayload, one action per SSH exchange.                            *)

Step(p, at) == pub' = [pub EXCEPT ![p].at = at]

\* the worker's verdict is delivered to the main thread
Finished(p, verdict) ==
    pub' = [pub EXCEPT ![p].at = "finished", ![p].result = verdict]

RunOf(p) == [phase |-> "none", expected |-> pub[p].expected,
             candidate |-> pub[p].release]

\* runPublisher: the command runs and is answered, runs and is not answered,
\* or is cut off before it ran
RunPublisher(p, cmd, Then(_, _)) ==
    \/ \E a \in Execute(chan, cmd, pub[p].run, RunOf(p)) :
          /\ chan' = a.chan
          /\ \/ Then(a.ok, a.kind) /\ UNCHANGED net
             \/ /\ net.lost < MaxLost
                /\ net' = [net EXCEPT !.lost = @ + 1]
                /\ Then(FALSE, "")
          /\ UNCHANGED late
    \/ /\ net.lost < MaxLost
       /\ net' = [net EXCEPT !.lost = @ + 1]
       /\ late' = late \cup {[cmd |-> cmd, run |-> pub[p].run, of |-> RunOf(p)]}
       /\ Then(FALSE, "")
       /\ UNCHANGED chan

\* the server runs a command its caller has given up on
LateCommand ==
    \E l \in late :
        /\ \E a \in Execute(chan, l.cmd, l.run, l.of) : chan' = a.chan
        /\ late' = late \ {l}
        /\ UNCHANGED <<pub, net>>

\* loadPayload: only a release under a policy names a version to roll back to,
\* the one its policy calls the previous version
LoadPayload(rel) == rel.rollback # 0 => rel.gen > 0 /\ rel.rollback < rel.version

\* start: automatic publication after the VPN connected
Start(p) ==
    /\ pub[p].at = "idle" /\ ~pub[p].scheduled
    /\ ~pub[p].succeeded /\ ~pub[p].exhausted /\ pub[p].attempts < MaxAttempts
    /\ \E rel \in {r \in Releases : LoadPayload(r)} :
          pub' = [pub EXCEPT ![p].scheduled = TRUE, ![p].release = rel]
    /\ UNCHANGED <<chan, late, net>>

\* the timer of start: the worker takes a fresh run identifier
Begin(p) ==
    /\ pub[p].scheduled /\ pub[p].at = "idle" /\ net.runs < MaxRuns
    /\ net' = [net EXCEPT !.runs = @ + 1]
    /\ pub' = [pub EXCEPT ![p].scheduled = FALSE, ![p].at = "probe",
                          ![p].attempts = @ + 1, ![p].run = net.runs + 1,
                          ![p].result = "none"]
    /\ UNCHANGED <<chan, late>>

\* probe, and the judgement of the transition; the uploads that follow only
\* touch the run's own staging directory
Probe(p) ==
    /\ pub[p].at = "probe"
    /\ \/ /\ ValidTransition(chan.manifest, pub[p].release)
          /\ pub' = [pub EXCEPT ![p].at = "prepare", ![p].expected = chan.manifest]
       \/ Finished(p, "refused")
    /\ UNCHANGED <<chan, late, net>>

\* prepare; approval is checked before it
PrepareRun(p) ==
    /\ pub[p].at = "prepare"
    /\ RunPublisher(p, "prepare",
          LAMBDA ok, kind : Step(p, IF ok /\ kind = "READY" THEN "install" ELSE "abort"))

\* installOrRefreshUpdateHost and the approval checked again around it
InstallHost(p) ==
    /\ pub[p].at = "install"
    /\ \E ready \in BOOLEAN : Step(p, IF ready THEN "commit" ELSE "abort")
    /\ UNCHANGED <<chan, late, net>>

\* abortUncommitted
AbortUncommitted(p) ==
    /\ pub[p].at = "abort"
    /\ RunPublisher(p, "reconcile",
          LAMBDA ok, kind : IF ok /\ kind = "NOT_APPLIED" THEN Step(p, "finalize-abort")
                            ELSE Finished(p, "unknown"))

\* commit
CommitRun(p) ==
    /\ pub[p].at = "commit"
    /\ RunPublisher(p, "commit",
          LAMBDA ok, kind : Step(p, IF ok /\ kind = "APPLIED" THEN "verify"
                                    ELSE "reconcile"))

\* reconcilePublication after an unacknowledged commit
ReconcileRun(p) ==
    /\ pub[p].at = "reconcile"
    /\ RunPublisher(p, "reconcile",
          LAMBDA ok, kind : CASE ok /\ kind = "APPLIED" -> Step(p, "verify")
                              [] ok /\ kind = "NOT_APPLIED" -> Step(p, "finalize-abort")
                              [] OTHER -> Finished(p, "unknown"))

\* finalizeExact(finalize-abort): the run was not applied either way
FinalizeAbort(p) ==
    /\ pub[p].at = "finalize-abort"
    /\ RunPublisher(p, "finalize-abort",
          LAMBDA ok, kind : Finished(p, "not_applied"))

\* verifyRemoteUpdateHost; a candidate that was already current is finalized
\* although the endpoint does not serve it: there is nothing to go back to
Verify(p) ==
    /\ pub[p].at = "verify"
    /\ \E served \in BOOLEAN :
          Step(p, CASE served -> "finalize"
                    [] ~served /\ pub[p].expected = pub[p].release -> "finalize-unserved"
                    [] OTHER -> "rollback")
    /\ UNCHANGED <<chan, late, net>>

\* finalizeExact(finalize); a candidate the endpoint does not serve is no success
FinalizeRun(p) ==
    /\ pub[p].at \in {"finalize", "finalize-unserved"}
    /\ RunPublisher(p, "finalize",
          LAMBDA ok, kind : Finished(p, CASE ~ok -> "unknown"
                                          [] ok /\ pub[p].at = "finalize" -> "applied"
                                          [] OTHER -> "unserved"))

\* rollback of a candidate the endpoint does not serve
RollbackRun(p) ==
    /\ pub[p].at = "rollback"
    /\ RunPublisher(p, "rollback",
          LAMBDA ok, kind : Step(p, IF ok /\ kind = "APPLIED" THEN "finalize-rollback"
                                    ELSE "reconcile-rollback"))

\* reconcile-rollback
ReconcileRollbackRun(p) ==
    /\ pub[p].at = "reconcile-rollback"
    /\ RunPublisher(p, "reconcile-rollback",
          LAMBDA ok, kind : IF ok /\ kind = "APPLIED" THEN Step(p, "finalize-rollback")
                            ELSE Finished(p, IF ok /\ kind = "NOT_APPLIED"
                                             THEN "stands" ELSE "unknown"))

\* finalizeExact(finalize-rollback)
FinalizeRollback(p) ==
    /\ pub[p].at = "finalize-rollback"
    /\ RunPublisher(p, "finalize-rollback",
          LAMBDA ok, kind : Finished(p, "rolled_back"))

\* completeAutomaticPublishAttempt: the third failure re-arms the cycle; any
\* other failure starts again at once
CompleteAttempt(p) ==
    /\ pub[p].at = "finished"
    /\ LET success == pub[p].result = "applied"
           last == pub[p].attempts >= MaxAttempts
       IN pub' = [pub EXCEPT ![p].at = "idle",
                             ![p].succeeded = success,
                             ![p].attempts = IF ~success /\ last THEN 0 ELSE @,
                             ![p].scheduled = ~success /\ ~last]
    /\ UNCHANGED <<chan, late, net>>

PublisherStep ==
    \/ LateCommand
    \/ \E p \in Publishers :
          \/ Start(p) \/ Begin(p) \/ Probe(p) \/ PrepareRun(p) \/ InstallHost(p)
          \/ AbortUncommitted(p) \/ CommitRun(p) \/ ReconcileRun(p)
          \/ FinalizeAbort(p) \/ Verify(p) \/ FinalizeRun(p) \/ RollbackRun(p)
          \/ ReconcileRollbackRun(p) \/ FinalizeRollback(p) \/ CompleteAttempt(p)

ChannelSpec == ChannelInit /\ [][PublisherStep]_channelVars

-----------------------------------------------------------------------------
(* Properties.                                                             *)

\* The manifest only moves to a release that may follow the one it replaces,
\* or back to the one the failing publication replaced: publishers that judged
\* their release against an older manifest, and commands that run late, are
\* stopped by the compare-and-swap under the lock.
ChannelMovesForward ==
    [][chan'.manifest # chan.manifest =>
          \/ chan'.manifest # Absent /\ ValidTransition(chan.manifest, chan'.manifest)
          \/ \E r \in Runs : /\ chan.runs[r].candidate = chan.manifest
                             /\ chan.runs[r].expected = chan'.manifest
                             /\ chan'.runs[r].phase \in {"rolling_back", "rolled_back"}
      ]_channelVars

\* What a publisher reports about its run stays true on the server, whatever
\* commands of it are still waiting there: a run reported as not applied can no
\* longer be committed, one reported as published is settled, also when the
\* endpoint did not serve it, one reported as rolled back is settled too, and
\* one whose rollback was given up stands.
VerdictIsFinal ==
    \A p \in Publishers :
        pub[p].result # "none" =>
            LET phase == chan.runs[pub[p].run].phase IN
            CASE pub[p].result = "not_applied" -> phase \in Aborted
              [] pub[p].result \in {"applied", "unserved"} -> phase = "finalized"
              [] pub[p].result = "rolled_back" -> phase \in RolledBack
              [] pub[p].result = "stands" -> phase = "rollback_aborted"
              [] OTHER -> TRUE
=============================================================================
