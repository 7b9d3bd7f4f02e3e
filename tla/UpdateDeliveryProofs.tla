------------------------- MODULE UpdateDeliveryProofs -------------------------
(***************************************************************************)
(* What an administrator's client reports of a publication stays true on   *)
(* the server (VerdictsAreFinal), whose manifest only moves the way the    *)
(* releases follow each other (ChannelForward).  A client takes up what    *)
(* the channel offers: it rolls back by itself once for an installed       *)
(* release, however often it crashes and whatever it launches              *)
(* (RollsBackOnce), and both sides change releases in order                *)
(* (ReleasesOrderly).  For every release, run, publisher and number of     *)
(* failures.                                                               *)
(***************************************************************************)
EXTENDS UpdateDelivery, TLAPS

(***************************************************************************)
(* The self-hosted update channel.                                         *)
(***************************************************************************)

Manifests == Releases \cup {Absent}
Phases == {"none", "prepared", "committing"} \cup Committed \cup Aborted \cup RolledBack
          \cup {"rollback_prepared", "rolling_back", "rollback_aborted"}
RunType == [phase : Phases, expected : Manifests, candidate : Manifests]
ChanType == [manifest : Manifests, runs : [Runs -> RunType]]
PublisherModes == {"prepare", "commit", "reconcile", "finalize", "finalize-abort", "rollback",
             "reconcile-rollback", "finalize-rollback"}
LateType == [cmd : PublisherModes, run : Runs, of : RunType]
LiveSteps == {"prepare", "install", "abort", "commit", "reconcile", "finalize-abort", "verify", "finalize",
              "finalize-unserved",
              "rollback", "reconcile-rollback", "finalize-rollback"}
Results == {"none", "refused", "unknown", "not_applied", "applied", "unserved", "stands",
            "rolled_back"}
PublisherType ==
    [at : LiveSteps \cup {"idle", "probe", "finished"}, run : Nat, release : Manifests, expected : Manifests,
     result : Results, scheduled : BOOLEAN, succeeded : BOOLEAN, exhausted : BOOLEAN, attempts : Nat]

\* What a command may do to the channel: it touches its own run only, what the
\* run replaces and offers is fixed once, four sets of phases are never left, and
\* the manifest goes to the candidate or back from it.
Effect(c, d, r, run) ==
    /\ d \in ChanType
    /\ \A q \in Runs : q # r => d.runs[q] = c.runs[q]
    /\ d.runs[r].phase # "none" =>
         \/ c.runs[r].phase # "none" /\ d.runs[r].expected = c.runs[r].expected
            /\ d.runs[r].candidate = c.runs[r].candidate
         \/ d.runs[r].expected = run.expected /\ d.runs[r].candidate = run.candidate
    /\ c.runs[r].phase \in Aborted => d.runs[r].phase \in Aborted
    /\ c.runs[r].phase \in RolledBack => d.runs[r].phase \in RolledBack
    /\ c.runs[r].phase = "finalized" => d.runs[r].phase = "finalized"
    /\ c.runs[r].phase = "rollback_aborted" => d.runs[r].phase = "rollback_aborted"
    /\ d.manifest # c.manifest =>
         \/ c.manifest = run.expected /\ d.manifest = run.candidate
         \/ /\ c.runs[r].phase # "none" /\ c.manifest = run.candidate /\ d.manifest = run.expected
            /\ d.runs[r].phase \in {"rolling_back", "rolled_back"}

\* What an answered command says of the run.
Tells(cmd, a, r) ==
    /\ cmd = "reconcile" /\ a.ok /\ a.kind = "NOT_APPLIED" => a.chan.runs[r].phase \in Aborted
    /\ cmd = "finalize" /\ a.ok => a.chan.runs[r].phase = "finalized"
    /\ cmd = "rollback" /\ a.ok /\ a.kind = "APPLIED" => a.chan.runs[r].phase \in RolledBack
    /\ cmd = "reconcile-rollback" /\ a.ok /\ a.kind = "APPLIED" => a.chan.runs[r].phase \in RolledBack
    /\ cmd = "reconcile-rollback" /\ a.ok /\ a.kind = "NOT_APPLIED" => a.chan.runs[r].phase = "rollback_aborted"

\* A write of the phase of one run.
LEMMA WithPhaseDoes ==
    ASSUME NEW c \in ChanType, NEW r \in Runs, NEW ph \in Phases
    PROVE  LET d == WithPhase(c, r, ph)
           IN /\ d \in ChanType /\ d.manifest = c.manifest /\ d.runs[r].phase = ph
              /\ d.runs[r].expected = c.runs[r].expected /\ d.runs[r].candidate = c.runs[r].candidate
              /\ \A q \in Runs : q # r => d.runs[q] = c.runs[q]
<1> DEFINE x == [c.runs[r] EXCEPT !.phase = ph]
           f == [c.runs EXCEPT ![r] = x]
           d == [c EXCEPT !.runs = f]
<1>1. c.runs \in [Runs -> RunType] /\ c.runs[r] \in RunType BY DEF ChanType
<1>2. x \in RunType /\ x.phase = ph /\ x.expected = c.runs[r].expected /\ x.candidate = c.runs[r].candidate
  BY <1>1 DEF RunType
<1>3. WithPhase(c, r, ph) = d BY DEF WithPhase
<1> HIDE DEF x
<1>4. f \in [Runs -> RunType] /\ f[r] = x /\ \A q \in Runs : q # r => f[q] = c.runs[q] BY <1>1, <1>2
<1> HIDE DEF f
<1> QED BY <1>2, <1>3, <1>4 DEF ChanType

\* A write of the manifest.
LEMMA SwitchedDoes ==
    ASSUME NEW c \in ChanType, NEW m \in Manifests
    PROVE  LET d == [c EXCEPT !.manifest = m] IN d \in ChanType /\ d.manifest = m /\ d.runs = c.runs
BY DEF ChanType

\* Phases by name.
LEMMA PhaseNames ==
    /\ Committed \subseteq Phases /\ Aborted \subseteq Phases /\ RolledBack \subseteq Phases
    /\ {"none", "prepared", "committing", "rollback_prepared", "rolling_back", "rollback_aborted"} \subseteq Phases
BY DEF Phases

\* A command that changes nothing but its run's phase, without leaving one of
\* the four sets.
LEMMA PhaseEffect ==
    ASSUME NEW c \in ChanType, NEW r \in Runs, NEW run, NEW ph \in Phases, c.runs[r].phase # "none",
           c.runs[r].phase \in Aborted => ph \in Aborted,
           c.runs[r].phase \in RolledBack => ph \in RolledBack,
           c.runs[r].phase = "finalized" => ph = "finalized",
           c.runs[r].phase = "rollback_aborted" => ph = "rollback_aborted"
    PROVE  Effect(c, WithPhase(c, r, ph), r, run)
BY WithPhaseDoes DEF Effect

\* A command that is refused.
LEMMA NoEffect ==
    ASSUME NEW c \in ChanType, NEW r \in Runs, NEW run
    PROVE  Effect(c, c, r, run)
BY DEF Effect

\* prepare
LEMMA PrepareDoes ==
    ASSUME NEW c \in ChanType, NEW r \in Runs, NEW run \in RunType, NEW a \in Prepare(c, r, run)
    PROVE  Effect(c, a.chan, r, run)
<1>1. CASE a = Answer(c, FALSE, "") BY <1>1, NoEffect DEF Answer
<1>2. CASE c.runs[r].phase = "none" /\ a = Answer([c EXCEPT !.runs[r] = [run EXCEPT !.phase = "prepared"]], TRUE, "READY")
  <2> DEFINE x == [run EXCEPT !.phase = "prepared"]
             f == [c.runs EXCEPT ![r] = x]
             d == [c EXCEPT !.runs = f]
  <2>1. a.chan = d BY <1>2 DEF Answer
  <2>2. x \in RunType /\ x.expected = run.expected /\ x.candidate = run.candidate BY PhaseNames DEF RunType
  <2> HIDE DEF x
  <2>3. f \in [Runs -> RunType] /\ f[r] = x /\ \A q \in Runs : q # r => f[q] = c.runs[q] BY <2>2 DEF ChanType
  <2> HIDE DEF f
  <2>4. d \in ChanType /\ d.manifest = c.manifest /\ d.runs = f BY <2>3 DEF ChanType
  <2> HIDE DEF d
  <2>5. Effect(c, d, r, run) BY <1>2, <2>2, <2>3, <2>4 DEF Effect, Aborted, RolledBack
  <2> QED BY <2>1, <2>5
<1> QED BY <1>1, <1>2 DEF Prepare, Refused

\* commit
LEMMA CommitDoes ==
    ASSUME NEW c \in ChanType, NEW r \in Runs, NEW run \in RunType, NEW a \in Commit(c, r, run)
    PROVE  Effect(c, a.chan, r, run)
<1>1. CASE a = Answer(c, FALSE, "") BY <1>1, NoEffect DEF Answer
<1>2. CASE c.runs[r].phase = "prepared" /\ CasHolds(c, run) /\ a # Answer(c, FALSE, "")
  <2> DEFINE s == [c EXCEPT !.manifest = run.candidate]
  <2>1. s \in ChanType /\ s.manifest = run.candidate /\ s.runs = c.runs BY SwitchedDoes DEF RunType
  <2>8. \/ a = Answer(WithPhase(s, r, "committed"), TRUE, "APPLIED")
        \/ a = Answer(WithPhase(c, r, "committing"), FALSE, "")
        \/ a = Answer(WithPhase(s, r, "committing"), FALSE, "") BY <1>2 DEF Commit, Refused
  <2> HIDE DEF s
  <2>2. a.chan \in {WithPhase(s, r, "committed"), WithPhase(c, r, "committing"), WithPhase(s, r, "committing")}
    <3>1. CASE a = Answer(WithPhase(s, r, "committed"), TRUE, "APPLIED") BY <3>1 DEF Answer
    <3>2. CASE a = Answer(WithPhase(c, r, "committing"), FALSE, "") BY <3>2 DEF Answer
    <3>3. CASE a = Answer(WithPhase(s, r, "committing"), FALSE, "") BY <3>3 DEF Answer
    <3> QED BY <2>8, <3>1, <3>2, <3>3
  <2>3. "committed" \in Phases /\ "committing" \in Phases BY DEF Phases, Committed
  <2>4. c.manifest \in {run.expected, run.candidate} BY <1>2 DEF CasHolds
  <2>5. ASSUME NEW ph \in {"committed", "committing"} PROVE Effect(c, WithPhase(s, r, ph), r, run)
    <3> DEFINE d == WithPhase(s, r, ph)
    <3>1. /\ d \in ChanType /\ d.manifest = s.manifest /\ d.runs[r].phase = ph
          /\ d.runs[r].expected = s.runs[r].expected /\ d.runs[r].candidate = s.runs[r].candidate
          /\ \A q \in Runs : q # r => d.runs[q] = s.runs[q]
      <4>1. ph \in Phases BY <2>3
      <4> QED BY <2>1, <4>1, WithPhaseDoes
    <3> HIDE DEF d
    <3>2. Effect(c, d, r, run) BY <1>2, <2>1, <2>4, <3>1 DEF Effect, Aborted, RolledBack
    <3> QED BY <3>2 DEF d
  <2>6. Effect(c, WithPhase(c, r, "committing"), r, run) BY <1>2, <2>3, PhaseEffect DEF Aborted, RolledBack
  <2> QED BY <2>2, <2>5, <2>6
<1> QED BY <1>1, <1>2 DEF Commit, Refused

\* reconcile
LEMMA ReconcileDoes ==
    ASSUME NEW c \in ChanType, NEW r \in Runs, NEW run \in RunType, NEW a \in Reconcile(c, r, run)
    PROVE  Effect(c, a.chan, r, run) /\ (a.ok /\ a.kind = "NOT_APPLIED" => a.chan.runs[r].phase \in Aborted)
<1> DEFINE phase == c.runs[r].phase
<1>1. \/ a = Answer(c, TRUE, "APPLIED") \/ a = Answer(c, TRUE, "INDETERMINATE")
      \/ phase \in Aborted /\ a = Answer(c, TRUE, "NOT_APPLIED")
      \/ phase = "committing" /\ a = Answer(WithPhase(c, r, "committed"), TRUE, "APPLIED")
      \/ phase \in {"prepared", "committing"} /\ a = Answer(WithPhase(c, r, "aborted"), TRUE, "NOT_APPLIED")
  BY DEF Reconcile
<1>2. CASE a = Answer(c, TRUE, "APPLIED") \/ a = Answer(c, TRUE, "INDETERMINATE") BY <1>2, NoEffect DEF Answer
<1>3. CASE phase \in Aborted /\ a = Answer(c, TRUE, "NOT_APPLIED") BY <1>3, NoEffect DEF Answer
<1>4. CASE phase = "committing" /\ a = Answer(WithPhase(c, r, "committed"), TRUE, "APPLIED")
  BY <1>4, PhaseEffect DEF Phases, Committed, Aborted, RolledBack, Answer
<1>5. CASE phase \in {"prepared", "committing"} /\ a = Answer(WithPhase(c, r, "aborted"), TRUE, "NOT_APPLIED")
  <2>1. "aborted" \in Phases /\ "aborted" \in Aborted BY DEF Phases, Aborted
  <2> QED BY <1>5, <2>1, WithPhaseDoes, PhaseEffect DEF Answer, Aborted, RolledBack
<1> QED BY <1>1, <1>2, <1>3, <1>4, <1>5

\* finalize, finalize-abort, finalize-rollback
LEMMA FinalizeDoes ==
    ASSUME NEW c \in ChanType, NEW r \in Runs, NEW run \in RunType, NEW manifest, NEW from, NEW middle, NEW settled,
           NEW kind, NEW a \in Finalize(c, r, manifest, from, middle, settled, kind),
           \/ from = Committed /\ middle = "finalizing" /\ settled = "finalized"
           \/ from = Aborted /\ middle = "abort_finalizing" /\ settled = "finalized_aborted"
           \/ from = RolledBack /\ middle = "rollback_finalizing" /\ settled = "rollback_finalized"
    PROVE  Effect(c, a.chan, r, run) /\ (a.ok => a.chan.runs[r].phase = settled)
<1> DEFINE phase == c.runs[r].phase
<1>1. \/ a = Answer(c, FALSE, "")
      \/ phase \in from /\ a = Answer(WithPhase(c, r, settled), TRUE, kind)
      \/ phase \in from /\ phase # settled /\ a = Answer(WithPhase(c, r, middle), FALSE, "") BY DEF Finalize, Refused
<1>2. settled \in Phases /\ middle \in Phases BY DEF Phases, Committed, Aborted, RolledBack
<1>3. CASE a = Answer(c, FALSE, "") BY <1>3, NoEffect DEF Answer
<1>4. CASE phase \in from /\ a = Answer(WithPhase(c, r, settled), TRUE, kind)
  BY <1>2, <1>4, WithPhaseDoes, PhaseEffect DEF Answer, Committed, Aborted, RolledBack
<1>5. CASE phase \in from /\ phase # settled /\ a = Answer(WithPhase(c, r, middle), FALSE, "")
  <2>1. Effect(c, WithPhase(c, r, middle), r, run) BY <1>2, <1>5, PhaseEffect DEF Committed, Aborted, RolledBack
  <2> QED BY <1>5, <2>1 DEF Answer
<1> QED BY <1>1, <1>3, <1>4, <1>5

\* rollback
LEMMA RollbackDoes ==
    ASSUME NEW c \in ChanType, NEW r \in Runs, NEW run \in RunType, NEW a \in Rollback(c, r, run)
    PROVE  Effect(c, a.chan, r, run) /\ (a.ok => a.chan.runs[r].phase \in RolledBack)
<1> DEFINE s == [c EXCEPT !.manifest = run.expected]
<1>1. s \in ChanType /\ s.manifest = run.expected /\ s.runs = c.runs BY SwitchedDoes DEF RunType
<1>2. \/ a = Answer(c, FALSE, "")
      \/ /\ c.runs[r].phase = "committed" /\ c.manifest = run.candidate
         /\ \/ a = Answer(WithPhase(s, r, "rolled_back"), TRUE, "APPLIED")
            \/ a = Answer(WithPhase(s, r, "rolling_back"), FALSE, "")
            \/ \E ph \in {"rollback_prepared", "rolling_back"} : a = Answer(WithPhase(c, r, ph), FALSE, "")
  BY DEF Rollback, Refused
<1>3. "rolled_back" \in Phases /\ "rolling_back" \in Phases /\ "rollback_prepared" \in Phases /\ "rolled_back" \in RolledBack
  BY DEF Phases, RolledBack
<1> HIDE DEF s
<1>4. CASE a = Answer(c, FALSE, "") BY <1>4, NoEffect DEF Answer
<1>5. ASSUME c.runs[r].phase = "committed", c.manifest = run.candidate, NEW ph \in {"rolled_back", "rolling_back"}
      PROVE  Effect(c, WithPhase(s, r, ph), r, run) /\ WithPhase(s, r, ph).runs[r].phase = ph
  <2> DEFINE d == WithPhase(s, r, ph)
  <2>1. /\ d \in ChanType /\ d.manifest = s.manifest /\ d.runs[r].phase = ph
        /\ d.runs[r].expected = s.runs[r].expected /\ d.runs[r].candidate = s.runs[r].candidate
        /\ \A q \in Runs : q # r => d.runs[q] = s.runs[q]
    <3>1. ph \in Phases BY <1>3
    <3> QED BY <1>1, <3>1, WithPhaseDoes
  <2> HIDE DEF d
  <2> QED BY <1>1, <1>5, <2>1 DEF d, Effect, Aborted, RolledBack
<1>6. ASSUME c.runs[r].phase = "committed", NEW ph \in {"rollback_prepared", "rolling_back"}
      PROVE  Effect(c, WithPhase(c, r, ph), r, run) BY <1>3, <1>6, PhaseEffect DEF Aborted, RolledBack
<1>7. CASE /\ c.runs[r].phase = "committed" /\ c.manifest = run.candidate
           /\ a = Answer(WithPhase(s, r, "rolled_back"), TRUE, "APPLIED") BY <1>5, <1>7, <1>3 DEF Answer
<1>8. CASE /\ c.runs[r].phase = "committed" /\ c.manifest = run.candidate
           /\ a = Answer(WithPhase(s, r, "rolling_back"), FALSE, "")
  <2>1. Effect(c, WithPhase(s, r, "rolling_back"), r, run) BY <1>5, <1>8
  <2> QED BY <1>8, <2>1 DEF Answer
<1>9. CASE /\ c.runs[r].phase = "committed"
           /\ \E ph \in {"rollback_prepared", "rolling_back"} : a = Answer(WithPhase(c, r, ph), FALSE, "")
  <2>1. PICK ph \in {"rollback_prepared", "rolling_back"} : a = Answer(WithPhase(c, r, ph), FALSE, "") BY <1>9
  <2>2. Effect(c, WithPhase(c, r, ph), r, run) BY <1>6, <1>9
  <2> QED BY <2>1, <2>2 DEF Answer
<1> QED BY <1>2, <1>4, <1>7, <1>8, <1>9

\* reconcile-rollback
LEMMA ReconcileRollbackDoes ==
    ASSUME NEW c \in ChanType, NEW r \in Runs, NEW run \in RunType, NEW a \in ReconcileRollback(c, r, run)
    PROVE  /\ Effect(c, a.chan, r, run)
           /\ a.ok /\ a.kind = "APPLIED" => a.chan.runs[r].phase \in RolledBack
           /\ a.ok /\ a.kind = "NOT_APPLIED" => a.chan.runs[r].phase = "rollback_aborted"
<1> DEFINE phase == c.runs[r].phase
<1>1. \/ a = Answer(c, TRUE, "INDETERMINATE")
      \/ phase \in RolledBack /\ a = Answer(c, TRUE, "APPLIED")
      \/ phase = "rolling_back" /\ a = Answer(WithPhase(c, r, "rolled_back"), TRUE, "APPLIED")
      \/ /\ phase \in {"committed", "rollback_prepared", "rollback_aborted", "rolling_back"}
         /\ a = Answer(WithPhase(c, r, "rollback_aborted"), TRUE, "NOT_APPLIED") BY DEF ReconcileRollback
<1>2. "rolled_back" \in Phases /\ "rollback_aborted" \in Phases /\ "rolled_back" \in RolledBack
  BY DEF Phases, RolledBack
<1>3. CASE a = Answer(c, TRUE, "INDETERMINATE") BY <1>3, NoEffect DEF Answer
<1>4. CASE phase \in RolledBack /\ a = Answer(c, TRUE, "APPLIED") BY <1>4, NoEffect DEF Answer
<1>5. CASE phase = "rolling_back" /\ a = Answer(WithPhase(c, r, "rolled_back"), TRUE, "APPLIED")
  BY <1>2, <1>5, PhaseEffect, WithPhaseDoes DEF Aborted, RolledBack, Answer
<1>6. CASE /\ phase \in {"committed", "rollback_prepared", "rollback_aborted", "rolling_back"}
           /\ a = Answer(WithPhase(c, r, "rollback_aborted"), TRUE, "NOT_APPLIED")
  BY <1>2, <1>6, PhaseEffect, WithPhaseDoes DEF Aborted, RolledBack, Answer
<1> QED BY <1>1, <1>3, <1>4, <1>5, <1>6

\* Every command of the script keeps to this, and its answer is so.
LEMMA ExecuteDoes ==
    ASSUME NEW c \in ChanType, NEW cmd \in PublisherModes, NEW r \in Runs, NEW run \in RunType,
           NEW a \in Execute(c, cmd, r, run)
    PROVE  Effect(c, a.chan, r, run) /\ Tells(cmd, a, r)
<1>1. CASE cmd = "prepare" BY <1>1, PrepareDoes DEF Execute, Tells
<1>2. CASE cmd = "commit" BY <1>2, CommitDoes DEF Execute, Tells
<1>3. CASE cmd = "reconcile" BY <1>3, ReconcileDoes DEF Execute, Tells
<1>4. CASE cmd = "finalize" BY <1>4, FinalizeDoes DEF Execute, Tells
<1>5. CASE cmd = "finalize-abort" BY <1>5, FinalizeDoes DEF Execute, Tells
<1>6. CASE cmd = "rollback" BY <1>6, RollbackDoes DEF Execute, Tells
<1>7. CASE cmd = "reconcile-rollback" BY <1>7, ReconcileRollbackDoes DEF Execute, Tells
<1>8. CASE cmd = "finalize-rollback" BY <1>8, FinalizeDoes DEF Execute, Tells
<1> QED BY <1>1, <1>2, <1>3, <1>4, <1>5, <1>6, <1>7, <1>8 DEF PublisherModes

-----------------------------------------------------------------------------
(* The inductive invariant.  A run has one identity, what it replaces and   *)
(* what it offers, shared by the server's record of it, by every command of *)
(* it that may still run late, and by the publisher that drives it.         *)

Live(u) == u.at \in LiveSteps
Of(u) == [phase |-> "none", expected |-> u.expected, candidate |-> u.release]
Sound(of) == of \in RunType /\ of.candidate \in Releases /\ ValidTransition(of.expected, of.candidate)

Fits(r, of, c, ls) ==
    /\ c.runs[r].phase # "none" => c.runs[r].expected = of.expected /\ c.runs[r].candidate = of.candidate
    /\ \A l \in ls : l.run = r => l.of = of
Untouched(r, c, ls) == c.runs[r].phase = "none" /\ \A l \in ls : l.run # r

\* What the server has decided when the publisher goes by it or reports it.
Decided(u, ph) ==
    /\ u.at = "finalize-abort" => ph \in Aborted
    /\ u.at = "finalize-rollback" => ph \in RolledBack
    /\ u.result = "not_applied" => ph \in Aborted
    /\ u.result \in {"applied", "unserved"} => ph = "finalized"
    /\ u.result = "rolled_back" => ph \in RolledBack
    /\ u.result = "stands" => ph = "rollback_aborted"

PubOK(u, c, ls, n) ==
    /\ u \in PublisherType
    /\ u.run <= n.runs
    /\ u.at # "idle" \/ u.result # "none" => u.run \in Runs
    /\ u.at # "idle" \/ u.scheduled => u.release \in Releases
    /\ Live(u) => Sound(Of(u)) /\ Fits(u.run, Of(u), c, ls)
    /\ Live(u) \/ u.at = "probe" => u.result = "none"
    /\ u.at = "probe" => Untouched(u.run, c, ls)
    /\ u.run \in Runs => Decided(u, c.runs[u.run].phase)

LateOK(l, c, ls, n) ==
    l \in LateType /\ l.run <= n.runs /\ Sound(l.of) /\ Fits(l.run, l.of, c, ls)

NetType == [runs : Nat, lost : Nat]
ServerOK(c, ls, n) ==
    /\ c \in ChanType /\ n \in NetType /\ n.runs <= MaxRuns
    /\ \A l \in ls : LateOK(l, c, ls, n)
    /\ \A r \in Runs : r > n.runs => Untouched(r, c, ls)

ChannelInv ==
    /\ ServerOK(chan, late, net)
    /\ pub \in [Publishers -> PublisherType]
    /\ \A p \in Publishers : PubOK(pub[p], chan, late, net)
    /\ \A p, q \in Publishers : p # q => pub[p].run # pub[q].run \/ pub[p].run = 0

\* One command of run r, run now or left to run late.
Exchange(c, d, ls, ms, r, of) ==
    Effect(c, d, r, of) /\ \A l \in ms : l \in ls \/ (l.run = r /\ l.of = of)

\* A run keeps its identity: the server's record and the waiting commands agree.
LEMMA FitsKeeps ==
    ASSUME NEW c \in ChanType, NEW d \in ChanType, NEW ls, NEW ms, NEW r \in Runs, NEW of, NEW q \in Runs, NEW me,
           Exchange(c, d, ls, ms, r, of), Fits(q, me, c, ls), q = r => me = of
    PROVE  Fits(q, me, d, ms)
<1> QED BY DEF Fits, Exchange, Effect

\* An untouched run stays untouched.
LEMMA UntouchedKeeps ==
    ASSUME NEW c, NEW d, NEW ls, NEW ms, NEW r \in Runs, NEW of, NEW q \in Runs,
           Exchange(c, d, ls, ms, r, of), Untouched(q, c, ls), q # r
    PROVE  Untouched(q, d, ms)
BY DEF Exchange, Effect, Untouched

\* What is decided stays decided.
LEMMA DecidedKeeps ==
    ASSUME NEW c \in ChanType, NEW d \in ChanType, NEW r \in Runs, NEW of, NEW q \in Runs, NEW u,
           Effect(c, d, r, of), Decided(u, c.runs[q].phase)
    PROVE  Decided(u, d.runs[q].phase)
<1>1. CASE q # r BY <1>1 DEF Effect
<1>2. CASE q = r BY <1>2 DEF Effect, Decided
<1> QED BY <1>1, <1>2

\* A command of another run, or of its own, leaves what holds of a publisher.
LEMMA PubKeeps ==
    ASSUME NEW c \in ChanType, NEW d \in ChanType, NEW ls, NEW ms, NEW r \in Runs, NEW of, NEW u,
           NEW n \in NetType, NEW m \in NetType, n.runs <= m.runs,
           Exchange(c, d, ls, ms, r, of), PubOK(u, c, ls, n),
           u.run = r => u.at # "probe" /\ (Live(u) => Of(u) = of)
    PROVE  PubOK(u, d, ms, m)
<1>1. u \in PublisherType BY DEF PubOK
<1>3. ASSUME Live(u) PROVE Sound(Of(u)) /\ Fits(u.run, Of(u), d, ms) BY <1>3, FitsKeeps DEF PubOK, Live, LiveSteps
<1>4. ASSUME u.at = "probe" PROVE Untouched(u.run, d, ms) BY <1>4, UntouchedKeeps DEF PubOK
<1>5. ASSUME u.run \in Runs PROVE Decided(u, d.runs[u.run].phase) BY <1>5, DecidedKeeps DEF PubOK, Exchange
<1> QED BY <1>1, <1>3, <1>4, <1>5 DEF PubOK, NetType, PublisherType

\* The server's side holds after a command.
LEMMA ServerKeeps ==
    ASSUME NEW c, NEW ls, NEW n, ServerOK(c, ls, n), NEW d \in ChanType, NEW ms, NEW m \in NetType,
           m.runs = n.runs, NEW r \in Runs, NEW of, Exchange(c, d, ls, ms, r, of), r <= n.runs,
           Sound(of), Fits(r, of, c, ls), \A l \in ms : l \in LateType
    PROVE  ServerOK(d, ms, m)
<1>1. c \in ChanType /\ n \in NetType /\ n.runs <= MaxRuns BY DEF ServerOK
<1>2. ASSUME NEW l \in ms PROVE LateOK(l, d, ms, m)
  <2>1. CASE l.run = r /\ l.of = of BY <1>1, FitsKeeps, <2>1 DEF LateOK
  <2>2. CASE l \in ls BY <2>2, <1>1, FitsKeeps DEF ServerOK, LateType, LateOK, Fits
  <2> QED BY <2>1, <2>2 DEF Exchange
<1>3. ASSUME NEW q \in Runs, q > m.runs PROVE Untouched(q, d, ms)
  BY <1>3, <1>1, UntouchedKeeps DEF ServerOK, NetType, Runs
<1> QED BY <1>1, <1>2, <1>3 DEF ServerOK

-----------------------------------------------------------------------------
(* The exchanges of runPublisher.                                          *)

\* What the caller learns, and what happened.
Exchanged(p, cmd, ok, kind) ==
    \/ /\ \E a \in Execute(chan, cmd, pub[p].run, RunOf(p)) :
             /\ chan' = a.chan
             /\ \/ ok = a.ok /\ kind = a.kind /\ net' = net
                \/ ok = FALSE /\ kind = "" /\ net' = [net EXCEPT !.lost = @ + 1]
       /\ late' = late
    \/ /\ ok = FALSE /\ kind = "" /\ net' = [net EXCEPT !.lost = @ + 1]
       /\ late' = late \cup {[cmd |-> cmd, run |-> pub[p].run, of |-> RunOf(p)]}
       /\ chan' = chan

\* What the answer says of the phase the run is in now.
Told(cmd, ok, kind, ph) ==
    /\ cmd = "reconcile" /\ ok /\ kind = "NOT_APPLIED" => ph \in Aborted
    /\ cmd = "finalize" /\ ok => ph = "finalized"
    /\ cmd = "rollback" /\ ok /\ kind = "APPLIED" => ph \in RolledBack
    /\ cmd = "reconcile-rollback" /\ ok /\ kind = "APPLIED" => ph \in RolledBack
    /\ cmd = "reconcile-rollback" /\ ok /\ kind = "NOT_APPLIED" => ph = "rollback_aborted"

\* The counters after a lost answer.
LEMMA LostCounts ==
    ASSUME NEW n \in NetType
    PROVE  LET m == [n EXCEPT !.lost = @ + 1] IN m \in NetType /\ m.runs = n.runs
BY DEF NetType

\* Every publisher's part holds after a command of the publisher p.
LEMMA ExchangeIs ==
    ASSUME ChannelInv, NEW p \in Publishers, Live(pub[p]), NEW cmd \in PublisherModes, NEW ok, NEW kind,
           Exchanged(p, cmd, ok, kind)
    PROVE  /\ pub[p].run \in Runs /\ Sound(RunOf(p)) /\ Fits(pub[p].run, RunOf(p), chan, late)
           /\ Exchange(chan, chan', late, late', pub[p].run, RunOf(p))
           /\ chan' \in ChanType /\ net' \in NetType /\ net'.runs = net.runs
           /\ \A l \in late' : l \in LateType
           /\ Told(cmd, ok, kind, chan'.runs[pub[p].run].phase)
<1> DEFINE r == pub[p].run
           of == RunOf(p)
<1>1. PubOK(pub[p], chan, late, net) /\ ServerOK(chan, late, net) BY DEF ChannelInv
<1>2. r \in Runs BY <1>1 DEF PubOK, Live, LiveSteps
<1>4. Sound(of) /\ Fits(r, of, chan, late) /\ of \in RunType BY <1>1 DEF PubOK, Sound, Of, RunOf
<1>5. chan \in ChanType /\ net \in NetType /\ \A l \in late : l \in LateType BY <1>1 DEF ServerOK, LateOK
<1> HIDE DEF r, of
<1>6. CASE /\ \E a \in Execute(chan, cmd, r, of) :
                 /\ chan' = a.chan
                 /\ \/ ok = a.ok /\ kind = a.kind /\ net' = net
                    \/ ok = FALSE /\ kind = "" /\ net' = [net EXCEPT !.lost = @ + 1]
           /\ late' = late
  <2>1. PICK a \in Execute(chan, cmd, r, of) :
                 /\ chan' = a.chan
                 /\ \/ ok = a.ok /\ kind = a.kind /\ net' = net
                    \/ ok = FALSE /\ kind = "" /\ net' = [net EXCEPT !.lost = @ + 1] BY <1>6
  <2>2. Effect(chan, a.chan, r, of) /\ Tells(cmd, a, r) BY <1>2, <1>4, <1>5, ExecuteDoes
  <2>3. Exchange(chan, chan', late, late', r, of)
    <3>1. Effect(chan, chan', r, of) BY <2>1, <2>2
    <3>2. \A l \in late' : l \in late BY <1>6
    <3> QED BY <3>1, <3>2 DEF Exchange
  <2>4. chan' \in ChanType BY <2>1, <2>2 DEF Effect
  <2>5. net' \in NetType /\ net'.runs = net.runs BY <1>5, <2>1, LostCounts
  <2>6. Told(cmd, ok, kind, chan'.runs[r].phase) BY <2>1, <2>2 DEF Tells, Told
  <2>7. \A l \in late' : l \in LateType BY <1>5, <1>6
  <2> QED BY <1>2, <1>4, <2>3, <2>4, <2>5, <2>6, <2>7 DEF r, of
<1>7. CASE /\ ok = FALSE /\ kind = "" /\ net' = [net EXCEPT !.lost = @ + 1]
           /\ late' = late \cup {[cmd |-> cmd, run |-> r, of |-> of]}
           /\ chan' = chan
  <2>1. PICK x \in LateType : x = [cmd |-> cmd, run |-> r, of |-> of] /\ x.run = r /\ x.of = of
    <3> DEFINE y == [cmd |-> cmd, run |-> r, of |-> of]
    <3>2. y = [cmd |-> cmd, run |-> r, of |-> of] OBVIOUS
    <3> HIDE DEF y
    <3> QED BY <1>2, <1>4, <3>2 DEF LateType
  <2>2. late' = late \cup {x} BY <1>7, <2>1
  <2>3. Effect(chan, chan', r, of) BY <1>2, <1>5, <1>7, NoEffect
  <2>4. Exchange(chan, chan', late, late', r, of) BY <2>1, <2>2, <2>3 DEF Exchange
  <2>5. net' \in NetType /\ net'.runs = net.runs BY <1>5, <1>7, LostCounts
  <2>6. Told(cmd, ok, kind, chan'.runs[r].phase) BY <1>7 DEF Told
  <2>7. \A l \in late' : l \in LateType BY <1>5, <2>2
  <2> QED BY <1>2, <1>4, <1>5, <1>7, <2>4, <2>5, <2>6, <2>7 DEF r, of
<1> QED BY <1>6, <1>7 DEF Exchanged, r, of

\* The server and every publisher as they stood, after a command of p.
LEMMA ExchangeHolds ==
    ASSUME ChannelInv, NEW p \in Publishers, Live(pub[p]), NEW cmd \in PublisherModes, NEW ok, NEW kind,
           Exchanged(p, cmd, ok, kind)
    PROVE  ServerOK(chan', late', net') /\ \A q \in Publishers : PubOK(pub[q], chan', late', net')
<1>1. PICK r : r = pub[p].run OBVIOUS
<1>2. PICK of : of = RunOf(p) OBVIOUS
<1>3. /\ r \in Runs /\ Sound(of) /\ Fits(r, of, chan, late) /\ Exchange(chan, chan', late, late', r, of)
      /\ chan' \in ChanType /\ net' \in NetType /\ net'.runs = net.runs
      /\ \A l \in late' : l \in LateType BY <1>1, <1>2, ExchangeIs
<1>4. ServerOK(chan, late, net) /\ \A q \in Publishers : PubOK(pub[q], chan, late, net) BY DEF ChannelInv
<1>7. ASSUME NEW q \in Publishers PROVE PubOK(pub[q], chan', late', net')
  BY <1>4, <1>2, <1>3, <1>1, PubKeeps DEF Live, LiveSteps, Of, RunOf, ChannelInv, Runs, ServerOK, NetType
<1> QED BY <1>1, <1>3, <1>4, <1>7, ServerKeeps DEF PubOK

\* A publisher in the middle of its run takes its next step.
LEMMA RunContinues ==
    ASSUME NEW c, NEW ls, NEW n, NEW u, NEW v \in PublisherType, PubOK(u, c, ls, n), Live(u),
           v.at \in LiveSteps \cup {"finished"}, v.run = u.run, v.release = u.release, v.expected = u.expected,
           v.at # "finished" => v.result = "none", Decided(v, c.runs[v.run].phase)
    PROVE  PubOK(v, c, ls, n)
<1> HIDE DEF Of
<1> QED BY DEF PubOK, Of, Live, LiveSteps

\* One publisher changes, and keeps the number of its run.
LEMMA OneChanges ==
    ASSUME ChannelInv, NEW p \in Publishers, NEW v, pub' = [pub EXCEPT ![p] = v], v.run = pub[p].run,
           ServerOK(chan', late', net'), \A q \in Publishers : PubOK(pub[q], chan', late', net'),
           PubOK(v, chan', late', net')
    PROVE  ChannelInv'
<1>2. pub' \in [Publishers -> PublisherType] /\ pub'[p] = v /\ \A q \in Publishers : q # p => pub'[q] = pub[q]
  BY DEF ChannelInv, PubOK
<1> QED BY <1>2 DEF ChannelInv

-----------------------------------------------------------------------------
(* The actions.                                                            *)

\* The record of a publisher after Step and after Finished.
Stepped(u, at) == [u EXCEPT !.at = at]
Reported(u, verdict) == [u EXCEPT !.at = "finished", !.result = verdict]

\* Their fields.
LEMMA SteppedIs ==
    ASSUME NEW u \in PublisherType, NEW at \in LiveSteps
    PROVE  LET v == Stepped(u, at)
           IN /\ v \in PublisherType /\ v.at = at /\ v.run = u.run /\ v.release = u.release
              /\ v.expected = u.expected /\ v.result = u.result
BY DEF Stepped, PublisherType

\* Their fields.
LEMMA ReportedIs ==
    ASSUME NEW u \in PublisherType, NEW verdict \in Results
    PROVE  LET v == Reported(u, verdict)
           IN /\ v \in PublisherType /\ v.at = "finished" /\ v.run = u.run /\ v.release = u.release
              /\ v.expected = u.expected /\ v.result = verdict
BY DEF Reported, PublisherType

\* Step and Finished change one publisher's record.
LEMMA StepIs ==
    ASSUME NEW p \in Publishers, NEW at, pub \in [Publishers -> PublisherType], Step(p, at)
    PROVE  pub' = [pub EXCEPT ![p] = Stepped(pub[p], at)]
BY DEF Step, Stepped

\* Step and Finished change one publisher's record.
LEMMA FinishedIs ==
    ASSUME NEW p \in Publishers, NEW verdict, pub \in [Publishers -> PublisherType], Finished(p, verdict)
    PROVE  pub' = [pub EXCEPT ![p] = Reported(pub[p], verdict)]
BY DEF Finished, Reported

\* The publisher of a run goes on with it: what the next step relies on is so.
LEMMA StepHolds ==
    ASSUME ChannelInv, NEW p \in Publishers, Live(pub[p]), NEW at \in LiveSteps, Step(p, at),
           ServerOK(chan', late', net'), \A q \in Publishers : PubOK(pub[q], chan', late', net'),
           at = "finalize-abort" => chan'.runs[pub[p].run].phase \in Aborted,
           at = "finalize-rollback" => chan'.runs[pub[p].run].phase \in RolledBack
    PROVE  ChannelInv'
<1>1. pub \in [Publishers -> PublisherType] /\ pub[p] \in PublisherType BY DEF ChannelInv
<1>2. PICK v : v = Stepped(pub[p], at) OBVIOUS
<1>3. /\ v \in PublisherType /\ v.at = at /\ v.run = pub[p].run /\ v.release = pub[p].release
      /\ v.expected = pub[p].expected /\ v.result = pub[p].result BY <1>1, <1>2, SteppedIs
<1>5. PICK u : u = pub[p] OBVIOUS
<1>6. PubOK(u, chan', late', net') /\ Live(u) /\ u.result = "none" BY <1>5 DEF PubOK
<1>7. v.result = "none" BY <1>3, <1>5, <1>6
<1> QED BY <1>1, <1>2, <1>3, <1>5, <1>6, <1>7, RunContinues, StepIs, OneChanges DEF Decided

\* The publisher of a run reports it: what it reports is so.
LEMMA FinishedHolds ==
    ASSUME ChannelInv, NEW p \in Publishers, Live(pub[p]), NEW verdict \in Results, Finished(p, verdict),
           ServerOK(chan', late', net'), \A q \in Publishers : PubOK(pub[q], chan', late', net'),
           verdict = "not_applied" => chan'.runs[pub[p].run].phase \in Aborted,
           verdict \in {"applied", "unserved"} => chan'.runs[pub[p].run].phase = "finalized",
           verdict = "rolled_back" => chan'.runs[pub[p].run].phase \in RolledBack,
           verdict = "stands" => chan'.runs[pub[p].run].phase = "rollback_aborted"
    PROVE  ChannelInv'
<1>1. pub \in [Publishers -> PublisherType] /\ pub[p] \in PublisherType BY DEF ChannelInv
<1>2. PICK v : v = Reported(pub[p], verdict) OBVIOUS
<1>3. /\ v \in PublisherType /\ v.at = "finished" /\ v.run = pub[p].run /\ v.release = pub[p].release
      /\ v.expected = pub[p].expected /\ v.result = verdict BY <1>1, <1>2, ReportedIs
<1>5. PICK u : u = pub[p] OBVIOUS
<1> QED BY <1>1, <1>2, <1>3, <1>5, RunContinues, FinishedIs, OneChanges DEF Decided

\* Nothing but a publisher changes.
LEMMA SameServer ==
    ASSUME ChannelInv, UNCHANGED <<chan, late, net>>
    PROVE  ServerOK(chan', late', net') /\ \A q \in Publishers : PubOK(pub[q], chan', late', net')
BY DEF ChannelInv

\* prepare
LEMMA PrepareRunHolds ==
    ASSUME ChannelInv, NEW p \in Publishers, PrepareRun(p) PROVE ChannelInv'
<1>1. PICK ok, kind : /\ Exchanged(p, "prepare", ok, kind)
                      /\ Step(p, IF ok /\ kind = "READY" THEN "install" ELSE "abort")
  BY DEF PrepareRun, RunPublisher, Exchanged
<1>2. Live(pub[p]) /\ "prepare" \in PublisherModes BY DEF PrepareRun, Live, LiveSteps, PublisherModes
<1>3. PICK at : at = IF ok /\ kind = "READY" THEN "install" ELSE "abort" OBVIOUS
<1> QED BY <1>1, <1>2, <1>3, ExchangeHolds, StepHolds DEF LiveSteps

\* commit
LEMMA CommitRunHolds ==
    ASSUME ChannelInv, NEW p \in Publishers, CommitRun(p) PROVE ChannelInv'
<1>1. PICK ok, kind : /\ Exchanged(p, "commit", ok, kind)
                      /\ Step(p, IF ok /\ kind = "APPLIED" THEN "verify" ELSE "reconcile")
  BY DEF CommitRun, RunPublisher, Exchanged
<1>2. Live(pub[p]) /\ "commit" \in PublisherModes BY DEF CommitRun, Live, LiveSteps, PublisherModes
<1>3. PICK at : at = IF ok /\ kind = "APPLIED" THEN "verify" ELSE "reconcile" OBVIOUS
<1> QED BY <1>1, <1>2, <1>3, ExchangeHolds, StepHolds DEF LiveSteps

\* rollback
LEMMA RollbackRunHolds ==
    ASSUME ChannelInv, NEW p \in Publishers, RollbackRun(p) PROVE ChannelInv'
<1>1. PICK ok, kind : /\ Exchanged(p, "rollback", ok, kind)
                      /\ Step(p, IF ok /\ kind = "APPLIED" THEN "finalize-rollback" ELSE "reconcile-rollback")
  BY DEF RollbackRun, RunPublisher, Exchanged
<1>2. Live(pub[p]) /\ "rollback" \in PublisherModes BY DEF RollbackRun, Live, LiveSteps, PublisherModes
<1>3. PICK at : at = IF ok /\ kind = "APPLIED" THEN "finalize-rollback" ELSE "reconcile-rollback" OBVIOUS
<1> QED BY <1>1, <1>2, <1>3, ExchangeIs, ExchangeHolds, StepHolds DEF LiveSteps, Told

\* finalize
LEMMA FinalizeRunHolds ==
    ASSUME ChannelInv, NEW p \in Publishers, FinalizeRun(p) PROVE ChannelInv'
<1>1. PICK ok, kind : /\ Exchanged(p, "finalize", ok, kind)
                      /\ \/ ok /\ Finished(p, "applied")
                         \/ ok /\ Finished(p, "unserved")
                         \/ Finished(p, "unknown") BY DEF FinalizeRun, RunPublisher, Exchanged
<1>2. Live(pub[p]) /\ "finalize" \in PublisherModes BY DEF FinalizeRun, Live, LiveSteps, PublisherModes
<1>3. ServerOK(chan', late', net') /\ \A q \in Publishers : PubOK(pub[q], chan', late', net')
  BY <1>1, <1>2, ExchangeHolds
<1>4. Told("finalize", ok, kind, chan'.runs[pub[p].run].phase) BY <1>1, <1>2, ExchangeIs
<1>5. CASE ok /\ Finished(p, "applied") BY <1>4, <1>5, <1>2, <1>3, FinishedHolds DEF Results, Told
<1>6. CASE Finished(p, "unknown") BY <1>2, <1>3, <1>6, FinishedHolds DEF Results
<1>7. CASE ok /\ Finished(p, "unserved") BY <1>4, <1>7, <1>2, <1>3, FinishedHolds DEF Results, Told
<1> QED BY <1>1, <1>5, <1>6, <1>7

\* finalize-abort
LEMMA FinalizeAbortHolds ==
    ASSUME ChannelInv, NEW p \in Publishers, FinalizeAbort(p) PROVE ChannelInv'
<1>1. PICK ok, kind : /\ Exchanged(p, "finalize-abort", ok, kind)
                      /\ Finished(p, "not_applied") BY DEF FinalizeAbort, RunPublisher, Exchanged
<1>2. Live(pub[p]) /\ "finalize-abort" \in PublisherModes BY DEF FinalizeAbort, Live, LiveSteps, PublisherModes
<1>3. PICK verdict : verdict = "not_applied" OBVIOUS
<1>5. ServerOK(chan', late', net') /\ \A q \in Publishers : PubOK(pub[q], chan', late', net')
  BY <1>1, <1>2, ExchangeHolds
<1>6. PICK u : u = pub[p] OBVIOUS
<1>7. PubOK(u, chan', late', net') /\ u.at = "finalize-abort" BY <1>5, <1>6 DEF FinalizeAbort
<1>8. chan'.runs[u.run].phase \in Aborted BY <1>7 DEF PubOK, Decided
<1> QED BY <1>1, <1>2, <1>3, <1>5, <1>6, <1>8, FinishedHolds DEF Results

\* finalize-rollback
LEMMA FinalizeRollbackHolds ==
    ASSUME ChannelInv, NEW p \in Publishers, FinalizeRollback(p) PROVE ChannelInv'
<1>1. PICK ok, kind : /\ Exchanged(p, "finalize-rollback", ok, kind)
                      /\ Finished(p, "rolled_back") BY DEF FinalizeRollback, RunPublisher, Exchanged
<1>2. Live(pub[p]) /\ "finalize-rollback" \in PublisherModes BY DEF FinalizeRollback, Live, LiveSteps, PublisherModes
<1>3. PICK verdict : verdict = "rolled_back" OBVIOUS
<1>5. ServerOK(chan', late', net') /\ \A q \in Publishers : PubOK(pub[q], chan', late', net')
  BY <1>1, <1>2, ExchangeHolds
<1>6. PICK u : u = pub[p] OBVIOUS
<1>7. PubOK(u, chan', late', net') /\ u.at = "finalize-rollback" BY <1>5, <1>6 DEF FinalizeRollback
<1>8. chan'.runs[u.run].phase \in RolledBack BY <1>7 DEF PubOK, Decided
<1> QED BY <1>1, <1>2, <1>3, <1>5, <1>6, <1>8, FinishedHolds DEF Results

\* abortUncommitted
LEMMA AbortUncommittedHolds ==
    ASSUME ChannelInv, NEW p \in Publishers, AbortUncommitted(p) PROVE ChannelInv'
<1>1. PICK ok, kind : /\ Exchanged(p, "reconcile", ok, kind)
                      /\ \/ (ok /\ kind = "NOT_APPLIED") /\ Step(p, "finalize-abort")
                         \/ Finished(p, "unknown") BY DEF AbortUncommitted, RunPublisher, Exchanged
<1>2. Live(pub[p]) /\ "reconcile" \in PublisherModes BY DEF AbortUncommitted, Live, LiveSteps, PublisherModes
<1>3. ServerOK(chan', late', net') /\ \A q \in Publishers : PubOK(pub[q], chan', late', net')
  BY <1>1, <1>2, ExchangeHolds
<1>4. Told("reconcile", ok, kind, chan'.runs[pub[p].run].phase) BY <1>1, <1>2, ExchangeIs
<1>5. CASE (ok /\ kind = "NOT_APPLIED") /\ Step(p, "finalize-abort")
  BY <1>4, <1>5, <1>2, <1>3, StepHolds DEF LiveSteps, Told
<1>6. CASE Finished(p, "unknown") BY <1>2, <1>3, <1>6, FinishedHolds DEF Results
<1> QED BY <1>1, <1>5, <1>6

\* reconcilePublication
LEMMA ReconcileRunHolds ==
    ASSUME ChannelInv, NEW p \in Publishers, ReconcileRun(p) PROVE ChannelInv'
<1>1. PICK ok, kind : /\ Exchanged(p, "reconcile", ok, kind)
                      /\ \/ (ok /\ kind = "APPLIED") /\ Step(p, "verify")
                         \/ (ok /\ kind = "NOT_APPLIED") /\ Step(p, "finalize-abort")
                         \/ Finished(p, "unknown") BY DEF ReconcileRun, RunPublisher, Exchanged
<1>2. Live(pub[p]) /\ "reconcile" \in PublisherModes BY DEF ReconcileRun, Live, LiveSteps, PublisherModes
<1>3. ServerOK(chan', late', net') /\ \A q \in Publishers : PubOK(pub[q], chan', late', net')
  BY <1>1, <1>2, ExchangeHolds
<1>4. Told("reconcile", ok, kind, chan'.runs[pub[p].run].phase) BY <1>1, <1>2, ExchangeIs
<1>5. CASE (ok /\ kind = "APPLIED") /\ Step(p, "verify") BY <1>2, <1>3, <1>5, StepHolds DEF LiveSteps
<1>6. CASE (ok /\ kind = "NOT_APPLIED") /\ Step(p, "finalize-abort")
  BY <1>4, <1>6, <1>2, <1>3, StepHolds DEF LiveSteps, Told
<1>7. CASE Finished(p, "unknown") BY <1>2, <1>3, <1>7, FinishedHolds DEF Results
<1> QED BY <1>1, <1>5, <1>6, <1>7

\* reconcile-rollback
LEMMA ReconcileRollbackRunHolds ==
    ASSUME ChannelInv, NEW p \in Publishers, ReconcileRollbackRun(p) PROVE ChannelInv'
<1>1. PICK ok, kind : /\ Exchanged(p, "reconcile-rollback", ok, kind)
                      /\ \/ (ok /\ kind = "APPLIED") /\ Step(p, "finalize-rollback")
                         \/ (ok /\ kind = "NOT_APPLIED") /\ Finished(p, "stands")
                         \/ Finished(p, "unknown") BY DEF ReconcileRollbackRun, RunPublisher, Exchanged
<1>2. Live(pub[p]) /\ "reconcile-rollback" \in PublisherModes
  BY DEF ReconcileRollbackRun, Live, LiveSteps, PublisherModes
<1>3. ServerOK(chan', late', net') /\ \A q \in Publishers : PubOK(pub[q], chan', late', net')
  BY <1>1, <1>2, ExchangeHolds
<1>4. Told("reconcile-rollback", ok, kind, chan'.runs[pub[p].run].phase) BY <1>1, <1>2, ExchangeIs
<1>5. CASE (ok /\ kind = "APPLIED") /\ Step(p, "finalize-rollback")
  BY <1>4, <1>5, <1>2, <1>3, StepHolds DEF LiveSteps, Told
<1>6. CASE (ok /\ kind = "NOT_APPLIED") /\ Finished(p, "stands")
  BY <1>4, <1>6, <1>2, <1>3, FinishedHolds DEF Results, Told
<1>7. CASE Finished(p, "unknown") BY <1>2, <1>3, <1>7, FinishedHolds DEF Results
<1> QED BY <1>1, <1>5, <1>6, <1>7

\* installOrRefreshUpdateHost
LEMMA InstallHostHolds ==
    ASSUME ChannelInv, NEW p \in Publishers, InstallHost(p) PROVE ChannelInv'
<1>1. PICK at \in {"commit", "abort"} : Step(p, at) BY DEF InstallHost
<1> QED BY <1>1, SameServer, StepHolds DEF InstallHost, Live, LiveSteps

\* verifyRemoteUpdateHost
LEMMA VerifyHolds ==
    ASSUME ChannelInv, NEW p \in Publishers, Verify(p) PROVE ChannelInv'
<1>1. PICK at \in {"finalize", "finalize-unserved", "rollback"} : Step(p, at) BY DEF Verify
<1> QED BY <1>1, SameServer, StepHolds DEF Verify, Live, LiveSteps

\* start
LEMMA StartHolds ==
    ASSUME ChannelInv, NEW p \in Publishers, Start(p) PROVE ChannelInv'
<1>1. PICK rel \in Releases : pub' = [pub EXCEPT ![p].scheduled = TRUE, ![p].release = rel] BY DEF Start
<1>2. PICK u \in PublisherType : u = pub[p] BY DEF ChannelInv
<1> DEFINE w == [u EXCEPT !.scheduled = TRUE, !.release = rel]
<1>3. /\ w \in PublisherType /\ w.at = u.at /\ w.run = u.run /\ w.result = u.result
      /\ w.release = rel BY DEF PublisherType, Manifests
<1>4. pub' = [pub EXCEPT ![p] = w] BY <1>1, <1>2
<1> HIDE DEF w
<1>5. u.at = "idle" /\ UNCHANGED <<chan, late, net>> BY <1>2 DEF Start
<1>6. PubOK(u, chan', late', net') BY <1>2, <1>5, SameServer
<1>9. PubOK(w, chan', late', net') BY <1>3, <1>5, <1>6 DEF PubOK, Live, LiveSteps, Decided
<1> QED BY <1>2, <1>3, <1>4, <1>5, <1>9, SameServer, OneChanges

\* completeAutomaticPublishAttempt
LEMMA CompleteAttemptHolds ==
    ASSUME ChannelInv, NEW p \in Publishers, CompleteAttempt(p) PROVE ChannelInv'
<1>1. PICK u \in PublisherType : u = pub[p] BY DEF ChannelInv
<1>2. PICK yes \in BOOLEAN : yes = (u.result = "applied") OBVIOUS
<1>3. PICK again \in BOOLEAN : again = (u.result # "applied" /\ ~(u.attempts >= MaxAttempts)) OBVIOUS
<1>4. PICK k \in Nat : k = IF u.result # "applied" /\ u.attempts >= MaxAttempts THEN 0 ELSE u.attempts
  BY DEF PublisherType
<1> DEFINE w == [u EXCEPT !.at = "idle", !.succeeded = yes, !.attempts = k, !.scheduled = again]
<1>5. /\ w \in PublisherType /\ w.at = "idle" /\ w.run = u.run /\ w.result = u.result
      /\ w.release = u.release BY DEF PublisherType
<1>6. pub' = [pub EXCEPT ![p] = w] BY <1>1, <1>2, <1>3, <1>4 DEF CompleteAttempt
<1> HIDE DEF w
<1>7. u.at = "finished" /\ UNCHANGED <<chan, late, net>> BY <1>1 DEF CompleteAttempt
<1>8. PubOK(u, chan', late', net') BY <1>1, <1>7, SameServer
<1>11. PubOK(w, chan', late', net') BY <1>5, <1>7, <1>8 DEF PubOK, Live, LiveSteps, Decided
<1> QED BY <1>1, <1>5, <1>6, <1>7, <1>11, SameServer, OneChanges

\* probe
LEMMA ProbeHolds ==
    ASSUME ChannelInv, NEW p \in Publishers, Probe(p) PROVE ChannelInv'
<1>1. pub \in [Publishers -> PublisherType] BY DEF ChannelInv
<1>2. PICK u \in PublisherType : u = pub[p] BY <1>1
<1>3. u.at = "probe" /\ UNCHANGED <<chan, late, net>> BY <1>2 DEF Probe
<1>4. PubOK(u, chan', late', net') /\ ServerOK(chan', late', net') BY <1>2, <1>3, SameServer
<1>5. u.run \in Runs /\ u.release \in Releases /\ u.result = "none" /\ Untouched(u.run, chan', late')
  BY <1>3, <1>4 DEF PubOK
<1>6. CASE /\ ValidTransition(chan.manifest, pub[p].release)
           /\ pub' = [pub EXCEPT ![p].at = "prepare", ![p].expected = chan.manifest]
  <2> DEFINE w == [u EXCEPT !.at = "prepare", !.expected = chan.manifest]
  <2>1. chan.manifest \in Manifests BY DEF ChannelInv, ServerOK, ChanType
  <2>2. /\ w \in PublisherType /\ w.at = "prepare" /\ w.run = u.run /\ w.result = u.result
        /\ w.release = u.release /\ w.expected = chan.manifest BY <2>1 DEF PublisherType, LiveSteps
  <2>3. pub' = [pub EXCEPT ![p] = w] BY <1>2, <1>6
  <2> HIDE DEF w
  <2>4. PICK of : of = Of(w) OBVIOUS
  <2>9. PubOK(w, chan', late', net')
    BY <1>2, <1>4, <1>5, <1>6, <2>1, <2>2, <2>4 DEF PubOK, Fits, Untouched, Sound, Of, RunType, Manifests, Phases,
      Decided
  <2> QED BY <1>2, <1>3, <2>2, <2>3, <2>9, SameServer, OneChanges
<1>7. CASE Finished(p, "refused")
  BY ReportedIs, <1>1, <1>2, <1>7, FinishedIs, <1>4, <1>5, <1>3, SameServer, OneChanges DEF Results, Decided, Live,
    LiveSteps, PubOK
<1> QED BY <1>6, <1>7 DEF Probe

\* the timer of start
LEMMA BeginHolds ==
    ASSUME ChannelInv, NEW p \in Publishers, Begin(p) PROVE ChannelInv'
<1>1. pub \in [Publishers -> PublisherType] /\ ServerOK(chan, late, net) BY DEF ChannelInv
<1>2. PICK u \in PublisherType : u = pub[p] BY <1>1
<1>3. PubOK(u, chan, late, net) /\ u.at = "idle" /\ u.scheduled /\ net.runs < MaxRuns /\ UNCHANGED <<chan, late>>
  BY <1>2 DEF ChannelInv, Begin
<1>4. net \in NetType /\ net.runs \in Nat BY <1>1 DEF ServerOK, NetType
<1>5. PICK k \in Nat : k = net.runs + 1 BY <1>4
<1>6. PICK j \in Nat : j = u.attempts + 1 BY DEF PublisherType
<1>7. k \in Runs /\ k > net.runs /\ k <= MaxRuns BY <1>3, <1>4, <1>5, ChannelAssumption DEF Runs
<1> DEFINE w == [u EXCEPT !.scheduled = FALSE, !.at = "probe", !.attempts = j, !.run = k, !.result = "none"]
<1>9. w \in PublisherType /\ w.at = "probe" /\ w.run = k /\ w.result = "none" /\ w.release = u.release
  BY DEF PublisherType, Results
<1>10. pub' = [pub EXCEPT ![p] = w] BY <1>2, <1>5, <1>6 DEF Begin
<1> HIDE DEF w
<1>11. net' \in NetType /\ net'.runs = k BY <1>5, <1>4 DEF Begin, NetType
<1>13. ASSUME NEW q \in Publishers PROVE PubOK(pub[q], chan, late, net') /\ pub[q].run < k
  <2>1. PICK x \in PublisherType : x = pub[q] BY <1>1
  <2>2. PubOK(x, chan, late, net) BY <2>1 DEF ChannelInv
  <2> QED BY <1>4, <1>5, <1>11, <2>1, <2>2 DEF PubOK, PublisherType
<1>15. pub' \in [Publishers -> PublisherType] /\ pub'[p] = w /\ \A q \in Publishers : q # p => pub'[q] = pub[q]
  BY <1>1, <1>9, <1>10
<1>17. ASSUME NEW q \in Publishers, NEW s \in Publishers, q # s
       PROVE  pub'[q].run # pub'[s].run \/ pub'[q].run = 0
  BY <1>1, <1>17, <1>9, <1>13, <1>15 DEF PublisherType, ChannelInv
<1> QED
  BY <1>1, <1>3, <1>4, <1>7, <1>9, <1>11, <1>13, <1>15, <1>17 DEF ChannelInv, Live, LiveSteps, Decided, PubOK,
    ServerOK, LateOK, LateType, Runs

\* A command the caller has given up on.
LEMMA LateIs ==
    ASSUME ChannelInv, LateCommand
    PROVE  \E l \in late : /\ l.run \in Runs /\ l.run <= net.runs /\ Sound(l.of) /\ Fits(l.run, l.of, chan, late)
                           /\ Exchange(chan, chan', late, late', l.run, l.of) /\ chan' \in ChanType
                           /\ late' \subseteq late /\ UNCHANGED <<pub, net>>
<1>1. PICK l \in late : /\ \E a \in Execute(chan, l.cmd, l.run, l.of) : chan' = a.chan
                        /\ late' = late \ {l} /\ UNCHANGED <<pub, net>> BY DEF LateCommand
<1>2. PICK a \in Execute(chan, l.cmd, l.run, l.of) : chan' = a.chan BY <1>1
<1>3. chan \in ChanType /\ LateOK(l, chan, late, net) BY DEF ChannelInv, ServerOK
<1>4. l.cmd \in PublisherModes /\ l.run \in Runs /\ l.of \in RunType BY <1>3 DEF LateOK, LateType
<1>6. Effect(chan, chan', l.run, l.of) BY <1>2, <1>3, <1>4, ExecuteDoes
<1>7. late' \subseteq late BY <1>1
<1> QED BY <1>1, <1>3, <1>4, <1>6, <1>7 DEF LateOK, Exchange, Effect

\* It leaves everything as it should be.
LEMMA LateCommandHolds ==
    ASSUME ChannelInv, LateCommand PROVE ChannelInv'
<1>1. PICK l \in late : /\ l.run \in Runs /\ l.run <= net.runs /\ Sound(l.of) /\ Fits(l.run, l.of, chan, late)
                        /\ Exchange(chan, chan', late, late', l.run, l.of) /\ chan' \in ChanType
                        /\ late' \subseteq late /\ UNCHANGED <<pub, net>> BY LateIs
<1>2. ServerOK(chan, late, net) /\ chan \in ChanType /\ net \in NetType /\ \A x \in late : x \in LateType
  BY DEF ChannelInv, ServerOK, LateOK
<1>5. ASSUME NEW q \in Publishers PROVE PubOK(pub[q], chan', late', net)
  BY <1>2, <1>1, PubKeeps DEF ChannelInv, PubOK, Fits, Untouched, NetType
<1> QED BY <1>1, <1>2, <1>5, ServerKeeps DEF ChannelInv

\* Before the first publication.
LEMMA ChannelStarts ==
    ASSUME ChannelInit PROVE ChannelInv
<1>3. net \in NetType /\ net.runs = 0 /\ 0 <= MaxRuns /\ late = {} BY ChannelAssumption DEF ChannelInit, NetType
<1>5. Idle \in PublisherType /\ Idle.run = 0 /\ Idle.at = "idle" /\ Idle.result = "none" /\ ~Idle.scheduled
  BY DEF Idle, PublisherType, Manifests, Results
<1> QED
  BY <1>3, <1>5 DEF ChannelInv, ServerOK, Untouched, ChannelInit, ChanType, Manifests, NoRun, RunType, Phases, PubOK,
    Live, LiveSteps, Runs

\* Every step of the publishers and of the server keeps the invariant.
LEMMA ChannelKeeps ==
    ASSUME ChannelInv, [PublisherStep]_channelVars PROVE ChannelInv'
<1>1. CASE LateCommand BY <1>1, LateCommandHolds
<1>2. ASSUME NEW p \in Publishers,
             \/ Start(p) \/ Begin(p) \/ Probe(p) \/ PrepareRun(p) \/ InstallHost(p)
             \/ AbortUncommitted(p) \/ CommitRun(p) \/ ReconcileRun(p)
             \/ FinalizeAbort(p) \/ Verify(p) \/ FinalizeRun(p) \/ RollbackRun(p)
             \/ ReconcileRollbackRun(p) \/ FinalizeRollback(p) \/ CompleteAttempt(p)
      PROVE  ChannelInv'
  BY <1>2, StartHolds, BeginHolds, ProbeHolds, PrepareRunHolds, InstallHostHolds, AbortUncommittedHolds,
    CommitRunHolds, ReconcileRunHolds, FinalizeAbortHolds, VerifyHolds, FinalizeRunHolds, RollbackRunHolds,
    ReconcileRollbackRunHolds, FinalizeRollbackHolds, CompleteAttemptHolds
<1>3. CASE UNCHANGED channelVars BY <1>3 DEF channelVars, ChannelInv
<1> QED BY <1>1, <1>2, <1>3 DEF PublisherStep

\* What the publishers report follows.
LEMMA ReportsAreSo ==
    ASSUME ChannelInv PROVE VerdictIsFinal
<1> SUFFICES ASSUME NEW p \in Publishers, pub[p].result # "none"
             PROVE  LET phase == chan.runs[pub[p].run].phase IN
                    CASE pub[p].result = "not_applied" -> phase \in Aborted
                      [] pub[p].result \in {"applied", "unserved"} -> phase = "finalized"
                      [] pub[p].result = "rolled_back" -> phase \in RolledBack
                      [] pub[p].result = "stands" -> phase = "rollback_aborted"
                      [] OTHER -> TRUE BY DEF VerdictIsFinal
<1> QED BY DEF Decided, PubOK, ChannelInv

\* A verdict delivered to the main thread stays true on the server for any
\* number of publishers, runs and lost answers, whatever commands still wait
\* there: the reconciliation that says "not applied" has fenced the run first.
THEOREM VerdictsAreFinal == ChannelSpec => []VerdictIsFinal
<1>1. ChannelInit => ChannelInv BY ChannelStarts
<1>2. ChannelInv /\ [PublisherStep]_channelVars => ChannelInv' BY ChannelKeeps
<1>3. ChannelInv => VerdictIsFinal BY ReportsAreSo
<1> QED BY <1>1, <1>2, <1>3, PTL DEF ChannelSpec

\* The manifest as a command of a run moves it.
Forward(c, d) ==
    d.manifest # c.manifest =>
        \/ d.manifest # Absent /\ ValidTransition(c.manifest, d.manifest)
        \/ \E r \in Runs : /\ c.runs[r].candidate = c.manifest
                           /\ c.runs[r].expected = d.manifest
                           /\ d.runs[r].phase \in {"rolling_back", "rolled_back"}

\* One command of a run whose identity is known and was judged.
LEMMA CommandForward ==
    ASSUME NEW c, NEW d, NEW ls, NEW ms, NEW r \in Runs, NEW of, Exchange(c, d, ls, ms, r, of),
           Sound(of), Fits(r, of, c, ls)
    PROVE  Forward(c, d)
<1>1. CASE d.manifest = c.manifest BY <1>1 DEF Forward
<1>2. CASE c.manifest = of.expected /\ d.manifest = of.candidate BY <1>2, ChannelAssumption DEF Sound, Forward
<1>3. CASE /\ c.runs[r].phase # "none" /\ c.manifest = of.candidate /\ d.manifest = of.expected
           /\ d.runs[r].phase \in {"rolling_back", "rolled_back"} BY <1>3 DEF Fits, Forward
<1> QED BY <1>1, <1>2, <1>3 DEF Exchange, Effect

\* Every exchange of a publisher.
LEMMA ExchangeForward ==
    ASSUME ChannelInv, NEW p \in Publishers, NEW cmd \in PublisherModes, NEW ok, NEW kind,
           Live(pub[p]), Exchanged(p, cmd, ok, kind)
    PROVE  Forward(chan, chan')
BY ExchangeIs, CommandForward

\* The other steps of a publisher leave the channel alone.
LEMMA StepForward ==
    ASSUME ChannelInv, [PublisherStep]_channelVars PROVE Forward(chan, chan')
<1>1. CASE LateCommand BY <1>1, LateIs, CommandForward
<1>2. CASE chan' = chan BY <1>2 DEF Forward
<1>3. ASSUME NEW p \in Publishers, PrepareRun(p) PROVE Forward(chan, chan')
  <2>1. Live(pub[p]) /\ "prepare" \in PublisherModes BY <1>3 DEF PrepareRun, Live, LiveSteps, PublisherModes
  <2>2. \E ok, kind : Exchanged(p, "prepare", ok, kind) BY <1>3 DEF PrepareRun, RunPublisher, Exchanged
  <2> QED BY <2>1, <2>2, ExchangeForward
<1>4. ASSUME NEW p \in Publishers, AbortUncommitted(p) PROVE Forward(chan, chan')
  <2>1. Live(pub[p]) /\ "reconcile" \in PublisherModes BY <1>4 DEF AbortUncommitted, Live, LiveSteps, PublisherModes
  <2>2. \E ok, kind : Exchanged(p, "reconcile", ok, kind) BY <1>4 DEF AbortUncommitted, RunPublisher, Exchanged
  <2> QED BY <2>1, <2>2, ExchangeForward
<1>5. ASSUME NEW p \in Publishers, CommitRun(p) PROVE Forward(chan, chan')
  <2>1. Live(pub[p]) /\ "commit" \in PublisherModes BY <1>5 DEF CommitRun, Live, LiveSteps, PublisherModes
  <2>2. \E ok, kind : Exchanged(p, "commit", ok, kind) BY <1>5 DEF CommitRun, RunPublisher, Exchanged
  <2> QED BY <2>1, <2>2, ExchangeForward
<1>6. ASSUME NEW p \in Publishers, ReconcileRun(p) PROVE Forward(chan, chan')
  <2>1. Live(pub[p]) /\ "reconcile" \in PublisherModes BY <1>6 DEF ReconcileRun, Live, LiveSteps, PublisherModes
  <2>2. \E ok, kind : Exchanged(p, "reconcile", ok, kind) BY <1>6 DEF ReconcileRun, RunPublisher, Exchanged
  <2> QED BY <2>1, <2>2, ExchangeForward
<1>7. ASSUME NEW p \in Publishers, FinalizeAbort(p) PROVE Forward(chan, chan')
  <2>1. Live(pub[p]) /\ "finalize-abort" \in PublisherModes BY <1>7 DEF FinalizeAbort, Live, LiveSteps, PublisherModes
  <2>2. \E ok, kind : Exchanged(p, "finalize-abort", ok, kind) BY <1>7 DEF FinalizeAbort, RunPublisher, Exchanged
  <2> QED BY <2>1, <2>2, ExchangeForward
<1>8. ASSUME NEW p \in Publishers, FinalizeRun(p) PROVE Forward(chan, chan')
  <2>1. Live(pub[p]) /\ "finalize" \in PublisherModes BY <1>8 DEF FinalizeRun, Live, LiveSteps, PublisherModes
  <2>2. \E ok, kind : Exchanged(p, "finalize", ok, kind) BY <1>8 DEF FinalizeRun, RunPublisher, Exchanged
  <2> QED BY <2>1, <2>2, ExchangeForward
<1>9. ASSUME NEW p \in Publishers, RollbackRun(p) PROVE Forward(chan, chan')
  <2>1. Live(pub[p]) /\ "rollback" \in PublisherModes BY <1>9 DEF RollbackRun, Live, LiveSteps, PublisherModes
  <2>2. \E ok, kind : Exchanged(p, "rollback", ok, kind) BY <1>9 DEF RollbackRun, RunPublisher, Exchanged
  <2> QED BY <2>1, <2>2, ExchangeForward
<1>10. ASSUME NEW p \in Publishers, ReconcileRollbackRun(p) PROVE Forward(chan, chan')
  <2>1. Live(pub[p]) /\ "reconcile-rollback" \in PublisherModes
    BY <1>10 DEF ReconcileRollbackRun, Live, LiveSteps, PublisherModes
  <2>2. \E ok, kind : Exchanged(p, "reconcile-rollback", ok, kind)
    BY <1>10 DEF ReconcileRollbackRun, RunPublisher, Exchanged
  <2> QED BY <2>1, <2>2, ExchangeForward
<1>11. ASSUME NEW p \in Publishers, FinalizeRollback(p) PROVE Forward(chan, chan')
  <2>1. Live(pub[p]) /\ "finalize-rollback" \in PublisherModes
    BY <1>11 DEF FinalizeRollback, Live, LiveSteps, PublisherModes
  <2>2. \E ok, kind : Exchanged(p, "finalize-rollback", ok, kind)
    BY <1>11 DEF FinalizeRollback, RunPublisher, Exchanged
  <2> QED BY <2>1, <2>2, ExchangeForward
<1>12. ASSUME NEW p \in Publishers, Start(p) \/ Begin(p) \/ Probe(p) \/ InstallHost(p) \/ Verify(p) \/ CompleteAttempt(p)
       PROVE  chan' = chan BY <1>12 DEF Start, Begin, Probe, InstallHost, Verify, CompleteAttempt
<1>13. CASE UNCHANGED channelVars BY <1>2, <1>13 DEF channelVars
<1> QED BY <1>1, <1>2, <1>3, <1>4, <1>5, <1>6, <1>7, <1>8, <1>9, <1>10, <1>11, <1>12, <1>13 DEF PublisherStep

\* The manifest only moves to a release that may follow the one it replaces, or
\* back to the one the failing publication replaced, for any number of
\* publishers that judged their release against an older manifest and for any
\* commands that run late: the compare-and-swap under the lock stops them.
THEOREM ChannelForward == ChannelSpec => ChannelMovesForward
<1>1. ChannelInit => ChannelInv BY ChannelStarts
<1>2. ChannelInv /\ [PublisherStep]_channelVars => ChannelInv' BY ChannelKeeps
<1>3. ChannelInv /\ [PublisherStep]_channelVars => Forward(chan, chan') BY StepForward
<1>4. Forward(chan, chan') <=>
        (chan'.manifest # chan.manifest =>
            \/ chan'.manifest # Absent /\ ValidTransition(chan.manifest, chan'.manifest)
            \/ \E r \in Runs : /\ chan.runs[r].candidate = chan.manifest
                               /\ chan.runs[r].expected = chan'.manifest
                               /\ chan'.runs[r].phase \in {"rolling_back", "rolled_back"}) BY DEF Forward
<1> QED BY <1>1, <1>2, <1>3, <1>4, PTL DEF ChannelSpec, ChannelMovesForward

-----------------------------------------------------------------------------
(***************************************************************************)
(* The client's updates.                                                   *)
(***************************************************************************)

ReceiptType ==
    [id : Nat, target : Nat, source : Nat, gen : Nat, payload : Nat, back : Nat,
     state : {"pending", "failed"}, late : BOOLEAN, sourceLate : BOOLEAN, rb : {"", "leased", "confirming"},
     origin : {"none", "manual", "automatic"}, intent : Nat, lease : Nat, leaseOver : BOOLEAN,
     recoveries : Nat, handoff : Nat, fails : Nat, retry : {"none", "waiting", "due"}, terminal : BOOLEAN]
AuthType ==
    [state : {"prepared", "authorized"}, id : Nat, source : Nat, version : Nat, gen : Nat, payload : Nat,
     over : BOOLEAN, auto : BOOLEAN, receipt : ReceiptType \cup {NoHealthReceipt}]
PolicyType == [gen : Nat, payload : Nat]
DiskType ==
    [acc : PolicyType, receipt : ReceiptType \cup {NoHealthReceipt},
     last : {"none", "failed", "healthy", "rolled_back"}, marker : Nat, auth : AuthType \cup {NoAuth}]
SelType == [version : Nat, gen : Nat, back : Nat, auto : BOOLEAN]
IntentType ==
    [kind : {"none", "update", "rollback"}, id : Nat, receipt : Nat, lease : Nat, version : Nat, gen : Nat,
     payload : Nat, used : BOOLEAN]
AttemptType == [receipt : Nat, intent : Nat, lease : Nat]
RetryType == [receipt : Nat, fails : Nat]
MemType ==
    [at : {"running", "launch", "starting", "started", "down", "absent"}, highest : Nat, token : Nat,
     checking : BOOLEAN, replies : SUBSET Nat, sel : SelType, selfHosted : BOOLEAN, intent : IntentType,
     rollback : BOOLEAN, busy : BOOLEAN, permission : BOOLEAN, prepared : BOOLEAN, autoMark : BOOLEAN,
     autoQueued : BOOLEAN, queue : SUBSET AttemptType, retries : SUBSET RetryType, wake : BOOLEAN,
     poll : BOOLEAN, download : Nat]
StType == [d : DiskType, m : MemType, n : Nat]
ProcType == [kind : {"none", "update", "rollback"}, version : Nat, gen : Nat, lease : Nat]
WorldType ==
    [platform : Platforms, version : Nat, procs : SUBSET ProcType, expired : SUBSET Nat,
     autoStarts : SUBSET [receipt : Nat, lease : Nat], ids : Nat, checks : Nat, crashes : Nat]

\* The automatic rollback of this receipt has had its launch: it is over, or it
\* was handed off and no attempt in memory can take the handoff back.
Spent(r, m) == r.terminal \/ (r.rb = "confirming" /\ (m.intent.lease = 0 \/ m.intent.lease # r.handoff))

\* The receipt of a state, and the launches it has seen.
ReceiptOK(d, m, n, starts) ==
    /\ \A a \in starts : a.receipt <= n
    /\ d.receipt # NoHealthReceipt =>
         /\ d.receipt.id <= n
         /\ d.receipt.terminal => d.receipt.origin # "automatic"
         /\ \A a \in starts : d.receipt.id = a.receipt => Spent(d.receipt, m)

\* The selection and the intent go together; a download belongs to a running
\* attempt, and a prepared handoff is its end.
MemOK(m) ==
    /\ m.intent.kind = "none" => m.sel.version = 0
    /\ m.intent.kind = "rollback" => m.rollback /\ m.intent.version = m.sel.version
    /\ m.prepared => m.busy
    /\ m.at # "started"
    /\ m.download # 0 => m.busy /\ ~m.prepared /\ m.at = "running"

\* An authorization carries the receipt it becomes.
AuthFine(d, n) ==
    d.auth # NoAuth /\ d.auth.gen > 0 =>
        /\ d.auth.receipt \in ReceiptType /\ d.auth.receipt.target = d.auth.version
        /\ ~d.auth.receipt.terminal /\ d.auth.receipt.id <= n

ClientGood(st, starts) ==
    st \in StType /\ ReceiptOK(st.d, st.m, st.n, starts) /\ AuthFine(st.d, st.n)

\* The durable record of what is about to be installed.
Recorded(d, m) ==
    /\ m.rollback => /\ d.receipt # NoHealthReceipt /\ d.receipt.rb = "confirming"
                     /\ m.intent.kind = "rollback" /\ m.intent.lease # 0
                     /\ d.receipt.handoff = m.intent.lease /\ d.receipt.back = m.sel.version
    /\ ~m.rollback => /\ m.intent.kind = "update"
                      /\ \/ m.sel.gen = 0
                         \/ /\ m.sel.gen = d.acc.gen /\ d.receipt # NoHealthReceipt
                            /\ d.receipt.target = m.sel.version /\ d.receipt.gen = m.sel.gen
                            /\ d.receipt.state = "pending"

\* Between the handoff and the start of the installer the record is there.
LaunchOK(d, m) == m.at = "launch" => Recorded(d, m)

\* So it is between the authorization and the start of Android's.
StartingOK(d, m) ==
    m.at = "starting" => /\ d.auth # NoAuth /\ d.auth.state = "authorized"
                         /\ d.auth.gen = 0 \/ d.auth.gen = d.acc.gen

StartsOK(w) ==
    /\ \A a, b \in w.autoStarts : a.receipt = b.receipt => a = b
    /\ w.autoStarts # {} => w.platform = "desktop"

ClientInv ==
    /\ ClientGood(Here, world.autoStarts) /\ world \in WorldType /\ StartsOK(world)
    /\ (world.platform = "desktop" => disk.auth = NoAuth /\ MemOK(mem) /\ LaunchOK(disk, mem))
    /\ StartingOK(disk, mem)


-----------------------------------------------------------------------------
(* Handlers: functions of disk, memory and the identifiers used.           *)

NoPending(st) == st.d.receipt = NoHealthReceipt
OriginOK(r) == r.terminal => r.origin # "automatic"

\* What a handler may be given.
Ready(st) ==
    st \in StType /\ (~NoPending(st) => st.d.receipt.id <= st.n /\ OriginOK(st.d.receipt))

\* What it may do: the receipt is removed, kept, or new, and one whose automatic
\* rollback was launched stays spent.
ReceiptGoes(st, su) ==
    \/ NoPending(su)
    \/ ~NoPending(st) /\ ~NoPending(su) /\ su.d.receipt.id = st.d.receipt.id
       /\ (Spent(st.d.receipt, st.m) => Spent(su.d.receipt, su.m))
    \/ ~NoPending(su) /\ su.d.receipt.id > st.n
Goes(st, su) ==
    /\ Ready(su) /\ st.n <= su.n /\ ReceiptGoes(st, su)
    /\ (st.d.auth = NoAuth /\ MemOK(st.m)) => MemOK(su.m)
    /\ su.d.auth = st.d.auth \/ su.d.auth = NoAuth

\* The fields a handler writes.
Is(su, st, r, k, n) ==
    /\ su \in StType /\ su.d.receipt = r /\ su.d.auth = st.d.auth /\ su.d.acc = st.d.acc
    /\ su.m = k /\ su.n = n

\* So does one that neither starts nor ends the launch of an installer.
Stays(st, su) == Goes(st, su) /\ su.m.at = st.m.at

\* One handler after another.
LEMMA GoesOn ==
    ASSUME NEW st, NEW su, NEW sv, st \in StType, su \in StType, sv \in StType, Goes(st, su), Goes(su, sv)
    PROVE  Goes(st, sv)
<1>1. st.n \in Nat /\ su.n \in Nat /\ sv.n \in Nat BY DEF StType
<1>3. ReceiptGoes(st, sv)
  <2>1. CASE NoPending(sv) BY <2>1 DEF ReceiptGoes
  <2>2. CASE ~NoPending(sv) /\ sv.d.receipt.id > su.n
    <3>1. sv.d.receipt \in ReceiptType BY <2>2 DEF NoPending, StType, DiskType
    <3>2. sv.d.receipt.id \in Nat BY <3>1 DEF ReceiptType
    <3> QED BY <1>1, <2>2, <3>2 DEF ReceiptGoes, Goes
  <2>3. CASE /\ ~NoPending(su) /\ ~NoPending(sv) /\ sv.d.receipt.id = su.d.receipt.id
             /\ (Spent(su.d.receipt, su.m) => Spent(sv.d.receipt, sv.m)) BY <2>3 DEF Goes, ReceiptGoes
  <2> QED BY <2>1, <2>2, <2>3 DEF Goes, ReceiptGoes
<1> QED BY <1>1, <1>3 DEF Goes

\* One handler after another.
LEMMA StaysOn ==
    ASSUME NEW st, NEW su, NEW sv, Ready(st), Stays(st, su), Stays(su, sv)
    PROVE  Stays(st, sv)
<1> QED BY GoesOn DEF Stays, Goes, Ready

\* A handler that does nothing.
LEMMA GoesNowhere == ASSUME NEW st, Ready(st) PROVE Stays(st, st)
<1> QED BY DEF Stays, Goes, Ready, ReceiptGoes, StType

\* A write of the receipt.
LEMMA ReceiptWritten ==
    ASSUME NEW st \in StType, NEW r \in ReceiptType \cup {NoHealthReceipt}
    PROVE  Is([st EXCEPT !.d.receipt = r], st, r, st.m, st.n)
<1> DEFINE e == [st.d EXCEPT !.receipt = r]
           su == [st EXCEPT !.d = e]
<1>2. e \in DiskType /\ e.receipt = r /\ e.auth = st.d.auth /\ e.acc = st.d.acc BY DEF DiskType, StType
<1> HIDE DEF e
<1>3. su \in StType /\ su.d = e /\ su.m = st.m /\ su.n = st.n BY <1>2 DEF StType
<1>4. [st EXCEPT !.d.receipt = r] = su BY DEF e
<1> HIDE DEF su
<1> QED BY <1>2, <1>3, <1>4 DEF Is

\* A write of the memory.
LEMMA MemoryWritten ==
    ASSUME NEW st \in StType, NEW k \in MemType
    PROVE  Is([st EXCEPT !.m = k], st, st.d.receipt, k, st.n)
<1> DEFINE su == [st EXCEPT !.m = k]
<1>1. su \in StType /\ su.d = st.d /\ su.m = k /\ su.n = st.n BY DEF StType
<1> HIDE DEF su
<1> QED BY <1>1 DEF su, Is

\* Fields of the memory that no launch depends on.
SameCore(m, k) ==
    /\ k \in MemType /\ k.at = m.at /\ k.sel = m.sel /\ k.intent = m.intent /\ k.rollback = m.rollback
    /\ k.busy = m.busy /\ k.prepared = m.prepared /\ k.download = m.download

\* A write of such a field.
LEMMA QuietWrites ==
    ASSUME NEW m \in MemType
    PROVE  /\ \A b \in BOOLEAN : SameCore(m, [m EXCEPT !.wake = b])
           /\ \A b \in BOOLEAN : SameCore(m, [m EXCEPT !.poll = b])
           /\ \A b \in BOOLEAN : SameCore(m, [m EXCEPT !.checking = b])
           /\ \A b \in BOOLEAN : SameCore(m, [m EXCEPT !.autoQueued = b])
           /\ \A n \in Nat : SameCore(m, [m EXCEPT !.token = n])
           /\ \A q \in SUBSET AttemptType : SameCore(m, [m EXCEPT !.queue = q])
           /\ \A q \in SUBSET RetryType : SameCore(m, [m EXCEPT !.retries = q])
           /\ \A q \in SUBSET Nat : SameCore(m, [m EXCEPT !.replies = q])
<1>1. \A b \in BOOLEAN : SameCore(m, [m EXCEPT !.wake = b]) BY DEF SameCore, MemType
<1>2. \A b \in BOOLEAN : SameCore(m, [m EXCEPT !.poll = b]) BY DEF SameCore, MemType
<1>3. \A b \in BOOLEAN : SameCore(m, [m EXCEPT !.checking = b]) BY DEF SameCore, MemType
<1>4. \A b \in BOOLEAN : SameCore(m, [m EXCEPT !.autoQueued = b]) BY DEF SameCore, MemType
<1>5. \A n \in Nat : SameCore(m, [m EXCEPT !.token = n]) BY DEF SameCore, MemType
<1>6. \A q \in SUBSET AttemptType : SameCore(m, [m EXCEPT !.queue = q]) BY DEF SameCore, MemType
<1>7. \A q \in SUBSET RetryType : SameCore(m, [m EXCEPT !.retries = q]) BY DEF SameCore, MemType
<1>8. \A q \in SUBSET Nat : SameCore(m, [m EXCEPT !.replies = q]) BY DEF SameCore, MemType
<1> QED BY <1>1, <1>2, <1>3, <1>4, <1>5, <1>6, <1>7, <1>8

\* The memory alone changes, where no launch depends on it.
LEMMA QuietGoes ==
    ASSUME NEW st, Ready(st), NEW su, NEW k, NEW n \in Nat, Is(su, st, st.d.receipt, k, n), SameCore(st.m, k),
           st.n <= n
    PROVE  Stays(st, su)
<1>1. Ready(su)
  <2>1. su \in StType /\ su.n = n /\ su.d.receipt = st.d.receipt /\ st \in StType /\ st.n \in Nat
    BY DEF Is, Ready, StType
  <2>2. ASSUME ~NoPending(su) PROVE su.d.receipt.id <= su.n /\ OriginOK(su.d.receipt)
    <3>2. st.d.receipt \in ReceiptType BY <2>1, <2>2 DEF StType, DiskType, NoPending
    <3>3. st.d.receipt.id \in Nat BY <3>2 DEF ReceiptType
    <3> QED BY <2>1, <2>2, <3>3 DEF Ready, NoPending
  <2> QED BY <2>1, <2>2 DEF Ready
<1> QED BY <1>1 DEF Stays, Goes, Is, SameCore, ReceiptGoes, NoPending, Spent, MemOK

\* The receipt alone changes.
LEMMA ReceiptRewritten ==
    ASSUME NEW st, Ready(st), NEW su, NEW r, NEW k, NEW n \in Nat, Is(su, st, r, k, n), SameCore(st.m, k), st.n <= n,
           \/ r = NoHealthReceipt
           \/ /\ ~NoPending(st) /\ r \in ReceiptType /\ r.id = st.d.receipt.id /\ OriginOK(r)
              /\ (Spent(st.d.receipt, st.m) => Spent(r, st.m))
    PROVE  Stays(st, su)
<1>1. su \in StType /\ su.n = n /\ su.d.receipt = r /\ st \in StType /\ st.n \in Nat /\ su.m = k
  BY DEF Is, Ready, StType
<1>2. MemOK(st.m) => MemOK(su.m) BY DEF MemOK, Is, SameCore
<1>3. CASE r = NoHealthReceipt BY <1>1, <1>2, <1>3 DEF Stays, SameCore, Goes, Ready, NoPending, ReceiptGoes, Is
<1>4. CASE /\ ~NoPending(st) /\ r \in ReceiptType /\ r.id = st.d.receipt.id /\ OriginOK(r)
           /\ (Spent(st.d.receipt, st.m) => Spent(r, st.m))
  <2>1. r.id <= n
    <3>2. r.id \in Nat BY <1>4 DEF ReceiptType
    <3> QED BY <1>1, <1>4, <3>2 DEF Ready
  <2> QED BY <1>1, <1>2, <1>4, <2>1 DEF Stays, SameCore, Goes, Is, Ready, ReceiptGoes, Spent
<1> QED BY <1>3, <1>4

\* The receipt of a state in which an update is pending.
LEMMA PendingIs ==
    ASSUME NEW st \in StType, Pending(st.d)
    PROVE  st.d.receipt \in ReceiptType /\ ~NoPending(st)
BY DEF Pending, NoPending, StType, DiskType

\* finishPendingHealthReceipt
LEMMA FinishGoes ==
    ASSUME NEW st, Ready(st), Pending(st.d), NEW status \in {"failed", "healthy", "rolled_back"}, NEW clear \in BOOLEAN
    PROVE  /\ Stays(st, FinishReceipt(st, status, clear))
           /\ ~clear => /\ Pending(FinishReceipt(st, status, clear).d)
                        /\ FinishReceipt(st, status, clear).d.receipt.rb = st.d.receipt.rb
<1>1. st \in StType /\ st.d \in DiskType /\ st.n \in Nat /\ st.m \in MemType BY DEF Ready, StType
<1>2. PICK o \in ReceiptType : o = st.d.receipt BY <1>1, PendingIs
<1> DEFINE r == IF clear THEN NoHealthReceipt ELSE [o EXCEPT !.state = "failed"]
           e == [st.d EXCEPT !.last = status, !.receipt = r]
           su == [st EXCEPT !.d = e]
<1>3. /\ r \in ReceiptType \cup {NoHealthReceipt}
      /\ ~clear => /\ r \in ReceiptType /\ r.id = o.id /\ r.terminal = o.terminal /\ r.origin = o.origin
                   /\ r.rb = o.rb /\ r.handoff = o.handoff BY DEF ReceiptType
<1>4. FinishReceipt(st, status, clear) = su BY <1>2 DEF FinishReceipt
<1>5. clear => r = NoHealthReceipt OBVIOUS
<1> HIDE DEF r
<1>6. e \in DiskType /\ e.receipt = r /\ e.auth = st.d.auth /\ e.acc = st.d.acc BY <1>1, <1>3 DEF DiskType
<1> HIDE DEF e
<1>7. Is(su, st, r, st.m, st.n) BY <1>1, <1>6 DEF Is, StType
<1> HIDE DEF su
<1>8. st.n <= st.n /\ SameCore(st.m, st.m) BY <1>1 DEF SameCore
<1>9. CASE clear BY <1>1, <1>4, <1>5, <1>7, <1>8, <1>9, ReceiptRewritten
<1>10. CASE ~clear
  <2>1. ~NoPending(st) /\ OriginOK(o) BY <1>1, <1>2, PendingIs DEF Ready
  <2>4. r # NoHealthReceipt /\ su.d.receipt = r BY <1>3, <1>7, <1>10, ZenonT(40) DEF Is, ReceiptType, NoHealthReceipt
  <2> QED BY <1>1, <1>2, <1>3, <1>4, <1>7, <1>8, <1>10, <2>1, <2>4, ReceiptRewritten DEF Pending, OriginOK, Spent
<1> QED BY <1>9, <1>10

\* The fields every end of an attempt removes.
LEMMA WithoutAttemptIs ==
    ASSUME NEW r \in ReceiptType
    PROVE  LET q == WithoutAttempt(r)
           IN q \in ReceiptType /\ q.id = r.id /\ q.terminal = r.terminal /\ q.origin = "none" /\ q.rb = ""
BY DEF WithoutAttempt, ReceiptType

\* The deadline put back.
LEMMA SourceDeadlineIs ==
    ASSUME NEW r \in ReceiptType
    PROVE  LET q == SourceDeadline(r)
           IN q \in ReceiptType /\ q.id = r.id /\ q.terminal = r.terminal
BY DEF SourceDeadline, ReceiptType

\* An attempt ended for good.
LEMMA TerminalIs ==
    ASSUME NEW r \in ReceiptType
    PROVE  LET q == [WithoutAttempt(r) EXCEPT !.terminal = TRUE]
           IN q \in ReceiptType /\ q.id = r.id /\ q.terminal /\ q.origin = "none" /\ q.rb = ""
<1>1. PICK w \in ReceiptType : w = WithoutAttempt(r) BY WithoutAttemptIs
<1>2. w.id = r.id /\ w.origin = "none" /\ w.rb = "" BY <1>1, WithoutAttemptIs
<1> DEFINE q == [w EXCEPT !.terminal = TRUE]
<1>3. q \in ReceiptType /\ q.id = w.id /\ q.terminal /\ q.origin = w.origin /\ q.rb = w.rb BY DEF ReceiptType
<1> QED BY <1>1, <1>2, <1>3

\* scheduleAutomaticRollbackRetry
LEMMA ScheduleRetryGoes ==
    ASSUME NEW st, Ready(st), Pending(st.d) PROVE Stays(st, ScheduleRetry(st))
<1>1. st \in StType /\ st.n \in Nat /\ st.m \in MemType /\ st.n <= st.n BY DEF Ready, StType
<1>2. PICK o \in ReceiptType : o = st.d.receipt BY <1>1, PendingIs
<1>3. CASE ScheduleRetry(st) = st BY <1>3, GoesNowhere
<1>4. CASE ScheduleRetry(st) = [st EXCEPT !.m.retries = @ \cup {[receipt |-> o.id, fails |-> o.fails]}]
  <2>1. PICK q \in SUBSET RetryType : q = st.m.retries \cup {[receipt |-> o.id, fails |-> o.fails]}
    <3>2. PICK x \in RetryType : x = [receipt |-> o.id, fails |-> o.fails] BY DEF RetryType, ReceiptType
    <3>3. st.m.retries \cup {x} \in SUBSET RetryType BY <1>1 DEF MemType
    <3> QED BY <3>2, <3>3
  <2>2. PICK k \in MemType : k = [st.m EXCEPT !.retries = q] /\ SameCore(st.m, k) BY <1>1, QuietWrites DEF SameCore
  <2>3. ScheduleRetry(st) = [st EXCEPT !.m = k] BY <1>1, <1>4, <2>1, <2>2
  <2>4. Is(ScheduleRetry(st), st, st.d.receipt, k, st.n) BY <1>1, <2>3, MemoryWritten
  <2> QED BY <1>1, <2>2, <2>4, QuietGoes
<1> QED BY <1>2, <1>3, <1>4 DEF ScheduleRetry

\* The wake-up of a later refresh.
LEMMA WakeGoes ==
    ASSUME NEW st, Ready(st) PROVE Stays(st, [st EXCEPT !.m.wake = TRUE])
<1>1. st \in StType /\ st.n \in Nat /\ st.m \in MemType /\ st.n <= st.n BY DEF Ready, StType
<1>2. PICK k \in MemType : k = [st.m EXCEPT !.wake = TRUE] /\ SameCore(st.m, k) BY <1>1, QuietWrites DEF SameCore
<1>3. PICK su : su = [st EXCEPT !.m.wake = TRUE] OBVIOUS
<1>4. su = [st EXCEPT !.m = k] BY <1>1, <1>2, <1>3
<1>5. Is(su, st, st.d.receipt, k, st.n) BY <1>1, <1>4, MemoryWritten
<1> QED BY <1>1, <1>2, <1>3, <1>5, QuietGoes

\* The attempt that a receipt names.
LEMMA AttemptIs ==
    ASSUME NEW r \in ReceiptType
    PROVE  Attempt(r) \in AttemptType /\ Attempt(r).lease = r.lease
BY DEF Attempt, AttemptType, ReceiptType

\* A receipt written together with the attempt queued for it.
LEMMA QueuedGoes ==
    ASSUME NEW st, Ready(st), NEW r \in ReceiptType, NEW n \in Nat, st.n <= n, Pending(st.d),
           r.id = st.d.receipt.id, OriginOK(r), Spent(st.d.receipt, st.m) => Spent(r, st.m),
           NEW su, su.n = n, su.d = [st.d EXCEPT !.receipt = r], su \in [d : {su.d}, m : {su.m}, n : {n}],
           su.m = [st.m EXCEPT !.queue = @ \cup {Attempt(r)}]
    PROVE  Stays(st, su)
<1>1. st \in StType /\ st.d \in DiskType /\ st.m \in MemType BY DEF Ready, StType
<1>2. su.d \in DiskType /\ su.d.receipt = r /\ su.d.auth = st.d.auth /\ su.d.acc = st.d.acc BY <1>1 DEF DiskType
<1>4. SameCore(st.m, su.m) /\ su.m \in MemType
  <2>1. PICK q \in SUBSET AttemptType : q = st.m.queue \cup {Attempt(r)} BY <1>1, AttemptIs DEF MemType
  <2> QED BY <1>1, <2>1, QuietWrites DEF SameCore
<1>5. su \in StType BY <1>2, <1>4 DEF StType
<1>6. Is(su, st, r, su.m, n) BY <1>2, <1>5 DEF Is
<1> QED BY <1>1, <1>4, <1>6, PendingIs, ReceiptRewritten

\* recoverAutomaticRollbackLease
LEMMA RecoverLeaseGoes ==
    ASSUME NEW st, Ready(st), Pending(st.d), st.d.receipt.rb = "leased" PROVE Stays(st, RecoverLease(st))
<1>1. st \in StType /\ st.n \in Nat /\ st.m \in MemType /\ st.d \in DiskType /\ st.n <= st.n BY DEF Ready, StType
<1>2. PICK o \in ReceiptType : o = st.d.receipt BY <1>1, PendingIs
<1>3. OriginOK(o) /\ ~NoPending(st) BY <1>1, <1>2, PendingIs DEF Ready
<1>a. PICK i \in Nat : i = st.n + 1 BY <1>1
<1>b. PICK j \in Nat : j = o.recoveries + 1
  <2>1. o.recoveries \in Nat BY DEF ReceiptType
  <2> QED BY <2>1
<1> DEFINE t == [WithoutAttempt(o) EXCEPT !.terminal = TRUE]
           w == [o EXCEPT !.lease = i, !.leaseOver = FALSE, !.recoveries = j]
           su == [st EXCEPT !.n = @ + 1, !.d.receipt = w, !.m.queue = @ \cup {Attempt(w)}]
<1>4. RecoverLease(st) \in {[st EXCEPT !.m.wake = TRUE], [st EXCEPT !.d.receipt = t], su}
  BY <1>2, <1>a, <1>b DEF RecoverLease
<1>5. t \in ReceiptType /\ t.id = o.id /\ OriginOK(t) /\ Spent(t, st.m) BY TerminalIs DEF OriginOK, Spent
<1>6. w \in ReceiptType /\ w.id = o.id /\ w.terminal = o.terminal /\ w.origin = o.origin /\ w.rb = o.rb
  BY <1>1 DEF ReceiptType
<1> HIDE DEF t, w
<1>8. Stays(st, su)
  <2>2. /\ su.n = st.n + 1 /\ su.d = [st.d EXCEPT !.receipt = w]
        /\ su.m = [st.m EXCEPT !.queue = @ \cup {Attempt(w)}] /\ su \in [d : {su.d}, m : {su.m}, n : {su.n}]
    BY <1>1 DEF StType
  <2> HIDE DEF su
  <2>3. st.n <= st.n + 1 /\ st.n + 1 \in Nat BY <1>1
  <2> QED BY <1>1, <1>2, <1>3, <1>6, <2>2, <2>3, QueuedGoes DEF OriginOK, Spent
<1> QED BY <1>1, <1>2, <1>3, <1>4, <1>5, <1>8, ReceiptWritten, ReceiptRewritten, WakeGoes DEF SameCore

\* The receipt under a new lease.
LEMMA LeasedIs ==
    ASSUME NEW r \in ReceiptType, NEW origin \in {"manual", "automatic"}, NEW i \in Nat, NEW l \in Nat
    PROVE  /\ Leased(r, origin, i, l) \in ReceiptType /\ Leased(r, origin, i, l).id = r.id
           /\ Leased(r, origin, i, l).terminal = r.terminal /\ Leased(r, origin, i, l).origin = origin
<1>1. PICK y \in {"none", "waiting", "due"} : y = IF origin = "automatic" THEN "none" ELSE r.retry BY DEF ReceiptType
<1> DEFINE w == [r EXCEPT !.rb = "leased", !.origin = origin, !.intent = i, !.lease = l, !.leaseOver = FALSE,
                          !.recoveries = 0, !.retry = y]
<1>2. w \in ReceiptType /\ w.id = r.id /\ w.terminal = r.terminal /\ w.origin = origin BY DEF ReceiptType
<1>3. Leased(r, origin, i, l) = w BY <1>1 DEF Leased, ReceiptType
<1> QED BY <1>2, <1>3

\* claimRollbackIntent
LEMMA ClaimGoes ==
    ASSUME NEW st, Ready(st), NEW origin \in {"manual", "automatic"}, MayClaim(st.d, origin)
    PROVE  Stays(st, Claim(st, origin)) /\ Pending(Claim(st, origin).d) /\ Claim(st, origin).m = st.m
<1>1. st \in StType /\ st.n \in Nat /\ st.m \in MemType /\ st.d \in DiskType BY DEF Ready, StType
<1>2. Pending(st.d) /\ st.d.receipt.rb = "" /\ (origin = "automatic" => ~st.d.receipt.terminal) BY DEF MayClaim
<1>3. PICK o \in ReceiptType : o = st.d.receipt BY <1>1, <1>2, PendingIs
<1>5. PICK i \in Nat : i = st.n + 1 BY <1>1
<1>6. PICK l \in Nat : l = st.n + 2 BY <1>1
<1>4. PICK w : w = Leased(o, origin, i, l) OBVIOUS
<1> DEFINE e == [st.d EXCEPT !.receipt = w]
           su == [st EXCEPT !.n = l, !.d = e]
<1>7. Claim(st, origin) = su BY <1>1, <1>3, <1>4, <1>5, <1>6 DEF Claim
<1>8. w \in ReceiptType /\ w.id = o.id /\ w.terminal = o.terminal /\ w.origin = origin
  <2> HIDE DEF su, e
  <2>1. /\ Leased(o, origin, i, l) \in ReceiptType /\ Leased(o, origin, i, l).id = o.id
        /\ Leased(o, origin, i, l).terminal = o.terminal /\ Leased(o, origin, i, l).origin = origin BY LeasedIs
  <2> QED BY <1>4, <2>1
<1>9. e \in DiskType /\ e.receipt = w /\ e.auth = st.d.auth /\ e.acc = st.d.acc BY <1>1, <1>8 DEF DiskType
<1> HIDE DEF e
<1>10. Is(su, st, w, st.m, l) BY <1>1, <1>9 DEF Is, StType
<1> HIDE DEF su
<1>11. OriginOK(w) /\ (Spent(o, st.m) => Spent(w, st.m)) BY <1>2, <1>3, <1>8 DEF OriginOK, Spent
<1>12. st.n <= l /\ SameCore(st.m, st.m) BY <1>1, <1>6 DEF SameCore
<1>13. Stays(st, su) BY <1>1, <1>2, <1>3, <1>8, <1>10, <1>11, <1>12, PendingIs, ReceiptRewritten
<1>14. su.d.receipt # NoHealthReceipt BY <1>8, <1>10, ZenonT(40) DEF Is, ReceiptType, NoHealthReceipt
<1> QED BY <1>7, <1>10, <1>13, <1>14 DEF Pending, Is

\* An attempt queued for the receipt.
LEMMA QueueGoes ==
    ASSUME NEW st, Ready(st), Pending(st.d)
    PROVE  Stays(st, [st EXCEPT !.m.queue = @ \cup {Attempt(st.d.receipt)}])
<1>1. st \in StType /\ st.n \in Nat /\ st.m \in MemType /\ st.n <= st.n BY DEF Ready, StType
<1>2. PICK o \in ReceiptType : o = st.d.receipt BY <1>1, PendingIs
<1>3. PICK q \in SUBSET AttemptType : q = st.m.queue \cup {Attempt(o)}
  <2>1. st.m.queue \in SUBSET AttemptType BY <1>1 DEF MemType
  <2> QED BY <2>1, AttemptIs
<1>4. PICK k \in MemType : k = [st.m EXCEPT !.queue = q] /\ SameCore(st.m, k) BY <1>1, QuietWrites DEF SameCore
<1>5. PICK su : su = [st EXCEPT !.m.queue = @ \cup {Attempt(st.d.receipt)}] OBVIOUS
<1>7. Is(su, st, st.d.receipt, k, st.n) BY <1>1, <1>2, <1>3, <1>4, <1>5, MemoryWritten
<1> QED BY <1>1, <1>4, <1>5, <1>7, QuietGoes

\* scheduleAutomaticRollbackIfEligible
LEMMA ScheduleAutomaticGoes ==
    ASSUME NEW st, Ready(st), Pending(st.d) PROVE Stays(st, ScheduleAutomatic(st))
<1>1. CASE ScheduleAutomatic(st) = st BY <1>1, GoesNowhere
<1>2. CASE st.d.receipt.rb = "leased" /\ ScheduleAutomatic(st) = RecoverLease(st) BY <1>2, RecoverLeaseGoes
<1>3. CASE ScheduleAutomatic(st) = ScheduleRetry(st) BY <1>3, ScheduleRetryGoes
<1>4. CASE /\ MayClaim(st.d, "automatic")
           /\ ScheduleAutomatic(st) = LET claimed == Claim(st, "automatic")
                                      IN [claimed EXCEPT !.m.queue = @ \cup {Attempt(claimed.d.receipt)}]
  <2>1. PICK c : c = Claim(st, "automatic") OBVIOUS
  <2>2. Stays(st, c) /\ Pending(c.d) BY <1>4, <2>1, ClaimGoes
  <2>4. Stays(c, ScheduleAutomatic(st)) BY <1>4, <2>1, <2>2, QueueGoes DEF Stays, Goes
  <2> QED BY <2>2, <2>4, StaysOn
<1> QED BY <1>1, <1>2, <1>3, <1>4 DEF ScheduleAutomatic

\* A receipt is not the absence of one.
LEMMA ReceiptIsReal == ASSUME NEW r \in ReceiptType PROVE r # NoHealthReceipt
<1>1. SUFFICES ASSUME r = NoHealthReceipt PROVE FALSE OBVIOUS
<1>2. "rb" \in DOMAIN r BY DEF ReceiptType
<1> QED BY <1>1, <1>2 DEF NoHealthReceipt

\* A write of the receipt, as a step of a handler.
LEMMA WriteGoes ==
    ASSUME NEW st, Ready(st), Pending(st.d), NEW r \in ReceiptType, r.id = st.d.receipt.id, OriginOK(r),
           Spent(st.d.receipt, st.m) => Spent(r, st.m)
    PROVE  /\ Stays(st, [st EXCEPT !.d.receipt = r]) /\ Pending([st EXCEPT !.d.receipt = r].d)
           /\ [st EXCEPT !.d.receipt = r].d.receipt = r /\ [st EXCEPT !.d.receipt = r].m = st.m
           /\ [st EXCEPT !.d.receipt = r].d.acc = st.d.acc
<1>1. st \in StType /\ st.n \in Nat /\ st.m \in MemType /\ st.n <= st.n BY DEF Ready, StType
<1>2. PICK su : su = [st EXCEPT !.d.receipt = r] OBVIOUS
<1>3. Is(su, st, r, st.m, st.n) BY <1>1, <1>2, ReceiptWritten
<1>5. Stays(st, su) BY <1>1, <1>3, PendingIs, ReceiptRewritten DEF SameCore
<1> QED BY <1>2, <1>3, <1>5, ReceiptIsReal DEF Is, Pending

\* The receipt is removed.
LEMMA RemoveGoes ==
    ASSUME NEW st, Ready(st) PROVE Stays(st, [st EXCEPT !.d.receipt = NoHealthReceipt])
<1>1. st \in StType /\ st.n \in Nat /\ st.m \in MemType /\ st.n <= st.n BY DEF Ready, StType
<1>2. PICK su : su = [st EXCEPT !.d.receipt = NoHealthReceipt] OBVIOUS
<1> QED BY <1>1, <1>2, ReceiptWritten, ReceiptRewritten DEF SameCore

\* The receipt after a failed attempt.
LEMMA CountedIs ==
    ASSUME NEW r \in ReceiptType, NEW permanent \in BOOLEAN
    PROVE  /\ CountedFailure(r, permanent) \in ReceiptType /\ CountedFailure(r, permanent).id = r.id
           /\ CountedFailure(r, permanent).origin = "none"
           /\ r.origin # "automatic" => CountedFailure(r, permanent).terminal = r.terminal
<1>1. PICK s \in ReceiptType : s = SourceDeadline(r) /\ s.id = r.id /\ s.terminal = r.terminal BY SourceDeadlineIs
<1>2. PICK w \in ReceiptType : w = WithoutAttempt(s) /\ w.id = s.id /\ w.terminal = s.terminal /\ w.origin = "none"
  BY WithoutAttemptIs
<1>3. CASE r.origin # "automatic" BY <1>1, <1>2, <1>3 DEF CountedFailure
<1>4. CASE r.origin = "automatic"
  <2>1. r.fails \in Nat /\ MaxPreHandoff \in Nat BY ClientAssumption DEF ReceiptType
  <2>2. PICK fails \in Nat : fails = IF r.fails + 1 > MaxPreHandoff THEN MaxPreHandoff ELSE r.fails + 1 BY <2>1
  <2>3. PICK retry \in BOOLEAN : retry = (~permanent /\ fails < MaxPreHandoff) OBVIOUS
  <2>4. PICK y \in {"none", "waiting", "due"} : y = IF retry THEN "waiting" ELSE "none" OBVIOUS
  <2>5. PICK over \in BOOLEAN : over = ~retry OBVIOUS
  <2> DEFINE q == [w EXCEPT !.fails = fails, !.retry = y, !.terminal = over]
  <2>6. q \in ReceiptType /\ q.id = w.id /\ q.origin = w.origin BY DEF ReceiptType
  <2>7. CountedFailure(r, permanent) = q BY <1>1, <1>2, <1>4, <2>2, <2>3, <2>4, <2>5 DEF CountedFailure
  <2> QED BY <1>1, <1>2, <1>4, <2>6, <2>7
<1> QED BY <1>3, <1>4

\* recordRollbackHandoffFailure: a handoff is only taken back by the attempt
\* that the memory still holds.
LEMMA RecordFailureGoes ==
    ASSUME NEW st, Ready(st), NEW a, NEW permanent \in BOOLEAN,
           st.d.receipt.rb = "confirming" => a.lease = st.m.intent.lease
    PROVE  Stays(st, RecordFailure(st, a, permanent))
<1>1. CASE RecordFailure(st, a, permanent) = st BY <1>1, GoesNowhere
<1>2. CASE RecordFailure(st, a, permanent) # st
  <2>1. /\ a.lease # 0 /\ Pending(st.d) /\ st.d.receipt.rb # ""
        /\ a.lease = IF st.d.receipt.rb = "confirming" THEN st.d.receipt.handoff ELSE st.d.receipt.lease
    BY <1>2 DEF RecordFailure
  <2>2. st \in StType BY DEF Ready
  <2>3. PICK o \in ReceiptType : o = st.d.receipt BY <2>1, <2>2, PendingIs
  <2>4. PICK r \in ReceiptType : r = CountedFailure(o, permanent) BY CountedIs
  <2>5. r.id = o.id /\ r.origin = "none" /\ (o.origin # "automatic" => r.terminal = o.terminal) BY <2>4, CountedIs
  <2>6. OriginOK(o) BY <2>1, <2>2, <2>3, PendingIs DEF Ready
  <2>7. OriginOK(r) BY <2>5 DEF OriginOK
  <2>8. Spent(o, st.m) => Spent(r, st.m) BY <2>1, <2>3, <2>5, <2>6 DEF Spent, OriginOK
  <2>9. PICK su : su = [st EXCEPT !.d.receipt = r] OBVIOUS
  <2>10. Stays(st, su) /\ Pending(su.d) /\ Ready(su) BY <2>1, <2>3, <2>5, <2>7, <2>8, <2>9, WriteGoes DEF Stays, Goes
  <2>11. RecordFailure(st, a, permanent) = su \/ RecordFailure(st, a, permanent) = ScheduleRetry(su)
    BY <1>2, <2>3, <2>4, <2>9 DEF RecordFailure
  <2> QED BY <2>10, <2>11, ScheduleRetryGoes, StaysOn
<1> QED BY <1>1, <1>2

\* refreshPendingUpdateHealth of a handed-off rollback
LEMMA RefreshConfirmingGoes ==
    ASSUME NEW st, Ready(st), Pending(st.d) PROVE Stays(st, RefreshConfirming(st))
<1>2. PICK o \in ReceiptType : o = st.d.receipt BY PendingIs DEF Ready
<1>3. PICK s \in ReceiptType : s = SourceDeadline(o) /\ s.id = o.id BY SourceDeadlineIs
<1>4. PICK t : t = [WithoutAttempt(s) EXCEPT !.terminal = TRUE] OBVIOUS
<1>5. t \in ReceiptType /\ t.id = o.id /\ OriginOK(t) /\ Spent(t, st.m) BY <1>3, <1>4, TerminalIs DEF OriginOK, Spent
<1>6. Stays(st, [st EXCEPT !.d.receipt = t]) BY <1>2, <1>5, WriteGoes
<1>7. RefreshConfirming(st) \in {[st EXCEPT !.m.wake = TRUE], FinishReceipt(st, "failed", TRUE), [st EXCEPT !.d.receipt = t]}
  BY <1>2, <1>3, <1>4 DEF RefreshConfirming
<1>8. Stays(st, FinishReceipt(st, "failed", TRUE)) BY FinishGoes
<1> QED BY <1>6, <1>7, <1>8, WakeGoes

\* refreshPendingUpdateHealth of a leased rollback
LEMMA RefreshLeasedGoes ==
    ASSUME NEW st, Ready(st), Pending(st.d), st.d.receipt.rb = "leased" PROVE Stays(st, RefreshLeased(st))
<1>2. PICK o \in ReceiptType : o = st.d.receipt BY PendingIs DEF Ready
<1>3. PICK w \in ReceiptType : w = WithoutAttempt(o) /\ w.id = o.id /\ w.terminal = o.terminal /\ w.origin = "none"
  BY WithoutAttemptIs
<1>5. PICK su : su = [st EXCEPT !.d.receipt = w] OBVIOUS
<1>6. Stays(st, su) /\ Pending(su.d) /\ Ready(su) BY <1>2, <1>3, <1>5, WriteGoes DEF Stays, Goes, OriginOK, Spent
<1>9. Stays(st, ScheduleRetry(su)) BY <1>6, ScheduleRetryGoes, StaysOn
<1> QED BY <1>2, <1>3, <1>5, <1>6, <1>9, RecoverLeaseGoes, WakeGoes DEF RefreshLeased

\* refreshPendingUpdateHealth
LEMMA RefreshGoes ==
    ASSUME NEW st, Ready(st) PROVE Stays(st, Refresh(st))
<1>1. CASE ~Pending(st.d) BY <1>1, GoesNowhere DEF Refresh
<1>2. CASE Pending(st.d)
  <2>1. st \in StType /\ st.d \in DiskType /\ st.n \in Nat /\ st.m \in MemType /\ st.n <= st.n BY DEF Ready, StType
  <2>2. PICK o \in ReceiptType : o = st.d.receipt BY <1>2, <2>1, PendingIs
  <2>3. o.state \in {"pending", "failed"} /\ o.rb \in {"", "leased", "confirming"} BY DEF ReceiptType
  <2>4. PICK su : su = [st EXCEPT !.d.last = "failed", !.d.receipt = NoHealthReceipt] OBVIOUS
  <2>5. Stays(st, su)
    <3> DEFINE e == [st.d EXCEPT !.last = "failed", !.receipt = NoHealthReceipt]
    <3>1. e \in DiskType /\ e.receipt = NoHealthReceipt /\ e.auth = st.d.auth /\ e.acc = st.d.acc BY <2>1 DEF DiskType
    <3>2. su = [st EXCEPT !.d = e] BY <2>1, <2>4
    <3> HIDE DEF e
    <3> QED BY <2>1, <3>1, <3>2, ReceiptRewritten DEF SameCore, Is, StType
  <2>6. PICK over : over = FinishReceipt(st, "failed", FALSE) OBVIOUS
  <2>7. Stays(st, over) /\ Pending(over.d) /\ Ready(over) BY <1>2, <2>6, FinishGoes DEF Stays, Goes
  <2>8. Stays(st, ScheduleAutomatic(over)) BY <2>7, ScheduleAutomaticGoes, StaysOn
  <2>9. Stays(st, FinishReceipt(st, "failed", TRUE)) BY <1>2, FinishGoes
  <2>10. Stays(st, ScheduleAutomatic(st)) /\ Stays(st, RefreshConfirming(st)) /\ Stays(st, st)
    BY <1>2, ScheduleAutomaticGoes, RefreshConfirmingGoes, GoesNowhere
  <2>11. o.rb = "leased" => Stays(st, RefreshLeased(st)) BY <1>2, <2>2, RefreshLeasedGoes
  <2>12. CASE ~ReceiptValid(o) BY <1>2, <2>2, <2>4, <2>5, <2>12 DEF Refresh
  <2>13. CASE ReceiptValid(o) /\ o.state = "failed"
    <3>1. Refresh(st) = CASE o.rb = "confirming" -> RefreshConfirming(st)
                          [] o.rb = "leased" -> RefreshLeased(st)
                          [] o.rb = "" /\ o.back # 0 /\ Running = o.back -> FinishReceipt(st, "failed", TRUE)
                          [] OTHER -> ScheduleAutomatic(st) BY <1>2, <2>2, <2>13 DEF Refresh
    <3> QED BY <2>3, <2>9, <2>10, <2>11, <3>1
  <2>14. CASE ReceiptValid(o) /\ o.state = "pending"
    <3>1. Refresh(st) = IF ~o.late THEN st
                        ELSE LET keep == HasArtifact(o) /\ Running # o.back
                                 end == FinishReceipt(st, "failed", ~keep)
                             IN IF keep THEN ScheduleAutomatic(end) ELSE end BY <1>2, <2>2, <2>14 DEF Refresh
    <3>2. CASE ~o.late BY <2>10, <3>1, <3>2
    <3>3. CASE o.late /\ HasArtifact(o) /\ Running # o.back BY <2>6, <2>8, <3>1, <3>3
    <3>4. CASE o.late /\ ~(HasArtifact(o) /\ Running # o.back) BY <2>9, <3>1, <3>4
    <3> QED BY <3>2, <3>3, <3>4
  <2> QED BY <2>3, <2>12, <2>13, <2>14
<1> QED BY <1>1, <1>2

\* confirmRunningVersionHealthy
LEMMA ConfirmHealthyGoes ==
    ASSUME NEW st, Ready(st) PROVE Stays(st, ConfirmHealthy(st))
<1>1. CASE ConfirmHealthy(st) = Refresh(st) BY <1>1, RefreshGoes
<1>2. CASE ConfirmHealthy(st) = st BY <1>2, GoesNowhere
<1>3. CASE Pending(st.d) /\ ConfirmHealthy(st) = FinishReceipt(st, "rolled_back", TRUE) BY <1>3, FinishGoes
<1>4. CASE Pending(st.d) /\ ConfirmHealthy(st) = FinishReceipt(st, "healthy", TRUE) BY <1>4, FinishGoes
<1> QED BY <1>1, <1>2, <1>3, <1>4 DEF ConfirmHealthy

\* The memory alone changes, and gives no launch back to a spent receipt.
LEMMA MemoryGoes ==
    ASSUME NEW st, Ready(st), NEW k \in MemType, k.at = st.m.at,
           Pending(st.d) /\ Spent(st.d.receipt, st.m) => Spent(st.d.receipt, k),
           (st.d.auth = NoAuth /\ MemOK(st.m)) => MemOK(k)
    PROVE  /\ Stays(st, [st EXCEPT !.m = k]) /\ [st EXCEPT !.m = k].d = st.d /\ [st EXCEPT !.m = k].m = k
           /\ [st EXCEPT !.m = k].n = st.n
<1>1. st \in StType /\ st.n \in Nat /\ st.n <= st.n BY DEF Ready, StType
<1>2. PICK su : su = [st EXCEPT !.m = k] OBVIOUS
<1>3. su \in StType /\ su.d = st.d /\ su.m = k /\ su.n = st.n BY <1>1, <1>2 DEF StType
<1> QED BY <1>1, <1>2, <1>3 DEF Stays, Goes, Ready, NoPending, ReceiptGoes, Pending

\* clearInstallSelection
LEMMA ClearedIs ==
    ASSUME NEW m \in MemType
    PROVE  /\ ClearSelection(m) \in MemType /\ ClearSelection(m).at = m.at
           /\ ClearSelection(m).intent = NoIntent /\ ClearSelection(m).sel = NoSelection
           /\ ClearSelection(m).busy = m.busy /\ ClearSelection(m).prepared = m.prepared
           /\ ClearSelection(m).download = m.download /\ ClearSelection(m).replies = m.replies
<1>1. NoIntent \in IntentType BY DEF NoIntent, IntentType
<1>2. NoSelection \in SelType BY DEF NoSelection, SelType
<1> QED BY <1>1, <1>2 DEF ClearSelection, MemType

\* What every end of an attempt resets.
LEMMA ReleasedIs ==
    ASSUME NEW m \in MemType
    PROVE  /\ Released(m) \in MemType /\ Released(m).at = m.at /\ Released(m).intent = NoIntent
           /\ Released(m).sel = NoSelection /\ ~Released(m).prepared /\ Released(m).download = m.download
<1>1. PICK c \in MemType : c = ClearSelection(m) BY ClearedIs
<1> DEFINE k == [c EXCEPT !.prepared = FALSE, !.permission = FALSE, !.busy = FALSE, !.autoMark = FALSE]
<1>3. k \in MemType /\ k.at = c.at /\ k.intent = c.intent /\ k.sel = c.sel /\ ~k.prepared /\ k.download = c.download
  BY DEF MemType
<1> QED BY <1>1, <1>3, ClearedIs DEF Released

\* A memory without an intent lets no handoff be taken back.
LEMMA NoIntentSpends ==
    ASSUME NEW r, NEW m, NEW k, Spent(r, m), k.intent = NoIntent PROVE Spent(r, k)
BY DEF Spent, NoIntent

\* An attempt with no download left ends.
LEMMA ReleasedGoes ==
    ASSUME NEW st, Ready(st), st.d.auth = NoAuth => st.m.download = 0
    PROVE  Stays(st, [st EXCEPT !.m = Released(st.m)]) /\ [st EXCEPT !.m = Released(st.m)].d = st.d
<1>1. st.m \in MemType BY DEF Ready, StType
<1>2. PICK k \in MemType : k = Released(st.m) BY <1>1, ReleasedIs
<1>3. k.at = st.m.at /\ k.intent = NoIntent /\ k.sel = NoSelection /\ ~k.prepared /\ k.download = st.m.download
  BY <1>1, <1>2, ReleasedIs
<1> QED BY <1>2, <1>3, NoIntentSpends, MemoryGoes DEF MemOK, NoIntent, NoSelection

\* The selection is dropped.
LEMMA ClearedGoes ==
    ASSUME NEW st, Ready(st) PROVE Stays(st, [st EXCEPT !.m = ClearSelection(st.m)])
<1>1. st.m \in MemType BY DEF Ready, StType
<1>2. PICK k \in MemType : k = ClearSelection(st.m) BY <1>1, ClearedIs
<1>3. /\ k.at = st.m.at /\ k.intent = NoIntent /\ k.sel = NoSelection /\ k.prepared = st.m.prepared
      /\ k.download = st.m.download /\ k.busy = st.m.busy BY <1>1, <1>2, ClearedIs
<1> QED BY <1>2, <1>3, NoIntentSpends, MemoryGoes DEF MemOK, NoIntent, NoSelection

\* The authorization is removed.
LEMMA AuthRemoved ==
    ASSUME NEW st, Ready(st)
    PROVE  Stays(st, [st EXCEPT !.d.auth = NoAuth]) /\ [st EXCEPT !.d.auth = NoAuth].m = st.m
<1>1. st \in StType /\ st.d \in DiskType /\ st.n \in Nat /\ st.n <= st.n BY DEF Ready, StType
<1> DEFINE e == [st.d EXCEPT !.auth = NoAuth]
<1>2. e \in DiskType /\ e.receipt = st.d.receipt /\ e.auth = NoAuth BY <1>1 DEF DiskType
<1>3. PICK su : su = [st EXCEPT !.d.auth = NoAuth] OBVIOUS
<1>4. su = [st EXCEPT !.d = e] BY <1>1, <1>3
<1> HIDE DEF e
<1>5. su \in StType /\ su.d = e /\ su.m = st.m /\ su.n = st.n BY <1>1, <1>2, <1>4 DEF StType
<1> QED BY <1>1, <1>2, <1>3, <1>5 DEF Stays, Goes, Ready, NoPending, ReceiptGoes

\* RecordFailure leaves the memory alone but for its timers.
LEMMA RecordFailureKeeps ==
    ASSUME NEW st \in StType, NEW a, NEW permanent \in BOOLEAN
    PROVE  RecordFailure(st, a, permanent).m.download = st.m.download
<1>2. PICK su : su = [st EXCEPT !.d.receipt = CountedFailure(st.d.receipt, permanent)] OBVIOUS
<1>3. su.m = st.m BY <1>2 DEF StType
<1>4. RecordFailure(st, a, permanent) \in {st, su, ScheduleRetry(su)} BY <1>2 DEF RecordFailure
<1>5. ScheduleRetry(su).m.download = su.m.download BY <1>2, <1>3 DEF StType, ScheduleRetry, MemType
<1> QED BY <1>3, <1>4, <1>5

\* finishSelfHostedInstallerAttempt(Failed) up to the release of the memory
LEMMA WithdrawGoes ==
    ASSUME NEW st, Ready(st) PROVE Stays(st, Withdraw(st)) /\ Withdraw(st).m.download = st.m.download
<1>0. st \in StType BY DEF Ready
<1>1. CASE Withdraw(st) = [st EXCEPT !.d.auth = NoAuth] BY <1>1, AuthRemoved
<1>2. CASE Withdraw(st) = RecordFailure(st, IntentAttempt(st.m), FALSE)
  <2>1. IntentAttempt(st.m).lease = st.m.intent.lease BY DEF IntentAttempt
  <2>2. PICK a : a = IntentAttempt(st.m) /\ a.lease = st.m.intent.lease BY <2>1
  <2> QED BY <1>0, <1>2, <2>2, RecordFailureGoes, RecordFailureKeeps
<1>3. CASE Withdraw(st) = [st EXCEPT !.d.receipt = NoHealthReceipt] BY <1>0, <1>3, RemoveGoes DEF StType
<1>4. CASE Withdraw(st) = st BY <1>4, GoesNowhere
<1> QED BY <1>1, <1>2, <1>3, <1>4 DEF Withdraw

\* finishSelfHostedInstallerAttempt(Failed)
LEMMA InstallFailedGoes ==
    ASSUME NEW st, Ready(st), st.m.download = 0 PROVE Stays(st, InstallFailed(st))
<1>1. PICK w : w = Withdraw(st) OBVIOUS
<1>2. Stays(st, w) /\ w.m.download = 0 /\ Ready(w) BY <1>1, WithdrawGoes DEF Stays, Goes
<1> QED BY <1>1, <1>2, ReleasedGoes, StaysOn DEF InstallFailed

\* finishSelfHostedInstallerAttempt(Started)
LEMMA InstallStartedGoes ==
    ASSUME NEW st, Ready(st), st.d.auth = NoAuth => st.m.download = 0
    PROVE  /\ Stays(st, InstallStarted(st)) /\ InstallStarted(st).d.receipt = st.d.receipt
           /\ InstallStarted(st).d.auth = st.d.auth /\ InstallStarted(st).d.acc = st.d.acc
           /\ InstallStarted(st).m = Released(st.m) /\ InstallStarted(st).n = st.n
<1>1. st \in StType /\ st.d \in DiskType /\ st.m \in MemType BY DEF Ready, StType
<1>2. PICK x \in Nat : x = IF st.m.autoMark THEN st.m.sel.version ELSE st.d.marker
  BY <1>1 DEF DiskType, MemType, SelType
<1> DEFINE e == [st.d EXCEPT !.marker = x]
<1>3. e \in DiskType /\ e.receipt = st.d.receipt /\ e.auth = st.d.auth /\ e.acc = st.d.acc BY <1>1 DEF DiskType
<1>4. PICK sm : sm = [st EXCEPT !.d = e] OBVIOUS
<1>5. InstallStarted(st) = [sm EXCEPT !.m = Released(st.m)] BY <1>1, <1>2, <1>4 DEF InstallStarted, StType
<1> HIDE DEF e
<1>6. sm \in StType /\ sm.d = e /\ sm.m = st.m /\ sm.n = st.n BY <1>1, <1>3, <1>4 DEF StType
<1>9. Stays(st, sm) BY <1>1, <1>3, <1>6, QuietGoes DEF Is, SameCore, StType
<1>11. PICK su : su = [sm EXCEPT !.m = Released(sm.m)] OBVIOUS
<1>12. Stays(sm, su) /\ su.d = sm.d BY <1>3, <1>6, <1>9, <1>11, ReleasedGoes DEF Stays, Goes
<1> QED BY <1>3, <1>5, <1>6, <1>9, <1>11, <1>12, StaysOn DEF StType

\* runInstaller
LEMMA RunInstallerGoes ==
    ASSUME NEW st, Ready(st), st.m.at = "running"
    PROVE  Stays(st, RunInstaller(st)) /\ RunInstaller(st).d = st.d
<1>1. st \in StType /\ st.d \in DiskType /\ st.m \in MemType BY DEF Ready, StType
<1>2. CASE RunInstaller(st) = st BY <1>2, GoesNowhere
<1>3. CASE RunInstaller(st) = [st EXCEPT !.m = [ClearSelection(@) EXCEPT !.autoMark = FALSE]]
  <2>1. PICK c \in MemType : c = ClearSelection(st.m) BY <1>1, ClearedIs
  <2>2. /\ c.at = st.m.at /\ c.intent = NoIntent /\ c.sel = NoSelection /\ c.prepared = st.m.prepared
        /\ c.download = st.m.download /\ c.busy = st.m.busy BY <1>1, <2>1, ClearedIs
  <2>3. PICK k : k = [c EXCEPT !.autoMark = FALSE] OBVIOUS
  <2>4. /\ k \in MemType /\ k.at = c.at /\ k.intent = c.intent /\ k.sel = c.sel /\ k.prepared = c.prepared
        /\ k.download = c.download /\ k.busy = c.busy BY <2>3 DEF MemType
  <2>7. Stays(st, [st EXCEPT !.m = k]) /\ [st EXCEPT !.m = k].d = st.d
    BY <2>2, <2>4, NoIntentSpends, MemoryGoes DEF MemOK, NoIntent, NoSelection
  <2> QED BY <1>1, <1>3, <2>1, <2>3, <2>7 DEF StType
<1>4. CASE /\ ~st.m.busy
           /\ RunInstaller(st) = [st EXCEPT !.m.intent.used = TRUE, !.m.busy = TRUE, !.m.download = st.m.sel.version]
  <2>1. st.m.intent \in IntentType /\ st.m.sel \in SelType BY <1>1 DEF MemType
  <2>2. PICK i : i = [st.m.intent EXCEPT !.used = TRUE] OBVIOUS
  <2>3. /\ i \in IntentType /\ i.kind = st.m.intent.kind /\ i.version = st.m.intent.version
        /\ i.lease = st.m.intent.lease BY <2>1, <2>2 DEF IntentType
  <2>4. PICK v \in Nat : v = st.m.sel.version BY <2>1 DEF SelType
  <2>5. PICK k : k = [st.m EXCEPT !.intent = i, !.busy = TRUE, !.download = v] OBVIOUS
  <2>6. /\ k \in MemType /\ k.at = st.m.at /\ k.intent = i /\ k.sel = st.m.sel /\ k.prepared = st.m.prepared
        /\ k.busy /\ k.rollback = st.m.rollback BY <1>1, <2>3, <2>5 DEF MemType
  <2>9. Stays(st, [st EXCEPT !.m = k]) /\ [st EXCEPT !.m = k].d = st.d
    BY <1>4, <2>3, <2>6, MemoryGoes DEF MemOK, Spent
  <2>10. RunInstaller(st) = [st EXCEPT !.m = k] BY <1>1, <1>4, <2>2, <2>4, <2>5 DEF StType
  <2> QED BY <2>9, <2>10
<1> QED BY <1>2, <1>3, <1>4 DEF RunInstaller

\* The selection and the intent of a rollback.
LEMMA ArmRollbackIs ==
    ASSUME NEW m \in MemType, NEW r \in ReceiptType, NEW a \in AttemptType
    PROVE  /\ ArmRollback(m, r, a) \in MemType /\ ArmRollback(m, r, a).at = m.at
           /\ ArmRollback(m, r, a).intent.kind = "rollback" /\ ArmRollback(m, r, a).rollback
           /\ ArmRollback(m, r, a).intent.version = ArmRollback(m, r, a).sel.version
           /\ ArmRollback(m, r, a).prepared = m.prepared /\ ArmRollback(m, r, a).busy = m.busy
           /\ ArmRollback(m, r, a).download = m.download
<1>1. PICK b \in Nat : b = r.back BY DEF ReceiptType
<1>3. PICK s : s = [m.sel EXCEPT !.version = b] OBVIOUS
<1>4. s \in SelType /\ s.version = b BY <1>3 DEF SelType, MemType
<1>5. PICK i : i = [kind |-> "rollback", id |-> a.intent, receipt |-> a.receipt, lease |-> a.lease,
                    version |-> r.back, gen |-> r.gen, payload |-> r.payload, used |-> FALSE] OBVIOUS
<1>6. i \in IntentType /\ i.kind = "rollback" /\ i.version = b BY <1>1, <1>5 DEF IntentType, ReceiptType, AttemptType
<1>7. PICK k : k = [m EXCEPT !.sel = s, !.selfHosted = TRUE, !.autoMark = FALSE, !.rollback = TRUE, !.intent = i]
  OBVIOUS
<1>8. /\ k \in MemType /\ k.at = m.at /\ k.intent = i /\ k.sel = s /\ k.rollback /\ k.prepared = m.prepared
      /\ k.busy = m.busy /\ k.download = m.download BY <1>4, <1>6, <1>7 DEF MemType
<1>9. ArmRollback(m, r, a) = k BY <1>1, <1>3, <1>5, <1>7 DEF ArmRollback, MemType
<1> QED BY <1>4, <1>6, <1>8, <1>9

\* runPendingRollbackWithIntent
LEMMA RunRollbackGoes ==
    ASSUME NEW st, Ready(st), st.m.at = "running", NEW a \in AttemptType
    PROVE  Stays(st, RunRollback(st, a))
<1>1. st \in StType /\ st.d \in DiskType /\ st.m \in MemType BY DEF Ready, StType
<1>2. CASE RunRollback(st, a) = st BY <1>2, GoesNowhere
<1>3. CASE RunRollback(st, a) = Refresh(st) BY <1>3, RefreshGoes
<1>4. CASE st.d.receipt.rb = "leased" /\ RunRollback(st, a) = RecordFailure(st, a, TRUE) BY <1>4, RecordFailureGoes
<1>5. CASE /\ Pending(st.d) /\ st.d.receipt.rb = "leased"
           /\ RunRollback(st, a) = LET armed == [st EXCEPT !.m = ArmRollback(st.m, st.d.receipt, a)]
                                       ran == RunInstaller(armed)
                                   IN IF Started(armed, ran) THEN ran
                                      ELSE LET failed == RecordFailure(ran, a, FALSE)
                                           IN [failed EXCEPT !.m = ClearSelection(@)]
  <2>1. PICK o \in ReceiptType : o = st.d.receipt BY <1>1, <1>5, PendingIs
  <2>2. PICK k \in MemType : k = ArmRollback(st.m, o, a) BY <1>1, ArmRollbackIs
  <2>3. /\ k.at = st.m.at /\ k.intent.kind = "rollback" /\ k.rollback /\ k.intent.version = k.sel.version
        /\ k.prepared = st.m.prepared /\ k.busy = st.m.busy /\ k.download = st.m.download BY <1>1, <2>2, ArmRollbackIs
  <2>6. PICK armed : armed = [st EXCEPT !.m = k] OBVIOUS
  <2>7. Stays(st, armed) /\ armed.d = st.d /\ armed.m = k BY <1>5, <2>3, <2>6, MemoryGoes DEF MemOK, Spent
  <2>8. PICK ran : ran = RunInstaller(armed) OBVIOUS
  <2>10. Stays(armed, ran) /\ ran.d = st.d BY <2>3, <2>7, <2>8, RunInstallerGoes DEF Stays, Goes
  <2>11. Stays(st, ran) /\ Ready(ran) BY <2>7, <2>10, StaysOn DEF Stays, Goes
  <2>12. PICK f : f = RecordFailure(ran, a, FALSE) OBVIOUS
  <2>13. Stays(ran, f) BY <1>5, <2>10, <2>11, <2>12, RecordFailureGoes
  <2>14. Ready(f) /\ Stays(st, f) BY <2>11, <2>13, StaysOn DEF Stays, Goes
  <2>15. PICK su : su = [f EXCEPT !.m = ClearSelection(f.m)] OBVIOUS
  <2>18. RunRollback(st, a) = ran \/ RunRollback(st, a) = su
    BY <1>5, <2>1, <2>2, <2>6, <2>8, <2>12, <2>14, <2>15 DEF Ready, StType
  <2> QED BY <2>11, <2>14, <2>15, <2>18, ClearedGoes, StaysOn
<1> QED BY <1>2, <1>3, <1>4, <1>5 DEF RunRollback

\* The receipt of an update about to be handed to its installer.
LEMMA NewReceiptIs ==
    ASSUME NEW st \in StType, NEW id \in Nat, world \in WorldType
    PROVE  /\ NewReceipt(st, id) \in ReceiptType /\ NewReceipt(st, id).id = id
           /\ NewReceipt(st, id).target = st.m.sel.version /\ NewReceipt(st, id).gen = st.m.sel.gen
           /\ NewReceipt(st, id).state = "pending" /\ ~NewReceipt(st, id).terminal
<1>2. st.m.sel \in SelType /\ st.d.acc \in PolicyType BY DEF MemType, DiskType, StType
<1> QED BY <1>2 DEF NewReceipt, ReceiptType, Running, WorldType, SelType, PolicyType

\* recordInstallerHandoffReceipt
LEMMA RecordHandoffGoes ==
    ASSUME NEW st, Ready(st), world \in WorldType
    PROVE  /\ Stays(st, RecordHandoff(st).st) /\ RecordHandoff(st).st.m = st.m
           /\ RecordHandoff(st).ok =>
                LET d == RecordHandoff(st).st.d
                IN /\ st.m.sel.gen = d.acc.gen /\ d.receipt # NoHealthReceipt
                   /\ d.receipt.target = st.m.sel.version /\ d.receipt.gen = st.m.sel.gen
                   /\ d.receipt.state = "pending"
<1>1. st \in StType /\ st.d \in DiskType /\ st.m \in MemType /\ st.n \in Nat BY DEF Ready, StType
<1>2. CASE RecordHandoff(st) = [ok |-> FALSE, st |-> st] BY <1>2, GoesNowhere
<1>3. CASE RecordHandoff(st) # [ok |-> FALSE, st |-> st]
  <2>1. PICK n \in Nat : n = st.n + 1 BY <1>1
  <2>2. PICK r : r = NewReceipt(st, n) OBVIOUS
  <2>3. /\ r \in ReceiptType /\ r.id = n /\ r.target = st.m.sel.version /\ r.gen = st.m.sel.gen
        /\ r.state = "pending" /\ ~r.terminal BY <1>1, <2>2, NewReceiptIs
  <2>4. PICK x \in {"none", "failed", "healthy", "rolled_back"} :
          x = IF Pending(st.d) /\ st.d.receipt.target # st.m.sel.version THEN "failed" ELSE st.d.last
    BY <1>1 DEF DiskType
  <2>5. PICK e : e = [st.d EXCEPT !.last = x, !.receipt = r] OBVIOUS
  <2>6. e \in DiskType /\ e.receipt = r /\ e.auth = st.d.auth /\ e.acc = st.d.acc BY <1>1, <2>3, <2>5 DEF DiskType
  <2>7. PICK su : su = [st EXCEPT !.n = n, !.d = e] OBVIOUS
  <2>8. su \in StType /\ su.d = e /\ su.m = st.m /\ su.n = n BY <1>1, <2>6, <2>7 DEF StType
  <2>9. RecordHandoff(st) = [ok |-> TRUE, st |-> su] /\ st.d.acc.gen = st.m.sel.gen
    <3>1. PICK s1 : s1 = IF Pending(st.d) /\ st.d.receipt.target # st.m.sel.version
                         THEN FinishReceipt(st, "failed", TRUE) ELSE st OBVIOUS
    <3>2. /\ RecordHandoff(st) = [ok |-> TRUE, st |-> [s1 EXCEPT !.n = @ + 1, !.d.receipt = r]]
          /\ st.d.acc.gen = st.m.sel.gen BY <1>3, <2>1, <2>2, <3>1 DEF RecordHandoff
    <3>3. CASE Pending(st.d) /\ st.d.receipt.target # st.m.sel.version
      <4>1. s1 = [st EXCEPT !.d.last = "failed", !.d.receipt = NoHealthReceipt] BY <3>1, <3>3 DEF FinishReceipt
      <4>2. [s1 EXCEPT !.n = @ + 1, !.d.receipt = r] = su
        BY <1>1, <2>1, <2>4, <2>5, <2>7, <3>3, <4>1 DEF StType, DiskType
      <4> QED BY <3>2, <4>2
    <3>4. CASE ~(Pending(st.d) /\ st.d.receipt.target # st.m.sel.version)
      <4>1. s1 = st /\ x = st.d.last BY <2>4, <3>1, <3>4
      <4>2. [s1 EXCEPT !.n = @ + 1, !.d.receipt = r] = su BY <1>1, <2>1, <2>5, <2>7, <4>1 DEF StType, DiskType
      <4> QED BY <3>2, <4>2
    <3> QED BY <3>3, <3>4
  <2>10. n > st.n /\ st.n <= n /\ r.id <= n BY <1>1, <2>1, <2>3
  <2>11. r # NoHealthReceipt BY <2>3, ReceiptIsReal
  <2> QED BY <2>3, <2>6, <2>8, <2>9, <2>10, <2>11 DEF Stays, Goes, Ready, OriginOK, ReceiptGoes, NoPending
<1> QED BY <1>2, <1>3

\* The lease turned into a handoff.
LEMMA HandedOffIs ==
    ASSUME NEW r \in ReceiptType, ReceiptValid(r), r.rb = "leased"
    PROVE  LET h == HandedOff(r, r.lease)
           IN /\ h \in ReceiptType /\ h.id = r.id /\ h.terminal = r.terminal /\ h.origin = r.origin
              /\ h.rb = "confirming" /\ h.handoff = r.lease /\ h.back = r.back /\ ~h.late /\ h.state = "failed"
              /\ r.lease # 0 /\ ReceiptValid(h)
<1>1. PICK h : h = HandedOff(r, r.lease) OBVIOUS
<1>2. PICK l \in Nat : l = r.lease BY DEF ReceiptType
<1>3. PICK b \in BOOLEAN : b = r.late BY DEF ReceiptType
<1>4. h = [r EXCEPT !.rb = "confirming", !.handoff = l, !.lease = 0, !.leaseOver = FALSE, !.sourceLate = b,
                    !.late = FALSE, !.retry = "none"] BY <1>1, <1>2, <1>3 DEF HandedOff
<1>5. /\ h \in ReceiptType /\ h.id = r.id /\ h.terminal = r.terminal /\ h.origin = r.origin
      /\ h.rb = "confirming" /\ h.handoff = l /\ h.back = r.back /\ h.late = FALSE /\ h.state = r.state
      /\ h.lease = 0 /\ h.intent = r.intent /\ h.gen = r.gen /\ h.fails = r.fails /\ h.retry = "none"
  BY <1>4 DEF ReceiptType
<1>6. /\ r.id > 0 /\ r.gen > 0 /\ r.fails \in 0..MaxPreHandoff /\ r.intent > 0 /\ r.lease > 0 /\ r.state # "pending"
  BY DEF ReceiptValid
<1>7. r.state = "failed" BY <1>6 DEF ReceiptType
<1> QED BY <1>1, <1>2, <1>5, <1>6, <1>7 DEF ReceiptValid

\* recordRollbackHandoff
LEMMA RecordRollbackGoes ==
    ASSUME NEW st, Ready(st)
    PROVE  /\ Stays(st, RecordRollback(st).st) /\ SameCore(st.m, RecordRollback(st).st.m)
           /\ RecordRollback(st).ok =>
                LET d == RecordRollback(st).st.d
                IN /\ d.receipt # NoHealthReceipt /\ d.receipt.rb = "confirming"
                   /\ st.m.intent.kind = "rollback" /\ st.m.intent.lease # 0
                   /\ d.receipt.handoff = st.m.intent.lease /\ d.receipt.back = st.m.intent.version
<1>1. st \in StType /\ st.d \in DiskType /\ st.m \in MemType BY DEF Ready, StType
<1>2. CASE RecordRollback(st) = [ok |-> FALSE, st |-> st] BY <1>1, <1>2, GoesNowhere DEF SameCore
<1>3. CASE RecordRollback(st) # [ok |-> FALSE, st |-> st]
  <2>1. /\ st.m.intent.kind = "rollback" /\ Pending(st.d) /\ ReceiptValid(st.d.receipt) /\ st.d.receipt.rb = "leased"
        /\ st.d.receipt.lease = st.m.intent.lease /\ st.d.receipt.back = st.m.intent.version
    BY <1>3 DEF RecordRollback
  <2>2. PICK o \in ReceiptType : o = st.d.receipt BY <1>1, <2>1, PendingIs
  <2>3. PICK h : h = HandedOff(o, o.lease) OBVIOUS
  <2>4. /\ h \in ReceiptType /\ h.id = o.id /\ h.terminal = o.terminal /\ h.origin = o.origin
        /\ h.rb = "confirming" /\ h.handoff = o.lease /\ h.back = o.back /\ ~h.late /\ h.state = "failed"
        /\ o.lease # 0 /\ ReceiptValid(h) BY <2>1, <2>2, <2>3, HandedOffIs
  <2>5. PICK su : su = [st EXCEPT !.d.receipt = h] OBVIOUS
  <2>7. OriginOK(h) /\ (Spent(o, st.m) => Spent(h, st.m))
    BY <1>1, <2>1, <2>2, <2>4, PendingIs DEF OriginOK, Spent, Ready
  <2>8. Stays(st, su) /\ Pending(su.d) /\ su.d.receipt = h /\ su.m = st.m BY <2>1, <2>2, <2>4, <2>5, <2>7, WriteGoes
  <2>9. PICK sw : sw = [su EXCEPT !.m.wake = TRUE] OBVIOUS
  <2>10. Ready(su) BY <2>8 DEF Stays, Goes
  <2>11. Refresh(su) = sw BY <2>4, <2>8, <2>9 DEF Refresh, RefreshConfirming
  <2>13. sw.d = su.d /\ sw.m = [st.m EXCEPT !.wake = TRUE] BY <2>8, <2>9, <2>10 DEF Ready, StType
  <2>14. SameCore(st.m, sw.m) BY <1>1, <2>13, QuietWrites
  <2>16. RecordRollback(st).st = sw BY <1>3, <2>2, <2>3, <2>5, <2>11 DEF RecordRollback
  <2> QED BY <2>1, <2>2, <2>4, <2>8, <2>9, <2>10, <2>13, <2>14, <2>16, ReceiptIsReal, WakeGoes, StaysOn
<1> QED BY <1>2, <1>3

\* prepareSelfHostedInstallerHandoff on the desktop leaves the record.
LEMMA PrepareHandoffGoes ==
    ASSUME NEW st, Ready(st), world \in WorldType, MemOK(st.m), st.m.sel.version # 0
    PROVE  /\ Stays(st, PrepareHandoff(st).st) /\ SameCore(st.m, PrepareHandoff(st).st.m)
           /\ PrepareHandoff(st).ok => Recorded(PrepareHandoff(st).st.d, st.m)
<1>1. st \in StType /\ st.d \in DiskType /\ st.m \in MemType BY DEF Ready, StType
<1>2. SameCore(st.m, st.m) BY <1>1 DEF SameCore
<1>5. ~st.m.rollback => st.m.intent.kind = "update" BY <1>1 DEF MemOK, IntentType, MemType
<1>6. CASE ~st.m.rollback /\ st.m.sel.gen = 0 BY <1>6, <1>2, <1>5, GoesNowhere DEF PrepareHandoff, Recorded
<1>7. CASE st.m.rollback BY <1>7, RecordRollbackGoes DEF PrepareHandoff, MemOK, Recorded
<1>8. CASE ~st.m.rollback /\ st.m.sel.gen # 0 BY <1>8, RecordHandoffGoes, <1>5, <1>2 DEF PrepareHandoff, Recorded
<1> QED BY <1>6, <1>7, <1>8

\* A state whose authorization, if any, carries its receipt.
Fine(st) == Ready(st) /\ AuthFine(st.d, st.n)

\* The authorization of a state.
LEMMA AuthIs ==
    ASSUME NEW st \in StType, st.d.auth # NoAuth PROVE st.d.auth \in AuthType
BY DEF StType, DiskType

\* A handler keeps the authorization or removes it.
LEMMA GoesFine == ASSUME NEW st, NEW su, Fine(st), Goes(st, su) PROVE Fine(su)
<1>1. CASE su.d.auth = NoAuth BY <1>1 DEF Fine, Goes, AuthFine
<1>2. CASE su.d.auth = st.d.auth /\ su.d.auth # NoAuth /\ su.d.auth.gen > 0
  <2>1. st.d.auth.receipt \in ReceiptType /\ st.d.auth.receipt.id <= st.n BY <1>2 DEF Fine, AuthFine
  <2>2. st.d.auth.receipt.id \in Nat BY <2>1 DEF ReceiptType
  <2> QED BY <1>2, <2>1, <2>2 DEF Fine, Goes, AuthFine, Ready, StType
<1>3. CASE ~(su.d.auth # NoAuth /\ su.d.auth.gen > 0) BY <1>3 DEF Fine, Goes, AuthFine
<1> QED BY <1>1, <1>2, <1>3 DEF Goes

\* The authorization of an update about to be handed to the activity.
LEMMA NewAuthorizationIs ==
    ASSUME NEW st \in StType, NEW id \in Nat, world \in WorldType
    PROVE  /\ NewAuthorization(st, id) \in AuthType
           /\ NewAuthorization(st, id).gen > 0 =>
                /\ NewAuthorization(st, id).receipt \in ReceiptType /\ NewAuthorization(st, id).receipt.id = id
                /\ NewAuthorization(st, id).receipt.target = NewAuthorization(st, id).version
                /\ ~NewAuthorization(st, id).receipt.terminal
<1>2. st.m.sel \in SelType /\ st.d.acc \in PolicyType /\ st.m.autoMark \in BOOLEAN BY DEF MemType, DiskType, StType
<1>3. PICK w \in Nat : w = Running BY DEF Running, WorldType
<1>4. PICK v \in Nat, g \in Nat : v = st.m.sel.version /\ g = st.m.sel.gen BY <1>2 DEF SelType
<1>5. PICK y \in Nat : y = IF st.m.sel.gen > 0 THEN st.d.acc.payload ELSE 0 BY <1>2 DEF PolicyType
<1>6. PICK r \in ReceiptType : r = NewReceipt(st, id) BY NewReceiptIs
<1>8. PICK q \in ReceiptType \cup {NoHealthReceipt} : q = IF st.m.sel.gen > 0 THEN r ELSE NoHealthReceipt OBVIOUS
<1>9. PICK b \in BOOLEAN : b = st.m.autoMark BY <1>2
<1>10. PICK a : a = [state |-> "prepared", id |-> id, source |-> w, version |-> v, gen |-> g, payload |-> y,
                     over |-> FALSE, auto |-> b, receipt |-> q] OBVIOUS
<1>11. a \in AuthType /\ a.gen = g /\ a.version = v /\ a.receipt = q BY <1>10 DEF AuthType
<1> QED BY <1>3, <1>4, <1>5, <1>6, <1>8, <1>9, <1>10, <1>11, NewReceiptIs DEF NewAuthorization

\* prepareAndroidApkInstallerAuthorization
LEMMA PrepareApkGoes ==
    ASSUME NEW st, Fine(st), world \in WorldType
    PROVE  Fine(PrepareApk(st).st) /\ PrepareApk(st).st.m = st.m
<1>1. st \in StType /\ st.d \in DiskType /\ st.m \in MemType /\ st.n \in Nat BY DEF Fine, Ready, StType
<1>2. CASE PrepareApk(st).st = st BY <1>2
<1>3. CASE PrepareApk(st).st = [st EXCEPT !.d.auth = NoAuth]
  <2>1. PICK su : su = [st EXCEPT !.d.auth = NoAuth] OBVIOUS
  <2>2. Stays(st, su) /\ su.m = st.m BY <2>1, AuthRemoved DEF Fine
  <2> QED BY <1>3, <2>1, <2>2, GoesFine DEF Stays
<1>4. CASE /\ PrepareApk(st).st # st /\ PrepareApk(st).st # [st EXCEPT !.d.auth = NoAuth]
  <2>1. PICK n \in Nat : n = st.n + 1 BY <1>1
  <2>2. PICK a \in AuthType : a = NewAuthorization(st, n) BY <1>1, NewAuthorizationIs
  <2>3. a.gen > 0 => a.receipt \in ReceiptType /\ a.receipt.id = n /\ a.receipt.target = a.version /\ ~a.receipt.terminal
    BY <1>1, <2>2, NewAuthorizationIs
  <2>4. PICK s1 : /\ s1 = st \/ (Pending(st.d) /\ s1 = FinishReceipt(st, "failed", TRUE))
                  /\ PrepareApk(st).st = [s1 EXCEPT !.n = @ + 1, !.d.auth = a]
    <3>1. PICK s1 : s1 = IF /\ st.m.sel.gen > 0 /\ Pending(st.d) /\ ReceiptValid(st.d.receipt)
                            /\ st.d.receipt.target # st.m.sel.version
                         THEN FinishReceipt(st, "failed", TRUE) ELSE st OBVIOUS
    <3>3. PICK sv : sv = [s1 EXCEPT !.n = @ + 1, !.d.auth = a] OBVIOUS
    <3>4. PrepareApk(st).st = sv BY <1>4, <2>1, <2>2, <3>1, <3>3 DEF PrepareApk
    <3>5. s1 = st \/ (Pending(st.d) /\ s1 = FinishReceipt(st, "failed", TRUE)) BY <3>1
    <3> QED BY <3>3, <3>4, <3>5
  <2>5. Stays(st, s1) BY <2>4, FinishGoes, GoesNowhere DEF Fine
  <2>6. s1.m = st.m /\ s1.n = st.n BY <1>1, <2>4 DEF FinishReceipt, StType
  <2>7. s1 \in StType /\ s1.d \in DiskType BY <2>5 DEF Stays, Goes, Ready, StType
  <2>8. PICK e : e = [s1.d EXCEPT !.auth = a] OBVIOUS
  <2>9. e \in DiskType /\ e.receipt = s1.d.receipt /\ e.auth = a BY <2>7, <2>8 DEF DiskType
  <2>10. PICK su : su = [s1 EXCEPT !.n = n, !.d = e] OBVIOUS
  <2>11. su \in StType /\ su.d = e /\ su.m = st.m /\ su.n = n BY <2>6, <2>7, <2>9, <2>10 DEF StType
  <2>13. Ready(su)
    <3>1. ASSUME ~NoPending(su) PROVE su.d.receipt.id <= su.n /\ OriginOK(su.d.receipt)
      <4>1. s1.d.receipt.id <= s1.n /\ OriginOK(s1.d.receipt)
        BY <2>5, <2>9, <2>11, <3>1 DEF Stays, Goes, Ready, NoPending
      <4>2. s1.d.receipt \in ReceiptType BY <2>7, <2>9, <2>11, <3>1 DEF NoPending, DiskType
      <4>3. s1.d.receipt.id \in Nat BY <4>2 DEF ReceiptType
      <4> QED BY <1>1, <2>1, <2>6, <2>9, <2>11, <4>1, <4>3
    <3> QED BY <2>11, <3>1 DEF Ready
  <2>15. AuthFine(su.d, su.n) BY <2>3, <2>9, <2>11 DEF AuthFine
  <2> QED BY <2>1, <2>4, <2>6, <2>7, <2>8, <2>10, <2>11, <2>13, <2>15 DEF Fine, StType
<1> QED BY <1>2, <1>3, <1>4

\* finalizeAndroidApkInstallerLaunch
LEMMA FinalizeApkGoes ==
    ASSUME NEW st, Fine(st) PROVE Fine(FinalizeApk(st)) /\ FinalizeApk(st).m = st.m
<1>1. st \in StType /\ st.d \in DiskType /\ st.m \in MemType /\ st.n \in Nat BY DEF Fine, Ready, StType
<1>2. CASE FinalizeApk(st) = st BY <1>2
<1>3. CASE FinalizeApk(st) # st
  <2>1. st.d.auth # NoAuth BY <1>3 DEF FinalizeApk, AuthValid
  <2>2. PICK a \in AuthType : a = st.d.auth BY <1>1, <2>1, AuthIs
  <2>3. a.gen > 0 => a.receipt \in ReceiptType /\ ~a.receipt.terminal /\ a.receipt.id <= st.n
    BY <2>1, <2>2 DEF Fine, AuthFine
  <2>4. PICK r : r = IF a.gen > 0 THEN [a.receipt EXCEPT !.late = FALSE] ELSE st.d.receipt OBVIOUS
  <2>7. r \in ReceiptType \cup {NoHealthReceipt} /\ (r # NoHealthReceipt => r.id <= st.n /\ OriginOK(r))
    <3>1. CASE a.gen > 0
      <4>1. PICK q \in ReceiptType : q = a.receipt BY <2>3, <3>1
      <4>2. r = [q EXCEPT !.late = FALSE] BY <2>4, <3>1, <4>1
      <4>3. r \in ReceiptType /\ r.id = q.id /\ r.terminal = q.terminal BY <4>2 DEF ReceiptType
      <4> QED BY <2>3, <3>1, <4>1, <4>3 DEF OriginOK
    <3>2. CASE ~(a.gen > 0) BY <2>4, <3>2, <1>1 DEF Fine, Ready, NoPending, DiskType
    <3> QED BY <3>1, <3>2
  <2>8. PICK x \in Nat : x = IF a.auto THEN a.version ELSE st.d.marker BY <1>1 DEF AuthType, DiskType
  <2>9. PICK e : e = [st.d EXCEPT !.receipt = r, !.marker = x, !.auth = NoAuth] OBVIOUS
  <2>10. e \in DiskType /\ e.receipt = r /\ e.auth = NoAuth BY <1>1, <2>7, <2>9 DEF DiskType
  <2>11. PICK su : su = [st EXCEPT !.d = e] OBVIOUS
  <2>12. su \in StType /\ su.d = e /\ su.m = st.m /\ su.n = st.n BY <1>1, <2>10, <2>11 DEF StType
  <2>13. FinalizeApk(st) = su BY <1>1, <1>3, <2>2, <2>4, <2>8, <2>9, <2>11 DEF FinalizeApk, StType, DiskType
  <2> QED BY <2>7, <2>10, <2>12, <2>13 DEF Fine, AuthFine, Ready, NoPending
<1> QED BY <1>2, <1>3

\* failAndroidApkInstallerLaunch
LEMMA FailApkGoes ==
    ASSUME NEW st, Fine(st)
    PROVE  Fine(FailApk(st)) /\ FailApk(st).m.at = st.m.at
<1>1. st \in StType /\ st.d \in DiskType /\ st.m \in MemType BY DEF Fine, Ready, StType
<1>2. CASE FailApk(st) = st BY <1>2
<1>3. CASE FailApk(st) = [st EXCEPT !.d.auth = NoAuth, !.m = Released(st.m)]
  <2>1. PICK s1 : s1 = [st EXCEPT !.d.auth = NoAuth] OBVIOUS
  <2>2. Stays(st, s1) /\ s1.m = st.m BY <2>1, AuthRemoved DEF Fine
  <2>3. Fine(s1) BY <2>2, GoesFine DEF Stays
  <2>4. PICK k \in MemType : k = Released(st.m) BY <1>1, ReleasedIs
  <2>6. PICK su : su = [s1 EXCEPT !.m = k] OBVIOUS
  <2>7. su \in StType /\ su.d = s1.d /\ su.m = k /\ su.n = s1.n BY <2>3, <2>6 DEF Fine, Ready, StType
  <2> QED BY <1>1, <1>3, <2>1, <2>3, <2>4, <2>6, <2>7, ReleasedIs DEF Fine, Ready, NoPending, StType
<1> QED BY <1>2, <1>3 DEF FailApk

\* recoverAndroidApkInstallerAuthorization
LEMMA RecoverApkGoes ==
    ASSUME NEW st, Fine(st), st.d.auth # NoAuth
    PROVE  Fine(RecoverApk(st)) /\ RecoverApk(st).m.at = st.m.at
<1>1. st \in StType /\ st.d \in DiskType /\ st.m \in MemType BY DEF Fine, Ready, StType
<1>2. CASE RecoverApk(st) = [st EXCEPT !.d.auth = NoAuth]
  <2>1. PICK su : su = [st EXCEPT !.d.auth = NoAuth] OBVIOUS
  <2>2. Stays(st, su) /\ su.m = st.m BY <2>1, AuthRemoved DEF Fine
  <2> QED BY <1>2, <2>1, <2>2, GoesFine DEF Stays
<1>3. CASE RecoverApk(st) = FinalizeApk(st) BY <1>3, FinalizeApkGoes
<1>4. CASE RecoverApk(st) = FailApk(st) BY <1>4, FailApkGoes
<1>5. CASE RecoverApk(st) = [st EXCEPT !.m.busy = TRUE, !.m.permission = TRUE]
  <2>1. PICK k : k = [st.m EXCEPT !.busy = TRUE, !.permission = TRUE] OBVIOUS
  <2>2. k \in MemType /\ k.at = st.m.at BY <1>1, <2>1 DEF MemType
  <2>3. PICK su : su = [st EXCEPT !.m = k] OBVIOUS
  <2>5. RecoverApk(st) = su BY <1>1, <1>5, <2>1, <2>3 DEF StType
  <2> QED BY <1>1, <2>2, <2>3, <2>5 DEF Fine, Ready, NoPending, StType
<1> QED BY <1>2, <1>3, <1>4, <1>5 DEF RecoverApk

ManifestType == [gen : Nat, payload : Nat, version : Nat, content : Nat, rollback : Nat, auto : BOOLEAN]

\* acceptPolicyGeneration
LEMMA AcceptPolicyGoes ==
    ASSUME NEW st, Ready(st), NEW mf \in ManifestType PROVE Stays(st, AcceptPolicy(st, mf))
<1>1. st \in StType /\ st.d \in DiskType /\ st.m \in MemType /\ st.n \in Nat /\ st.n <= st.n BY DEF Ready, StType
<1>2. PICK y \in PolicyType : y = [gen |-> mf.gen, payload |-> mf.payload] BY DEF PolicyType, ManifestType
<1>3. PICK g \in Nat : g = mf.gen BY DEF ManifestType
<1>4. PICK e : e = [st.d EXCEPT !.acc = y] OBVIOUS
<1>5. e \in DiskType /\ e.receipt = st.d.receipt /\ e.auth = st.d.auth BY <1>1, <1>4 DEF DiskType
<1>6. PICK k : k = [st.m EXCEPT !.highest = g] OBVIOUS
<1>7. SameCore(st.m, k) BY <1>1, <1>6 DEF SameCore, MemType
<1>8. PICK su : su = [st EXCEPT !.d = e, !.m = k] OBVIOUS
<1>9. su \in StType /\ su.d = e /\ su.m = k /\ su.n = st.n BY <1>1, <1>5, <1>7, <1>8 DEF StType, SameCore
<1>14. Stays(st, su) BY <1>1, <1>5, <1>7, <1>9 DEF Stays, Goes, SameCore, Ready, NoPending, ReceiptGoes, Spent, MemOK
<1> QED BY <1>1, <1>2, <1>3, <1>4, <1>6, <1>8, <1>14 DEF AcceptPolicy, StType

\* armUpdateInstallIntent
LEMMA ArmUpdateGoes ==
    ASSUME NEW st, Ready(st), NEW sel \in SelType PROVE Stays(st, ArmUpdate(st, sel))
<1>1. st \in StType /\ st.d \in DiskType /\ st.m \in MemType /\ st.n \in Nat BY DEF Ready, StType
<1>2. PICK n \in Nat : n = st.n + 1 BY <1>1
<1>4. PICK y \in Nat : y = IF sel.gen > 0 THEN st.d.acc.payload ELSE 0 BY <1>1 DEF PolicyType, DiskType
<1>5. PICK i : i = [NoIntent EXCEPT !.kind = "update", !.id = n, !.version = sel.version, !.gen = sel.gen, !.payload = y]
  OBVIOUS
<1>6. sel.version \in Nat /\ sel.gen \in Nat BY DEF SelType
<1>7. i \in IntentType /\ i.kind = "update" /\ i.lease = 0 BY <1>5, <1>6 DEF IntentType, NoIntent
<1>8. PICK k : k = [st.m EXCEPT !.sel = sel, !.selfHosted = TRUE, !.intent = i] OBVIOUS
<1>9. /\ k \in MemType /\ k.at = st.m.at /\ k.intent = i /\ k.busy = st.m.busy /\ k.prepared = st.m.prepared
      /\ k.download = st.m.download BY <1>1, <1>7, <1>8 DEF MemType
<1>10. PICK su : su = [st EXCEPT !.n = n, !.m = k] OBVIOUS
<1>11. su \in StType /\ su.d = st.d /\ su.m = k /\ su.n = n BY <1>1, <1>9, <1>10 DEF StType
<1>12. ArmUpdate(st, sel) = su BY <1>1, <1>2, <1>4, <1>5, <1>8, <1>10 DEF ArmUpdate, StType
<1>13. st.n <= n BY <1>1, <1>2
<1>14. Ready(su)
  <2>1. ASSUME ~NoPending(su) PROVE su.d.receipt.id <= su.n /\ OriginOK(su.d.receipt)
    <3>2. st.d.receipt \in ReceiptType BY <1>1, <1>11, <2>1 DEF DiskType, NoPending
    <3>3. st.d.receipt.id \in Nat BY <3>2 DEF ReceiptType
    <3> QED BY <1>1, <1>11, <1>13, <2>1, <3>3 DEF Ready, NoPending
  <2> QED BY <1>11, <2>1 DEF Ready
<1> QED BY <1>7, <1>9, <1>11, <1>12, <1>13, <1>14 DEF Stays, Goes, ReceiptGoes, NoPending, Spent, MemOK

\* processSelfHostedManifest
LEMMA ProcessManifestGoes ==
    ASSUME NEW st, Ready(st), NEW mf \in ManifestType, NEW eligible
    PROVE  Stays(st, ProcessManifest(st, mf, eligible).st)
<1>1. PICK c : c = IF mf.gen = 0 THEN st ELSE AcceptPolicy(st, mf) OBVIOUS
<1>2. Stays(st, c) BY <1>1, AcceptPolicyGoes, GoesNowhere
<1>3. PICK sel \in SelType : sel = SelectArtifact(mf) BY DEF SelectArtifact, SelType, ManifestType
<1>4. PICK su : su = ArmUpdate(c, sel) OBVIOUS
<1> QED BY <1>1, <1>2, <1>3, <1>4, ArmUpdateGoes, StaysOn, GoesNowhere DEF Stays, Goes, ProcessManifest

\* A write of quiet fields of the memory, as a handler.
LEMMA QuietStays ==
    ASSUME NEW st, Ready(st), NEW k, SameCore(st.m, k) PROVE Stays(st, [st EXCEPT !.m = k])
<1>1. st \in StType /\ st.n \in Nat /\ st.n <= st.n /\ k \in MemType BY DEF Ready, StType, SameCore
<1>2. PICK su : su = [st EXCEPT !.m = k] OBVIOUS
<1>3. Is(su, st, st.d.receipt, k, st.n) BY <1>1, <1>2, MemoryWritten
<1> QED BY <1>1, <1>2, <1>3, QuietGoes

\* The end of a check, with the installation it may schedule.
LEMMA CheckEnds ==
    ASSUME NEW st, Ready(st) PROVE Stays(st, FinishCheck(st)) /\ Stays(st, FinishCheck(ScheduleAutoInstall(st)))
<1>1. ASSUME NEW su, Ready(su) PROVE Stays(su, FinishCheck(su))
  <2>1. su \in StType /\ su.m \in MemType BY <1>1 DEF Ready, StType
  <2>2. PICK k : k = [su.m EXCEPT !.checking = FALSE] OBVIOUS
  <2>3. SameCore(su.m, k) BY <2>1, <2>2, QuietWrites
  <2>4. FinishCheck(su) = [su EXCEPT !.m = k] BY <2>1, <2>2 DEF FinishCheck, StType
  <2> QED BY <1>1, <2>3, <2>4, QuietStays
<1>2. Stays(st, ScheduleAutoInstall(st))
  <2>1. st \in StType /\ st.m \in MemType BY DEF Ready, StType
  <2>2. PICK k : k = [st.m EXCEPT !.autoMark = TRUE, !.autoQueued = TRUE] OBVIOUS
  <2>3. SameCore(st.m, k) BY <2>1, <2>2 DEF SameCore, MemType
  <2>4. ScheduleAutoInstall(st) = st \/ ScheduleAutoInstall(st) = [st EXCEPT !.m = k]
    BY <2>1, <2>2 DEF ScheduleAutoInstall, StType
  <2> QED BY <2>3, <2>4, QuietStays, GoesNowhere
<1> QED BY <1>1, <1>2, StaysOn DEF Stays, Goes

-----------------------------------------------------------------------------
(* The client's steps.                                                     *)

\* The state a handler left becomes the client's.
Now(su) ==
    /\ disk' = su.d /\ mem' = su.m /\ world' \in WorldType /\ world'.ids = su.n
    /\ world'.autoStarts = world.autoStarts /\ world'.platform = world.platform

\* The fields of the state a handler is given.
LEMMA HereIs == Here.d = disk /\ Here.m = mem /\ Here.n = world.ids
BY DEF Here

\* The client's state is one that a handler may be given.
LEMMA HereReady == ASSUME ClientInv PROVE Ready(Here) /\ Fine(Here) /\ world \in WorldType
<1>1. ClientGood(Here, world.autoStarts) /\ world \in WorldType BY DEF ClientInv
<1> QED BY <1>1 DEF Fine, ClientGood, Ready, ReceiptOK, NoPending, OriginOK

\* The end of a handler.
LEMMA BecomesNow == ASSUME ClientInv, NEW su, Ready(su), ClientBecomes(su) PROVE Now(su)
<1>3. disk' = su.d /\ mem' = su.m /\ world' = [world EXCEPT !.ids = su.n] BY DEF ClientBecomes
<1> QED BY <1>3 DEF Now, WorldType, Ready, StType, ClientInv

\* The state after a step.
LEMMA HereNow == ASSUME NEW su \in StType, Now(su) PROVE Here' = su
<1> QED BY DEF Here, Now, StType

\* A handler keeps the invariant.
LEMMA StepGoes ==
    ASSUME ClientInv, NEW su, Goes(Here, su), Now(su), StartingOK(su.d, su.m),
           world.platform = "desktop" => LaunchOK(su.d, su.m)
    PROVE  ClientInv'
<1>1. Ready(Here) /\ Fine(Here) BY HereReady
<1>2. su \in StType /\ su.n \in Nat BY DEF Goes, Ready, StType
<1>3. Here.n \in Nat /\ Here.n <= su.n BY <1>1 DEF Goes, Ready, StType
<1>4. ReceiptOK(disk, mem, world.ids, world.autoStarts) BY HereIs DEF ClientInv, ClientGood
<1>5. world.autoStarts \in SUBSET [receipt : Nat, lease : Nat] BY DEF ClientInv, WorldType
<1>6. ReceiptOK(su.d, su.m, su.n, world.autoStarts)
  <2>1. \A a \in world.autoStarts : a.receipt <= su.n
    <3>1. TAKE a \in world.autoStarts
    <3> QED BY <1>2, <1>3, <1>4, <1>5, HereIs DEF ReceiptOK
  <2>2. ASSUME su.d.receipt # NoHealthReceipt
        PROVE  /\ su.d.receipt.id <= su.n /\ (su.d.receipt.terminal => su.d.receipt.origin # "automatic")
               /\ \A a \in world.autoStarts : su.d.receipt.id = a.receipt => Spent(su.d.receipt, su.m)
    <3>2. ASSUME NEW a \in world.autoStarts, su.d.receipt.id = a.receipt PROVE Spent(su.d.receipt, su.m)
      <4>1. CASE /\ ~NoPending(Here) /\ su.d.receipt.id = Here.d.receipt.id
                 /\ (Spent(Here.d.receipt, Here.m) => Spent(su.d.receipt, su.m))
        <5>1. disk.receipt # NoHealthReceipt /\ disk.receipt.id = a.receipt BY <3>2, <4>1, HereIs DEF NoPending
        <5> QED BY <1>4, <3>2, <4>1, <5>1, HereIs DEF ReceiptOK
      <4>2. CASE su.d.receipt.id > Here.n BY <1>5, <3>2, <1>4, <1>3, <4>2, HereIs DEF ReceiptOK
      <4> QED BY <2>2, <4>1, <4>2 DEF Goes, ReceiptGoes, NoPending
    <3> QED BY <2>2, <3>2 DEF OriginOK, Goes, Ready, NoPending
  <2> QED BY <2>1, <2>2 DEF ReceiptOK
<1>12. ASSUME world.platform = "desktop" PROVE su.d.auth = NoAuth /\ MemOK(su.m) /\ LaunchOK(su.d, su.m)
  BY <1>12, HereIs DEF ClientInv, Goes
<1> QED BY <1>1, <1>2, <1>6, <1>12, GoesFine, HereNow DEF ClientInv, Now, StartsOK, ClientGood, Fine

\* So does any step of a client that launches no automatic rollback.
LEMMA StepFine ==
    ASSUME ClientInv, NEW su, Fine(su), Now(su), world.platform # "desktop", StartingOK(su.d, su.m)
    PROVE  ClientInv'
<1>1. su \in StType BY DEF Fine, Ready
<1> QED BY <1>1, HereNow DEF ClientInv, Now, StartsOK, ClientGood, Fine, ReceiptOK, Ready, NoPending, OriginOK

\* A handler of the running client.
LEMMA Handled ==
    ASSUME ClientInv, ClientAlive, NEW su, Stays(Here, su), ClientBecomes(su) PROVE ClientInv'
<1>1. Goes(Here, su) /\ Ready(su) /\ su.m.at = "running" BY HereIs DEF Stays, Goes, ClientAlive
<1> QED BY <1>1, BecomesNow, StepGoes DEF StartingOK, LaunchOK

\* Two handlers in a row.
LEMMA HandledTwice ==
    ASSUME ClientInv, ClientAlive, NEW st, NEW su, Stays(Here, st), Ready(st) => Stays(st, su), ClientBecomes(su)
    PROVE  ClientInv'
<1> QED BY HereReady, StaysOn, Handled DEF Stays, Goes

\* The manifest's callbacks.
LEMMA ReplySteps ==
    ASSUME ClientInv
    PROVE  /\ \A mf \in ManifestType : \A eligible : ManifestReply(mf, eligible) => ClientInv'
           /\ NoManifestReply => ClientInv'
           /\ CheckTimeout => ClientInv'
<1>1. Ready(Here) /\ mem \in MemType BY HereReady, HereIs DEF Ready, StType
<1>2. ASSUME NEW t PROVE Stays(Here, [Here EXCEPT !.m.replies = @ \ {t}])
  <2>1. PICK q \in SUBSET Nat : q = mem.replies \ {t}
    <3>1. mem.replies \in SUBSET Nat BY <1>1 DEF MemType
    <3> QED BY <3>1
  <2>2. PICK k : k = [mem EXCEPT !.replies = q] OBVIOUS
  <2>3. SameCore(Here.m, k) BY <1>1, <2>1, <2>2, QuietWrites, HereIs
  <2> QED BY <1>1, <2>1, <2>2, <2>3, QuietStays DEF Here
<1>3. ASSUME NEW mf \in ManifestType, NEW eligible, ManifestReply(mf, eligible) PROVE ClientInv'
  <2>1. PICK t \in mem.replies :
          LET st == [Here EXCEPT !.m.replies = @ \ {t}]
              p == ProcessManifest(st, mf, eligible)
          IN CASE ~mem.checking \/ t # mem.token -> ClientBecomes(st)
               [] mem.checking /\ t = mem.token /\ p.result = "available" ->
                      ClientBecomes(FinishCheck(ScheduleAutoInstall(p.st)))
               [] OTHER -> ClientBecomes(FinishCheck(p.st)) BY <1>3 DEF ManifestReply
  <2>2. PICK st : st = [Here EXCEPT !.m.replies = @ \ {t}] OBVIOUS
  <2>3. PICK p : p = ProcessManifest(st, mf, eligible) OBVIOUS
  <2>4. Stays(Here, st) /\ Ready(st) BY <1>2, <2>2 DEF Stays, Goes
  <2>5. Stays(st, p.st) /\ Ready(p.st) BY <2>3, <2>4, ProcessManifestGoes DEF Stays, Goes
  <2>9. PICK su : su \in {st, FinishCheck(p.st), FinishCheck(ScheduleAutoInstall(p.st))} /\ ClientBecomes(su)
    BY <2>1, <2>2, <2>3
  <2> QED BY <1>1, <1>3, <2>4, <2>5, <2>9, CheckEnds, StaysOn, Handled DEF ManifestReply
<1>4. ASSUME NoManifestReply PROVE ClientInv' BY <1>4, <1>2, CheckEnds, GoesNowhere, HandledTwice DEF NoManifestReply
<1>5. ASSUME CheckTimeout PROVE ClientInv'
  BY <1>1, CheckEnds, QuietWrites, QuietStays, <1>5, HandledTwice DEF Stays, Goes, Ready, StType, CheckTimeout
<1> QED BY <1>3, <1>4, <1>5

\* A memory with nothing of an attempt in it.
LEMMA MemoryReplaced ==
    ASSUME NEW st, Ready(st), NEW k \in MemType, k.intent = NoIntent, MemOK(k)
    PROVE  /\ Goes(st, [st EXCEPT !.m = k]) /\ [st EXCEPT !.m = k].d = st.d /\ [st EXCEPT !.m = k].m = k
           /\ [st EXCEPT !.m = k].n = st.n
<1>1. st \in StType /\ st.n \in Nat /\ st.n <= st.n BY DEF Ready, StType
<1>2. PICK su : su = [st EXCEPT !.m = k] OBVIOUS
<1>3. su \in StType /\ su.d = st.d /\ su.m = k /\ su.n = st.n BY <1>1, <1>2 DEF StType
<1> QED BY <1>1, <1>2, <1>3, NoIntentSpends DEF Goes, Ready, NoPending, ReceiptGoes

\* checkForUpdates
LEMMA CheckStep == ASSUME ClientInv, CheckForUpdates PROVE ClientInv'
<1>1. Ready(Here) /\ mem \in MemType /\ disk \in DiskType /\ world \in WorldType
  BY HereReady, HereIs DEF Ready, StType
<1>2. PICK t \in Nat : t = world.checks + 1 BY <1>1 DEF WorldType
<1>3. PICK c \in MemType : c = ClearSelection(mem) BY <1>1, ClearedIs
<1>4. /\ c.at = mem.at /\ c.intent = NoIntent /\ c.sel = NoSelection /\ c.prepared = mem.prepared
      /\ c.download = mem.download /\ c.busy = mem.busy BY <1>1, <1>3, ClearedIs
<1>5. PICK q \in SUBSET Nat : q = c.replies \cup {t}
  <2>1. c.replies \in SUBSET Nat BY DEF MemType
  <2> QED BY <2>1
<1>6. PICK k : k = [c EXCEPT !.checking = TRUE, !.token = t, !.autoMark = FALSE, !.replies = q] OBVIOUS
<1>7. /\ k \in MemType /\ k.at = c.at /\ k.intent = c.intent /\ k.sel = c.sel /\ k.prepared = c.prepared
      /\ k.download = c.download /\ k.busy = c.busy BY <1>6 DEF MemType
<1>10. PICK su : su = [Here EXCEPT !.m = k] OBVIOUS
<1>11. Stays(Here, su) /\ su.d = disk /\ su.m = k /\ su.n = world.ids
  BY <1>1, <1>4, <1>7, <1>10, NoIntentSpends, MemoryGoes, HereIs DEF MemOK, NoIntent, NoSelection
<1>15. Now(su) BY <1>1, <1>2, <1>3, <1>5, <1>6, <1>11 DEF Now, CheckForUpdates, WorldType
<1> QED BY <1>4, <1>7, <1>11, <1>15, StepGoes DEF Stays, StartingOK, LaunchOK, CheckForUpdates, ClientAlive

\* runInstaller, by the user or queued
LEMMA InstallSteps ==
    ASSUME ClientInv PROVE (UserInstall => ClientInv') /\ (AutoInstall => ClientInv')
<1>1. Ready(Here) /\ mem \in MemType BY HereReady, HereIs DEF Ready, StType
<1>2. ASSUME UserInstall PROVE ClientInv'
  BY <1>2, HereIs, <1>1, RunInstallerGoes, Handled DEF UserInstall, ClientAlive
<1>3. ASSUME AutoInstall PROVE ClientInv'
  <2>1. PICK k : k = [mem EXCEPT !.autoQueued = FALSE] OBVIOUS
  <2>2. SameCore(Here.m, k) BY <1>1, <2>1, QuietWrites, HereIs
  <2>3. PICK st : st = [Here EXCEPT !.m = k] OBVIOUS
  <2>4. Stays(Here, st) /\ Ready(st) BY <1>1, <2>2, <2>3, QuietStays DEF Stays, Goes
  <2>6. ClientAlive /\ ClientBecomes(RunInstaller(st)) BY <1>3, <2>1, <2>3 DEF AutoInstall, Here
  <2> QED BY <2>4, <2>6, HereIs, RunInstallerGoes, HandledTwice DEF Stays, ClientAlive
<1> QED BY <1>2, <1>3

\* runPendingRollback and the attempts queued
LEMMA RollbackSteps ==
    ASSUME ClientInv PROVE (QueuedRollback => ClientInv') /\ (ManualRollback => ClientInv')
<1>1. Ready(Here) /\ mem \in MemType BY HereReady, HereIs DEF Ready, StType
<1>2. ASSUME QueuedRollback PROVE ClientInv'
  <2>1. PICK a \in mem.queue : ClientBecomes(RunRollback([Here EXCEPT !.m.queue = @ \ {a}], a))
    BY <1>2 DEF QueuedRollback
  <2>2. mem.queue \in SUBSET AttemptType BY <1>1 DEF MemType
  <2>3. PICK q \in SUBSET AttemptType : q = mem.queue \ {a} BY <2>2
  <2>4. PICK k : k = [mem EXCEPT !.queue = q] OBVIOUS
  <2>5. SameCore(Here.m, k) BY <1>1, <2>4, QuietWrites, HereIs
  <2>6. PICK st : st = [Here EXCEPT !.m = k] OBVIOUS
  <2>7. Stays(Here, st) /\ Ready(st) BY <1>1, <2>5, <2>6, QuietStays DEF Stays, Goes
  <2>9. ClientAlive /\ ClientBecomes(RunRollback(st, a)) BY <1>2, <2>1, <2>3, <2>4, <2>6 DEF QueuedRollback, Here
  <2> QED BY <2>2, <2>7, <2>9, HereIs, RunRollbackGoes, HandledTwice DEF Stays, ClientAlive
<1>3. ASSUME ManualRollback PROVE ClientInv'
  BY <1>3, HereIs, <1>1, ClaimGoes, PendingIs, AttemptIs, RunRollbackGoes, HandledTwice DEF ManualRollback, Stays,
    Goes, Ready, ClientAlive
<1> QED BY <1>2, <1>3

\* The timers and the poll for a confirmation.
LEMMA TimerSteps ==
    ASSUME ClientInv
    PROVE  (RetryTimer => ClientInv') /\ (HealthTimer => ClientInv') /\ (ConfirmPoll => ClientInv')
<1>1. Ready(Here) /\ mem \in MemType BY HereReady, HereIs DEF Ready, StType
<1>2. ASSUME RetryTimer PROVE ClientInv'
  <2>1. PICK t \in mem.retries :
          LET st == [Here EXCEPT !.m.retries = @ \ {t}]
              r == disk.receipt
          IN IF ~Pending(disk) \/ ~ReceiptValid(r) \/ r.id # t.receipt \/ r.rb # ""
                \/ r.terminal \/ r.fails # t.fails \/ r.retry = "none"
             THEN ClientBecomes(st)
             ELSE IF r.retry = "waiting" THEN ClientBecomes(ScheduleRetry(st))
             ELSE ClientBecomes(ScheduleAutomatic(st)) BY <1>2 DEF RetryTimer
  <2>2. PICK q \in SUBSET RetryType : q = mem.retries \ {t}
    <3>1. mem.retries \in SUBSET RetryType BY <1>1 DEF MemType
    <3> QED BY <3>1
  <2>3. PICK k : k = [mem EXCEPT !.retries = q] OBVIOUS
  <2>4. SameCore(Here.m, k) BY <1>1, <2>3, QuietWrites, HereIs
  <2>5. PICK st : st = [Here EXCEPT !.m = k] OBVIOUS
  <2>6. Stays(Here, st) /\ Ready(st) BY <1>1, <2>4, <2>5, QuietStays DEF Stays, Goes
  <2>7. st = [Here EXCEPT !.m.retries = @ \ {t}] BY <2>2, <2>3, <2>5 DEF Here
  <2>8. st.d = disk BY <2>5 DEF Here
  <2>9. ClientAlive BY <1>2 DEF RetryTimer
  <2>10. CASE ClientBecomes(st) BY <2>6, <2>9, <2>10, Handled
  <2>11. CASE Pending(disk) /\ ClientBecomes(ScheduleRetry(st))
    BY <2>6, <2>8, <2>9, <2>11, ScheduleRetryGoes, HandledTwice
  <2>12. CASE Pending(disk) /\ ClientBecomes(ScheduleAutomatic(st))
    BY <2>6, <2>8, <2>9, <2>12, ScheduleAutomaticGoes, HandledTwice
  <2> QED BY <2>1, <2>7, <2>10, <2>11, <2>12
<1>3. ASSUME HealthTimer PROVE ClientInv'
  <2>1. PICK k : k = [mem EXCEPT !.wake = FALSE] OBVIOUS
  <2>2. SameCore(Here.m, k) BY <1>1, <2>1, QuietWrites, HereIs
  <2>3. PICK st : st = [Here EXCEPT !.m = k] OBVIOUS
  <2>6. ClientAlive /\ ClientBecomes(Refresh(st)) BY <1>3, <2>1, <2>3 DEF HealthTimer, Here
  <2> QED BY <1>1, <2>2, <2>3, <2>6, QuietStays, RefreshGoes, HandledTwice
<1>4. ASSUME ConfirmPoll PROVE ClientInv'
  <2>1. PICK k : k = [mem EXCEPT !.poll = FALSE] OBVIOUS
  <2>2. SameCore(Here.m, k) BY <1>1, <2>1, QuietWrites, HereIs
  <2>3. PICK s0 : s0 = [Here EXCEPT !.m = k] OBVIOUS
  <2>4. Stays(Here, s0) /\ Ready(s0) BY <1>1, <2>2, <2>3, QuietStays DEF Stays, Goes
  <2>5. s0 = [Here EXCEPT !.m.poll = FALSE] BY <2>1, <2>3 DEF Here
  <2>6. PICK st : st = Refresh(s0) OBVIOUS
  <2>7. Stays(Here, st) /\ Ready(st) BY <1>1, <2>4, <2>6, RefreshGoes, StaysOn DEF Stays, Goes
  <2>8. PICK ready \in BOOLEAN :
          LET tried == IF ready THEN ConfirmHealthy(st) ELSE st
          IN CASE ~ConfirmationPending(st.d) -> ClientBecomes(st)
               [] ConfirmationPending(st.d) /\ ~ConfirmationPending(tried.d) -> ClientBecomes(tried)
               [] OTHER -> IF tried.d.receipt.late THEN ClientBecomes(Refresh(tried))
                           ELSE ClientBecomes([tried EXCEPT !.m.poll = TRUE]) BY <1>4, <2>5, <2>6 DEF ConfirmPoll
  <2>9. PICK tried : tried = IF ready THEN ConfirmHealthy(st) ELSE st OBVIOUS
  <2>11. Stays(Here, tried) /\ Ready(tried)
    BY <1>1, <2>7, <2>9, ConfirmHealthyGoes, GoesNowhere, StaysOn DEF Stays, Goes
  <2>12. Stays(tried, [tried EXCEPT !.m.poll = TRUE])
    <3>1. tried \in StType /\ tried.m \in MemType BY <2>11 DEF Ready, StType
    <3>2. PICK j : j = [tried.m EXCEPT !.poll = TRUE] OBVIOUS
    <3>3. SameCore(tried.m, j) BY <3>1, <3>2, QuietWrites
    <3>4. [tried EXCEPT !.m.poll = TRUE] = [tried EXCEPT !.m = j] BY <3>1, <3>2 DEF StType
    <3> QED BY <2>11, <3>3, <3>4, QuietStays
  <2>13. ClientAlive BY <1>4 DEF ConfirmPoll
  <2>14. PICK su : su \in {st, tried, Refresh(tried), [tried EXCEPT !.m.poll = TRUE]} /\ ClientBecomes(su)
    BY <2>8, <2>9
  <2>15. CASE su = st BY <2>7, <2>13, <2>14, <2>15, Handled
  <2>16. CASE su = tried BY <2>11, <2>13, <2>14, <2>16, Handled
  <2>17. CASE su \in {Refresh(tried), [tried EXCEPT !.m.poll = TRUE]}
    BY <2>11, <2>12, <2>13, <2>14, <2>17, RefreshGoes, HandledTwice
  <2> QED BY <2>14, <2>15, <2>16, <2>17
<1> QED BY <1>2, <1>3, <1>4

\* The download ends: on the desktop the record is written before the launch.
LEMMA DownloadStep == ASSUME ClientInv, DownloadFinished PROVE ClientInv'
<1>1. Ready(Here) /\ Fine(Here) /\ mem \in MemType /\ disk \in DiskType /\ world \in WorldType
  BY HereReady, HereIs DEF Ready, StType
<1>2. ClientAlive /\ mem.download # 0 BY DEF DownloadFinished
<1>3. PICK k : k = [mem EXCEPT !.download = 0] OBVIOUS
<1>4. /\ k \in MemType /\ k.at = mem.at /\ k.intent = mem.intent /\ k.sel = mem.sel /\ k.prepared = mem.prepared
      /\ k.download = 0 /\ k.busy = mem.busy /\ k.rollback = mem.rollback BY <1>1, <1>3 DEF MemType
<1>5. PICK st : st = [Here EXCEPT !.m = k] OBVIOUS
<1>6. MemOK(mem) => MemOK(k) BY <1>4 DEF MemOK
<1>8. Stays(Here, st) /\ st.d = disk /\ st.m = k /\ st.n = world.ids
  BY <1>1, <1>4, <1>5, <1>6, MemoryGoes, HereIs DEF Spent
<1>10. PICK prep : prep = IF mem.prepared THEN [ok |-> TRUE, st |-> st]
                          ELSE IF world.platform = "android" THEN PrepareApk(st) ELSE PrepareHandoff(st) OBVIOUS
<1>11. \/ ClientBecomes(InstallFailed(st))
       \/ ~prep.ok /\ mem.download = mem.sel.version /\ ClientBecomes(InstallFailed(prep.st))
       \/ /\ prep.ok /\ mem.download = mem.sel.version
          /\ ClientBecomes([prep.st EXCEPT !.m.prepared = TRUE, !.m.at = "launch"])
  BY <1>3, <1>5, <1>10 DEF DownloadFinished, Here
<1>12. Ready(st) /\ Fine(st) BY <1>1, <1>8, GoesFine DEF Stays, Fine
<1>13. CASE ClientBecomes(InstallFailed(st)) BY <1>2, <1>4, <1>8, <1>13, InstallFailedGoes, HandledTwice
<1>14. CASE world.platform = "desktop" /\ mem.download = mem.sel.version
  <2>1. MemOK(mem) /\ disk.auth = NoAuth BY <1>14 DEF ClientInv
  <2>2. mem.busy /\ ~mem.prepared BY <1>2, <2>1 DEF MemOK
  <2>5. Stays(st, prep.st) /\ SameCore(st.m, prep.st.m) /\ (prep.ok => Recorded(prep.st.d, st.m))
    BY <1>1, <1>2, <1>4, <1>6, <1>8, <1>10, <1>12, <1>14, <2>1, <2>2, PrepareHandoffGoes
  <2>6. Stays(Here, prep.st) /\ Ready(prep.st) BY <1>1, <1>8, <2>5, StaysOn DEF Stays, Goes
  <2>7. CASE ClientBecomes(InstallFailed(prep.st))
    BY <1>4, <1>8, <2>5, <1>2, <2>6, <2>7, InstallFailedGoes, HandledTwice DEF SameCore
  <2>8. CASE prep.ok /\ ClientBecomes([prep.st EXCEPT !.m.prepared = TRUE, !.m.at = "launch"])
    <3>1. PICK sv : sv = prep.st OBVIOUS
    <3>2. sv \in StType /\ sv.d \in DiskType /\ sv.m \in MemType BY <2>6, <3>1 DEF Ready, StType
    <3>3. /\ sv.m.sel = mem.sel /\ sv.m.intent = mem.intent /\ sv.m.rollback = mem.rollback /\ sv.m.busy = mem.busy
          /\ sv.m.download = 0 BY <1>4, <1>8, <2>5, <3>1 DEF SameCore
    <3>4. PICK j : j = [sv.m EXCEPT !.prepared = TRUE, !.at = "launch"] OBVIOUS
    <3>5. /\ j \in MemType /\ j.at = "launch" /\ j.sel = mem.sel /\ j.intent = mem.intent /\ j.busy = mem.busy
          /\ j.rollback = mem.rollback /\ j.download = 0 BY <3>2, <3>3, <3>4 DEF MemType
    <3>6. PICK su : su = [sv EXCEPT !.m = j] OBVIOUS
    <3>7. su \in StType /\ su.d = sv.d /\ su.m = j /\ su.n = sv.n BY <3>2, <3>5, <3>6 DEF StType
    <3>8. ClientBecomes(su)
      <4>1. su = [prep.st EXCEPT !.m.prepared = TRUE, !.m.at = "launch"] BY <3>1, <3>2, <3>4, <3>6 DEF StType
      <4> QED BY <2>8, <4>1
    <3>9. MemOK(j) BY <2>1, <2>2, <3>5 DEF MemOK
    <3>11. Ready(su) BY <2>6, <3>1, <3>7 DEF Ready, NoPending
    <3>14. Goes(sv, su) BY <3>2, <3>3, <3>5, <3>7, <3>9, <3>11 DEF Goes, ReceiptGoes, NoPending, Spent, StType
    <3>19. StartingOK(su.d, su.m) /\ LaunchOK(su.d, su.m)
      BY <1>4, <1>8, <2>5, <2>8, <3>1, <3>5, <3>7 DEF StartingOK, LaunchOK, Recorded
    <3> QED BY <1>1, <2>6, <3>1, <3>2, <3>7, <3>8, <3>11, <3>14, <3>19, GoesOn, BecomesNow, StepGoes DEF Stays, Ready
  <2> QED BY <1>11, <1>13, <2>7, <2>8
<1>15. CASE world.platform # "desktop"
  <2>1. Fine(prep.st) /\ prep.st.m.download = 0 /\ prep.st.m.at = "running"
    BY <1>2, <1>4, <1>8, <1>12, <1>1, PrepareApkGoes, GoesNowhere, RecordRollbackGoes, RecordHandoffGoes, GoesFine,
      <1>10 DEF ClientAlive, SameCore, PrepareHandoff, Stays
  <2>2. PICK sv : sv = prep.st OBVIOUS
  <2>3. CASE ClientBecomes(InstallFailed(sv))
    BY <2>1, <2>2, InstallFailedGoes, GoesFine, <2>3, BecomesNow, <1>15, StepFine DEF Fine, Stays, StartingOK
  <2>4. CASE ClientBecomes([sv EXCEPT !.m.prepared = TRUE, !.m.at = "launch"])
    <3>1. sv \in StType /\ sv.m \in MemType BY <2>1, <2>2 DEF Fine, Ready, StType
    <3>2. PICK j : j = [sv.m EXCEPT !.prepared = TRUE, !.at = "launch"] OBVIOUS
    <3>3. j \in MemType /\ j.at = "launch" BY <3>1, <3>2 DEF MemType
    <3>4. PICK su : su = [sv EXCEPT !.m = j] OBVIOUS
    <3>5. su \in StType /\ su.d = sv.d /\ su.m = j /\ su.n = sv.n BY <3>1, <3>3, <3>4 DEF StType
    <3>6. su = [sv EXCEPT !.m.prepared = TRUE, !.m.at = "launch"] BY <3>1, <3>2, <3>4 DEF StType
    <3>7. Fine(su) BY <2>1, <2>2, <3>5 DEF Fine, Ready, NoPending
    <3>8. Now(su) BY <2>4, <3>6, <3>7, BecomesNow DEF Fine
    <3> QED BY <1>15, <3>3, <3>5, <3>7, <3>8, StepFine DEF StartingOK
  <2> QED BY <1>11, <1>13, <2>2, <2>3, <2>4
<1> QED BY <1>11, <1>13, <1>14, <1>15

\* The installer's process.
LEMMA ProcessIs == ASSUME NEW m \in MemType PROVE Process(m) \in ProcType
<1>1. m.intent \in IntentType /\ m.sel \in SelType BY DEF MemType
<1> QED BY <1>1 DEF Process, ProcType, IntentType, SelType

\* The end of the launch leaves a memory that runs and holds nothing.
LEMMA LaunchedIs ==
    ASSUME NEW m \in MemType, m.download = 0
    PROVE  LET j == [Released(m) EXCEPT !.at = "running"]
           IN j \in MemType /\ j.at = "running" /\ j.intent = NoIntent /\ MemOK(j)
<1>1. PICK c \in MemType : c = Released(m) BY ReleasedIs
<1>2. c.intent = NoIntent /\ c.sel = NoSelection /\ ~c.prepared /\ c.download = 0 BY <1>1, ReleasedIs
<1>3. PICK j : j = [c EXCEPT !.at = "running"] OBVIOUS
<1>4. /\ j \in MemType /\ j.at = "running" /\ j.intent = c.intent /\ j.sel = c.sel /\ j.prepared = c.prepared
      /\ j.download = c.download BY <1>3 DEF MemType
<1> QED BY <1>1, <1>2, <1>3, <1>4 DEF MemOK, NoIntent, NoSelection

\* The automatic rollback of a receipt is launched: it has not been before, and
\* it is spent from then on.
LEMMA LaunchStep == ASSUME ClientInv, LaunchInstaller PROVE ClientInv'
<1>1. Ready(Here) /\ Fine(Here) /\ mem \in MemType /\ disk \in DiskType /\ world \in WorldType /\ world.ids \in Nat
  BY HereReady, HereIs DEF Ready, StType
<1>2. mem.at = "launch" /\ world.platform = "desktop" BY DEF LaunchInstaller
<1>3. disk.auth = NoAuth /\ MemOK(mem) /\ Recorded(disk, mem) BY <1>2 DEF ClientInv, LaunchOK
<1>4. mem.download = 0 BY <1>2, <1>3 DEF MemOK
<1>5. PICK su : su = InstallStarted(Here) OBVIOUS
<1>6. /\ Stays(Here, su) /\ su.d.receipt = disk.receipt /\ su.d.auth = disk.auth /\ su.d.acc = disk.acc
      /\ su.m = Released(mem) /\ su.n = world.ids BY <1>1, <1>4, <1>5, InstallStartedGoes, HereIs
<1>7. PICK j : j = [Released(mem) EXCEPT !.at = "running"] OBVIOUS
<1>8. j \in MemType /\ j.at = "running" /\ j.intent = NoIntent /\ MemOK(j) BY <1>1, <1>4, <1>7, LaunchedIs
<1>9. Ready(su) /\ su \in StType BY <1>6 DEF Stays, Goes, Ready
<1>10. PICK sv : sv = [su EXCEPT !.m = j] OBVIOUS
<1>11. Goes(su, sv) /\ sv.d = su.d /\ sv.m = j /\ sv.n = world.ids BY <1>6, <1>8, <1>9, <1>10, MemoryReplaced
<1>12. sv \in StType /\ Here \in StType BY <1>1, <1>11 DEF Goes, Ready
<1>14. disk' = sv.d /\ mem' = j BY <1>5, <1>6, <1>7, <1>11 DEF LaunchInstaller
<1>15. StartingOK(sv.d, sv.m) /\ LaunchOK(sv.d, sv.m) BY <1>8, <1>11 DEF StartingOK, LaunchOK
<1>16. PICK ps : ps = world.procs \cup {Process(mem)} OBVIOUS
<1>17. ps \in SUBSET ProcType BY <1>1, ProcessIs, <1>16 DEF WorldType
<1>18. PICK starts : starts = IF mem.rollback /\ disk.receipt.origin = "automatic"
                              THEN world.autoStarts \cup {[receipt |-> disk.receipt.id, lease |-> mem.intent.lease]}
                              ELSE world.autoStarts OBVIOUS
<1>19. world' = [world EXCEPT !.procs = ps, !.autoStarts = starts] BY <1>16, <1>18 DEF LaunchInstaller
<1>20. CASE starts = world.autoStarts
  <2>1. /\ world' \in WorldType /\ world'.ids = world.ids /\ world'.autoStarts = world.autoStarts
        /\ world'.platform = world.platform
    <3>1. world.autoStarts \in SUBSET [receipt : Nat, lease : Nat] BY <1>1 DEF WorldType
    <3> QED BY <1>1, <1>17, <1>19, <1>20, <3>1 DEF WorldType
  <2> QED BY <1>6, <1>9, <1>11, <1>12, <1>14, <1>15, <2>1, GoesOn, StepGoes DEF Stays, Now
<1>21. CASE mem.rollback /\ disk.receipt.origin = "automatic"
  <2>1. /\ disk.receipt # NoHealthReceipt /\ disk.receipt.rb = "confirming" /\ mem.intent.lease # 0
        /\ disk.receipt.handoff = mem.intent.lease BY <1>3, <1>21 DEF Recorded
  <2>2. PICK o \in ReceiptType : o = disk.receipt BY <1>1, <2>1 DEF DiskType
  <2>3. o.id \in Nat BY DEF ReceiptType
  <2>4. PICK x : x = [receipt |-> o.id, lease |-> mem.intent.lease] OBVIOUS
  <2>6. x \in [receipt : Nat, lease : Nat] /\ x.receipt = o.id BY <1>1, <2>3, <2>4 DEF MemType, IntentType
  <2>7. starts = world.autoStarts \cup {x} BY <1>18, <1>21, <2>2, <2>4
  <2>8. ReceiptOK(disk, mem, world.ids, world.autoStarts) BY HereIs DEF ClientInv, ClientGood
  <2>9. o.id <= world.ids /\ (o.terminal => o.origin # "automatic") BY <2>1, <2>2, <2>8 DEF ReceiptOK
  <2>14. starts \in SUBSET [receipt : Nat, lease : Nat] BY <1>1, <2>6, <2>7 DEF WorldType
  <2>15. /\ world' \in WorldType /\ world'.ids = world.ids /\ world'.autoStarts = starts
         /\ world'.platform = world.platform BY <1>1, <1>17, <1>19, <2>14 DEF WorldType
  <2>19. ClientGood(Here', world'.autoStarts)
    BY <1>3, <1>6, <1>8, <1>11, <1>12, <1>14, <2>1, <2>2, <2>6, <2>7, <2>8, <2>9, <2>15 DEF ClientGood, StType, Here,
      ReceiptOK, Spent, NoIntent, AuthFine
  <2> QED
    BY <1>2, <1>3, <1>6, <1>8, <1>11, <1>14, <1>15, <1>21, <2>1, <2>2, <2>6, <2>7, <2>8, <2>9, <2>15, <2>19 DEF
      ClientInv, StartsOK, ReceiptOK, Spent
<1> QED BY <1>18, <1>20, <1>21

\* The process cannot be started.
LEMMA LaunchFailsStep == ASSUME ClientInv, LaunchFails PROVE ClientInv'
<1>1. Ready(Here) BY HereReady
<1>2. mem.at = "launch" /\ world.platform = "desktop" BY DEF LaunchFails
<1>5. PICK w : w = Withdraw(Here) OBVIOUS
<1>6. Stays(Here, w) /\ w.m.download = 0 /\ Ready(w)
  BY <1>1, <1>2, <1>5, HereIs, WithdrawGoes DEF Stays, Goes, MemOK, ClientInv
<1>7. w \in StType /\ w.m \in MemType BY <1>6 DEF Ready, StType
<1>8. PICK j : j = [Released(w.m) EXCEPT !.at = "running"] OBVIOUS
<1>9. j \in MemType /\ j.at = "running" /\ j.intent = NoIntent /\ MemOK(j) BY <1>6, <1>7, <1>8, LaunchedIs
<1>10. PICK su : su = [w EXCEPT !.m = j] OBVIOUS
<1>11. Goes(w, su) /\ su.m = j BY <1>6, <1>9, <1>10, MemoryReplaced
<1>12. su = [InstallFailed(Here) EXCEPT !.m.at = "running"] BY <1>5, <1>7, <1>8, <1>10 DEF InstallFailed, StType
<1>13. Here \in StType /\ su \in StType /\ Ready(su) BY <1>1, <1>11 DEF Goes, Ready
<1>15. Now(su) BY <1>12, <1>13, BecomesNow DEF LaunchFails
<1> QED BY <1>6, <1>7, <1>9, <1>11, <1>13, <1>15, GoesOn, StepGoes DEF Stays, StartingOK, LaunchOK

\* The memory of a client without launches.
LEMMA FineMemory ==
    ASSUME NEW st, Fine(st), NEW k \in MemType
    PROVE  Fine([st EXCEPT !.m = k]) /\ [st EXCEPT !.m = k].d = st.d /\ [st EXCEPT !.m = k].m = k
<1>2. PICK su : su = [st EXCEPT !.m = k] OBVIOUS
<1> QED BY <1>2 DEF Fine, Ready, NoPending, StType

\* Such a client goes on running.
LEMMA FineRuns ==
    ASSUME ClientInv, world.platform # "desktop", NEW su, Fine(su), NEW sv,
           sv = [su EXCEPT !.m.at = "running"], ClientBecomes(sv)
    PROVE  ClientInv'
<1>1. su \in StType /\ su.m \in MemType BY DEF Fine, Ready, StType
<1>2. PICK k : k = [su.m EXCEPT !.at = "running"] OBVIOUS
<1>3. k \in MemType /\ k.at = "running" BY <1>1, <1>2 DEF MemType
<1>5. Fine(sv) /\ sv.m = k BY <1>1, <1>2, <1>3, FineMemory DEF StType
<1>6. Now(sv) BY <1>5, BecomesNow DEF Fine
<1>7. StartingOK(sv.d, sv.m) BY <1>3, <1>5 DEF StartingOK
<1> QED BY <1>5, <1>6, <1>7, StepFine

\* The steps of Android's package installer.
LEMMA ApkSteps ==
    ASSUME ClientInv
    PROVE  /\ ApkPermissionNeeded => ClientInv'
           /\ ApkAuthorize => ClientInv'
           /\ ApkStartFails => ClientInv'
           /\ ExpireApk => ClientInv'
<1>1. Ready(Here) /\ Fine(Here) /\ mem \in MemType /\ disk \in DiskType /\ world \in WorldType
  BY HereReady, HereIs DEF Ready, StType
<1>2. ASSUME ApkPermissionNeeded PROVE ClientInv'
  <2>1. PICK k : k = [mem EXCEPT !.at = "running", !.prepared = FALSE, !.permission = TRUE] OBVIOUS
  <2>2. k \in MemType /\ k.at = "running" BY <1>1, <2>1 DEF MemType
  <2>3. PICK su : su = [Here EXCEPT !.m = k] OBVIOUS
  <2>4. Fine(su) /\ su.m = k BY <1>1, <2>2, <2>3, FineMemory
  <2>5. su = [Here EXCEPT !.m.at = "running", !.m.prepared = FALSE, !.m.permission = TRUE] BY <2>1, <2>3 DEF Here
  <2>6. ClientBecomes(su) /\ world.platform # "desktop" BY <1>2, <2>5 DEF ApkPermissionNeeded
  <2> QED BY <2>2, <2>4, <2>6, BecomesNow, StepFine DEF Fine, StartingOK
<1>3. PICK fa : fa = FailApk(Here) OBVIOUS
<1>4. Fine(fa) /\ fa.m.at = mem.at BY <1>1, <1>3, FailApkGoes, HereIs
<1>5. ASSUME ApkAuthorize PROVE ClientInv'
  <2>1. world.platform # "desktop" BY <1>5 DEF ApkAuthorize
  <2>2. CASE ~MayAuthorize(disk) BY <1>3, <1>5, <2>2, <1>4, <2>1, FineRuns DEF ApkAuthorize
  <2>3. CASE MayAuthorize(disk)
    <3>1. /\ disk.auth # NoAuth /\ (disk.auth.gen > 0 => disk.auth.gen = disk.acc.gen)
      BY <2>3 DEF MayAuthorize, AuthValid
    <3>2. PICK a \in AuthType : a = disk.auth BY <1>1, <3>1 DEF DiskType
    <3>3. PICK b : b = [a EXCEPT !.state = "authorized"] OBVIOUS
    <3>4. /\ b \in AuthType /\ b.state = "authorized" /\ b.gen = a.gen /\ b.receipt = a.receipt
          /\ b.version = a.version BY <3>3 DEF AuthType
    <3>5. PICK e : e = [disk EXCEPT !.auth = b] OBVIOUS
    <3>6. e \in DiskType /\ e.auth = b /\ e.receipt = disk.receipt /\ e.acc = disk.acc
      BY <1>1, <3>4, <3>5 DEF DiskType
    <3>7. PICK k : k = [mem EXCEPT !.at = "starting"] OBVIOUS
    <3>8. k \in MemType BY <1>1, <3>7 DEF MemType
    <3>9. PICK su : su = [Here EXCEPT !.d = e, !.m = k] OBVIOUS
    <3>10. su \in StType /\ su.d = e /\ su.m = k /\ su.n = world.ids BY <1>1, <3>6, <3>8, <3>9 DEF Here, StType, Ready
    <3>13. Ready(su) BY <1>1, <3>6, <3>10, HereIs DEF Ready, NoPending
    <3>18. Now(su) BY <1>5, <2>3, <3>2, <3>3, <3>5, <3>7, <3>9, <3>13, BecomesNow DEF ApkAuthorize, Here
    <3> QED
      BY <1>1, <2>1, <3>1, <3>2, <3>4, <3>6, <3>10, <3>13, <3>18, HereIs, StepFine DEF Fine, AuthFine, StartingOK,
        AuthType, NoAuth
  <2> QED BY <2>2, <2>3
<1>6. ASSUME ApkStartFails PROVE ClientInv' BY <1>3, <1>6, <1>4, FineRuns DEF ApkStartFails
<1>7. ASSUME ExpireApk PROVE ClientInv'
  BY <1>3, <1>7, <1>4, BecomesNow, StepFine DEF ExpireApk, AuthValid, ClientInv, Fine, StartingOK, ClientAlive
<1> QED BY <1>2, <1>5, <1>6, <1>7

\* onAndroidApkInstallerStarted
LEMMA ApkStartedStep == ASSUME ClientInv, ApkStarted PROVE ClientInv'
<1>0. world.platform # "desktop" BY DEF ClientInv, MemOK, ApkStarted
<1>1. Ready(Here) /\ Fine(Here) /\ mem \in MemType BY HereReady, HereIs DEF Ready, StType
<1>2. CASE ~AuthValid(disk) BY <1>2, <1>0, <1>1, FineRuns DEF ApkStarted
<1>3. CASE AuthValid(disk)
  <2>1. PICK c \in MemType : c = Released(mem) BY <1>1, ReleasedIs
  <2>2. PICK k : k = [c EXCEPT !.at = "running"] OBVIOUS
  <2>3. k \in MemType /\ k.at = "running" BY <2>2 DEF MemType
  <2>4. PICK f : f = FinalizeApk(Here) OBVIOUS
  <2>6. PICK su : su = [f EXCEPT !.m = k] OBVIOUS
  <2>7. Fine(su) /\ su.m = k BY <1>1, <2>3, <2>4, <2>6, FinalizeApkGoes, FineMemory
  <2>9. Now(su) BY <1>3, <2>1, <2>2, <2>4, <2>6, <2>7, BecomesNow DEF Fine, ApkStarted
  <2> QED BY <1>0, <2>3, <2>7, <2>9, StepFine DEF StartingOK
<1> QED BY <1>2, <1>3

\* The memory of a client just started or ended.
LEMMA FreshMemory ==
    ASSUME NEW g \in Nat
    PROVE  /\ Memory(g) \in MemType /\ Memory(g).at = "running" /\ Memory(g).intent = NoIntent /\ MemOK(Memory(g))
           /\ LET k == [Memory(g) EXCEPT !.at = "down"]
              IN k \in MemType /\ k.at = "down" /\ k.intent = NoIntent /\ MemOK(k)
<1>2. PICK m : m = Memory(g) OBVIOUS
<1>3. /\ m \in MemType /\ m.at = "running" /\ m.intent = NoIntent /\ m.sel = NoSelection /\ ~m.prepared
      /\ m.download = 0 BY <1>2 DEF Memory, MemType, NoIntent, IntentType, NoSelection, SelType
<1>5. PICK k : k = [m EXCEPT !.at = "down"] OBVIOUS
<1>6. /\ k \in MemType /\ k.at = "down" /\ k.intent = m.intent /\ k.sel = m.sel /\ k.prepared = m.prepared
      /\ k.download = m.download BY <1>3, <1>5 DEF MemType
<1> QED BY <1>2, <1>3, <1>5, <1>6 DEF MemOK, NoIntent, NoSelection

\* The application ends, by itself or under its installer.
LEMMA EndSteps ==
    ASSUME ClientInv PROVE (Exit => ClientInv') /\ (InstallerFinishes => ClientInv')
<1>1. Ready(Here) /\ world \in WorldType BY HereReady
<1>3. PICK k : k = [Memory(0) EXCEPT !.at = "down"] OBVIOUS
<1>4. k \in MemType /\ k.at = "down" /\ k.intent = NoIntent /\ MemOK(k) BY <1>3, FreshMemory
<1>5. PICK su : su = [Here EXCEPT !.m = k] OBVIOUS
<1>6. Goes(Here, su) /\ su.d = disk /\ su.m = k /\ su.n = world.ids BY <1>1, <1>4, <1>5, MemoryReplaced, HereIs
<1>7. StartingOK(su.d, su.m) /\ LaunchOK(su.d, su.m) BY <1>4, <1>6 DEF StartingOK, LaunchOK
<1>8. ASSUME Exit PROVE ClientInv' BY <1>1, <1>3, <1>8, <1>6, <1>7, StepGoes DEF WorldType, Exit, Now
<1>9. ASSUME InstallerFinishes PROVE ClientInv'
  <2>1. PICK p \in world.procs : world' = [world EXCEPT !.procs = @ \ {p}, !.version = p.version]
    BY <1>9 DEF InstallerFinishes
  <2>2. world.procs \in SUBSET ProcType BY <1>1 DEF WorldType
  <2>3. PICK v \in Nat : v = p.version BY <2>2 DEF ProcType
  <2>4. PICK ps \in SUBSET ProcType : ps = world.procs \ {p} BY <2>2
  <2>5. world' = [world EXCEPT !.procs = ps, !.version = v] BY <2>1, <2>3, <2>4
  <2>6. /\ world' \in WorldType /\ world'.ids = world.ids /\ world'.autoStarts = world.autoStarts
        /\ world'.platform = world.platform BY <1>1, <2>5 DEF WorldType
  <2> QED BY <1>3, <1>6, <1>7, <1>9, <2>6, StepGoes DEF Now, InstallerFinishes
<1> QED BY <1>8, <1>9

\* The constructor of UpdateController.
LEMMA RestartStep == ASSUME ClientInv, Restart PROVE ClientInv'
<1>1. Ready(Here) /\ Fine(Here) /\ disk \in DiskType BY HereReady, HereIs DEF Ready, StType
<1>3. PICK g \in Nat : g = disk.acc.gen BY <1>1 DEF PolicyType, DiskType
<1>4. PICK k : k = Memory(g) OBVIOUS
<1>5. k \in MemType /\ k.at = "running" /\ k.intent = NoIntent /\ MemOK(k) BY <1>4, FreshMemory
<1>6. PICK st : st = [Here EXCEPT !.m = k] OBVIOUS
<1>7. Goes(Here, st) /\ st.d = disk /\ st.m = k BY <1>1, <1>5, <1>6, MemoryReplaced, HereIs
<1>8. PICK rc : rc = RecoverApk(st) OBVIOUS
<1>9. PICK su : su = Refresh(rc) OBVIOUS
<1>10. ClientBecomes(su) BY <1>3, <1>4, <1>6, <1>8, <1>9 DEF Restart
<1>11. Fine(st) /\ Ready(st) BY <1>1, <1>7, GoesFine DEF Fine
<1>12. CASE disk.auth = NoAuth
  BY <1>7, <1>8, <1>12, <1>9, <1>11, RefreshGoes, <1>1, <1>5, GoesOn, <1>10, BecomesNow, StepGoes DEF RecoverApk,
    Stays, Goes, Ready, StartingOK, LaunchOK
<1>13. CASE disk.auth # NoAuth
  BY <1>13, <1>5, <1>7, <1>8, <1>11, RecoverApkGoes, <1>9, RefreshGoes, GoesFine, <1>10, BecomesNow, StepFine DEF
    ClientInv, Fine, Stays, StartingOK
<1> QED BY <1>12, <1>13

\* An installer gives up, or Android's starts.
LEMMA WorldSteps ==
    ASSUME ClientInv PROVE (InstallerGivesUp => ClientInv') /\ (ApkStart => ClientInv')
<1>1. Ready(Here) /\ Fine(Here) /\ disk \in DiskType /\ mem \in MemType /\ world \in WorldType
  BY HereReady, HereIs DEF Ready, StType
<1>2. ASSUME InstallerGivesUp PROVE ClientInv'
  <2>1. PICK p \in world.procs : world' = [world EXCEPT !.procs = @ \ {p}] BY <1>2 DEF InstallerGivesUp
  <2>2. world.procs \in SUBSET ProcType BY <1>1 DEF WorldType
  <2>3. PICK ps \in SUBSET ProcType : ps = world.procs \ {p} BY <2>2
  <2>8. StartingOK(disk, mem) /\ (world.platform = "desktop" => LaunchOK(disk, mem)) BY DEF ClientInv
  <2> QED BY <1>1, <1>2, <2>1, <2>3, <2>8, GoesNowhere, HereIs, StepGoes DEF Now, InstallerGivesUp, WorldType, Stays
<1>3. ASSUME ApkStart PROVE ClientInv'
  <2>1. mem.at = "starting" /\ disk' = disk BY <1>3 DEF ApkStart
  <2>2. disk.auth # NoAuth BY <2>1 DEF ClientInv, StartingOK
  <2>4. PICK a \in AuthType : a = disk.auth BY <1>1, <2>2 DEF DiskType
  <2>5. PICK p : p = [kind |-> "update", version |-> a.version, gen |-> a.gen, lease |-> 0] OBVIOUS
  <2>6. p \in ProcType BY <2>5 DEF ProcType, AuthType
  <2>7. world.procs \in SUBSET ProcType BY <1>1 DEF WorldType
  <2>8. PICK ps \in SUBSET ProcType : ps = world.procs \cup {p} BY <2>6, <2>7
  <2>11. PICK k : k = [mem EXCEPT !.at = "started"] OBVIOUS
  <2>12. k \in MemType /\ k.at = "started" BY <1>1, <2>11 DEF MemType
  <2>13. PICK su : su = [Here EXCEPT !.m = k] OBVIOUS
  <2>14. Fine(su) /\ su.m = k /\ su.d = disk BY <1>1, <2>12, <2>13, FineMemory, HereIs
  <2>17. Now(su) BY <1>1, <1>3, <2>1, <2>4, <2>5, <2>8, <2>11, <2>13, <2>14 DEF Now, Here, WorldType, ApkStart
  <2> QED BY <2>2, <2>12, <2>14, <2>17, StepFine DEF ClientInv, StartingOK
<1> QED BY <1>2, <1>3

\* Time passes over the receipt, and no record of a launch is lost.
LEMMA ReceiptTouched ==
    ASSUME ClientInv, Pending(disk), NEW r \in ReceiptType, UNCHANGED <<mem, world>>,
           disk' = [disk EXCEPT !.receipt = r],
           r.id = disk.receipt.id /\ r.terminal = disk.receipt.terminal /\ r.origin = disk.receipt.origin,
           r.rb = disk.receipt.rb /\ r.handoff = disk.receipt.handoff /\ r.back = disk.receipt.back,
           r.target = disk.receipt.target /\ r.gen = disk.receipt.gen /\ r.state = disk.receipt.state
    PROVE  ClientInv'
<1>1. Ready(Here) /\ disk \in DiskType /\ world \in WorldType BY HereReady, HereIs DEF Ready, StType
<1>4. PICK su : su = [Here EXCEPT !.d.receipt = r] OBVIOUS
<1>5. Stays(Here, su) /\ su.d.receipt = r /\ su.m = mem /\ su.d.acc = disk.acc
  BY <1>1, <1>4, WriteGoes, HereIs DEF OriginOK, Spent, Ready, NoPending, Pending
<1>6. su.d = [disk EXCEPT !.receipt = r] /\ su.n = world.ids BY <1>4 DEF Here
<1> QED
  BY <1>1, <1>5, <1>6, ReceiptIsReal, StepGoes DEF Stays, Now, ClientInv, StartingOK, DiskType, LaunchOK, Recorded

\* The receipt's clocks.
LEMMA ClockSteps ==
    ASSUME ClientInv
    PROVE  (DeadlinePasses => ClientInv') /\ (LeaseEnds => ClientInv') /\ (RetryDue => ClientInv')
<1>1. Here \in StType BY HereReady DEF Ready
<1>2. ASSUME DeadlinePasses PROVE ClientInv'
  <2>1. PICK o \in ReceiptType : o = disk.receipt BY <1>1, <1>2, PendingIs, HereIs DEF DeadlinePasses
  <2>2. PICK r : r = [o EXCEPT !.late = TRUE] OBVIOUS
  <2>3. /\ r \in ReceiptType /\ r.id = o.id /\ r.terminal = o.terminal /\ r.origin = o.origin /\ r.rb = o.rb
        /\ r.handoff = o.handoff /\ r.back = o.back /\ r.target = o.target /\ r.gen = o.gen /\ r.state = o.state
    BY <2>2 DEF ReceiptType
  <2>4. disk' = [disk EXCEPT !.receipt = r] BY <1>2, <2>1, <2>2 DEF DeadlinePasses
  <2> QED BY <1>2, <2>1, <2>3, <2>4, ReceiptTouched DEF DeadlinePasses
<1>3. ASSUME LeaseEnds PROVE ClientInv'
  <2>1. PICK o \in ReceiptType : o = disk.receipt BY <1>1, <1>3, PendingIs, HereIs DEF LeaseEnds
  <2>2. PICK r : r = [o EXCEPT !.leaseOver = TRUE] OBVIOUS
  <2>3. /\ r \in ReceiptType /\ r.id = o.id /\ r.terminal = o.terminal /\ r.origin = o.origin /\ r.rb = o.rb
        /\ r.handoff = o.handoff /\ r.back = o.back /\ r.target = o.target /\ r.gen = o.gen /\ r.state = o.state
    BY <2>2 DEF ReceiptType
  <2>4. disk' = [disk EXCEPT !.receipt = r] BY <1>3, <2>1, <2>2 DEF LeaseEnds
  <2> QED BY <1>3, <2>1, <2>3, <2>4, ReceiptTouched DEF LeaseEnds
<1>4. ASSUME RetryDue PROVE ClientInv'
  <2>1. PICK o \in ReceiptType : o = disk.receipt BY <1>1, <1>4, PendingIs, HereIs DEF RetryDue
  <2>2. PICK r : r = [o EXCEPT !.retry = "due"] OBVIOUS
  <2>3. /\ r \in ReceiptType /\ r.id = o.id /\ r.terminal = o.terminal /\ r.origin = o.origin /\ r.rb = o.rb
        /\ r.handoff = o.handoff /\ r.back = o.back /\ r.target = o.target /\ r.gen = o.gen /\ r.state = o.state
    BY <2>2 DEF ReceiptType
  <2>4. disk' = [disk EXCEPT !.receipt = r] BY <1>4, <2>1, <2>2 DEF RetryDue
  <2> QED BY <1>4, <2>1, <2>3, <2>4, ReceiptTouched DEF RetryDue
<1> QED BY <1>2, <1>3, <1>4

\* An authorization's time ends.
LEMMA AuthTouched ==
    ASSUME ClientInv, disk.auth # NoAuth, disk' = [disk EXCEPT !.auth.over = TRUE], mem' = mem,
           world' \in WorldType, world'.ids = world.ids, world'.autoStarts = world.autoStarts,
           world'.platform = world.platform
    PROVE  ClientInv'
<1>1. Fine(Here) /\ disk \in DiskType /\ mem \in MemType /\ world.ids \in Nat BY HereReady, HereIs DEF Ready, StType
<1>2. world.platform # "desktop" BY DEF ClientInv
<1>3. PICK a \in AuthType : a = disk.auth BY <1>1 DEF DiskType
<1>4. PICK b : b = [a EXCEPT !.over = TRUE] OBVIOUS
<1>5. /\ b \in AuthType /\ b.state = a.state /\ b.gen = a.gen /\ b.receipt = a.receipt /\ b.version = a.version
  BY <1>4 DEF AuthType
<1>6. PICK e : e = [disk EXCEPT !.auth = b] OBVIOUS
<1>7. e \in DiskType /\ e.auth = b /\ e.receipt = disk.receipt /\ e.acc = disk.acc BY <1>1, <1>5, <1>6 DEF DiskType
<1>9. PICK su : su = [d |-> e, m |-> mem, n |-> world.ids] OBVIOUS
<1>10. su \in StType /\ su.d = e /\ su.m = mem /\ su.n = world.ids BY <1>1, <1>7, <1>9 DEF StType
<1>11. Now(su) BY <1>3, <1>4, <1>6, <1>10 DEF Now
<1> QED
  BY <1>1, <1>2, <1>3, <1>5, <1>7, <1>10, <1>11, HereIs, StepFine DEF Fine, Ready, NoPending, AuthFine, ClientInv,
    StartingOK, AuthType, NoAuth

\* The wait for the permission ends, or a policy does.
LEMMA ExpirySteps ==
    ASSUME ClientInv PROVE (AuthorizationEnds => ClientInv') /\ \A gen \in Nat : PolicyEnds(gen) => ClientInv'
<1>1. Ready(Here) /\ disk \in DiskType /\ world \in WorldType BY HereReady, HereIs DEF Ready, StType
<1>2. ASSUME AuthorizationEnds PROVE ClientInv' BY <1>2, <1>1, AuthTouched DEF AuthorizationEnds
<1>3. ASSUME NEW gen \in Nat, PolicyEnds(gen) PROVE ClientInv'
  <2>1. world.expired \in SUBSET Nat BY <1>1 DEF WorldType
  <2>2. PICK x \in SUBSET Nat : x = world.expired \cup {gen} BY <1>3, <2>1
  <2>3. world' = [world EXCEPT !.expired = x] /\ mem' = mem BY <1>3, <2>2 DEF PolicyEnds
  <2>4. /\ world' \in WorldType /\ world'.ids = world.ids /\ world'.autoStarts = world.autoStarts
        /\ world'.platform = world.platform BY <1>1, <2>3 DEF WorldType
  <2>5. CASE disk' = disk BY <2>3, <2>4, <2>5, HereIs, <1>1, GoesNowhere, StepGoes DEF Now, Stays, ClientInv
  <2>6. CASE disk.auth # NoAuth /\ disk' = [disk EXCEPT !.auth.over = TRUE] BY <2>3, <2>4, <2>6, AuthTouched
  <2> QED BY <1>3, <2>5, <2>6 DEF PolicyEnds
<1> QED BY <1>2, <1>3

\* Whatever the client does by itself.
LEMMA UpdaterSteps == ASSUME ClientInv, UpdaterStep PROVE ClientInv'
<1>1. CASE CheckForUpdates \/ NoManifestReply \/ CheckTimeout BY <1>1, CheckStep, ReplySteps
<1>2. CASE UserInstall \/ AutoInstall \/ DownloadFinished BY <1>2, InstallSteps, DownloadStep
<1>3. CASE LaunchInstaller \/ LaunchFails BY <1>3, LaunchStep, LaunchFailsStep
<1>4. CASE ApkPermissionNeeded \/ ApkAuthorize \/ ApkStartFails \/ ExpireApk BY <1>4, ApkSteps
<1>5. CASE ApkStart \/ ApkStarted \/ InstallerGivesUp BY <1>5, WorldSteps, ApkStartedStep
<1>6. CASE AuthorizationEnds \/ DeadlinePasses \/ LeaseEnds \/ RetryDue BY <1>6, ExpirySteps, ClockSteps
<1>7. CASE InstallerFinishes \/ Exit \/ Restart BY <1>7, EndSteps, RestartStep
<1>8. CASE QueuedRollback \/ ManualRollback BY <1>8, RollbackSteps
<1>9. CASE RetryTimer \/ HealthTimer \/ ConfirmPoll BY <1>9, TimerSteps
<1> QED BY <1>1, <1>2, <1>3, <1>4, <1>5, <1>6, <1>7, <1>8, <1>9 DEF UpdaterStep

\* A client just installed.
LEMMA ClientStarts == ClientInit => ClientInv
<1>1. SUFFICES ASSUME ClientInit PROVE ClientInv OBVIOUS
<1>2. PICK y \in PolicyType : y = NoPolicy BY DEF NoPolicy, PolicyType
<1>4. disk \in DiskType /\ disk.receipt = NoHealthReceipt /\ disk.auth = NoAuth BY <1>1, <1>2 DEF DiskType, ClientInit
<1>5. mem \in MemType /\ mem.at = "running" /\ MemOK(mem)
  <2>1. 0 \in Nat OBVIOUS
  <2> QED BY <1>1, <2>1, FreshMemory DEF ClientInit
<1>6. PICK platform \in Platforms :
        world = [platform |-> platform, version |-> FirstVersion, procs |-> {}, expired |-> {}, autoStarts |-> {},
                 ids |-> 0, checks |-> 0, crashes |-> 0] BY <1>1 DEF ClientInit
<1>8. world \in WorldType /\ world.autoStarts = {} /\ world.ids = 0 BY <1>6, ClientAssumption DEF WorldType
<1> QED
  BY <1>4, <1>5, <1>8, HereIs DEF ClientInv, StartsOK, ClientGood, ReceiptOK, AuthFine, Here, StType, LaunchOK,
    StartingOK

\* A step of others.
LEMMA ClientIdles == ASSUME ClientInv, disk' = disk, mem' = mem, world' = world PROVE ClientInv'
<1>1. Ready(Here) /\ world \in WorldType BY HereReady
<1> QED BY <1>1, GoesNowhere, HereIs, StepGoes DEF Now, Stays, ClientInv

-----------------------------------------------------------------------------
(* The channel and the client together.                                    *)

\* The two parts' invariants hold side by side: they meet in the manifest.
LEMMA DeliveryKeeps ==
    ASSUME ChannelInv, ClientInv, [Next]_vars
    PROVE  ChannelInv' /\ ClientInv'
<1>1. CASE PublisherStep /\ UNCHANGED clientVars BY <1>1, ChannelKeeps, ClientIdles DEF clientVars
<1>2. CASE ManifestArrives
  BY <1>2, ChannelKeeps, DeliveryAssumption, ReplySteps DEF ManifestArrives, ChannelInv, ServerOK, ChanType,
    Manifests, ManifestType
<1>3. CASE (UpdaterStep \/ SomePolicyEnds) /\ UNCHANGED channelVars
  BY <1>3, ChannelKeeps, HereReady, HereIs, ExpirySteps, UpdaterSteps DEF Ready, StType, DiskType, MemType,
    PolicyType, SelType, SomePolicyEnds
<1>4. CASE UNCHANGED vars BY <1>4, ChannelKeeps, ClientIdles DEF vars, clientVars
<1> QED BY <1>1, <1>2, <1>3, <1>4 DEF Next

\* However often the application crashes, is restarted or its timers fire, and
\* whatever is published meanwhile, an update that was never confirmed healthy
\* is rolled back by itself at most once: for any number of releases, receipts,
\* checks and crashes.
THEOREM RollsBackOnce == Spec => []AutomaticOnce
<1>1. Init => ChannelInv /\ ClientInv BY ChannelStarts, ClientStarts DEF Init
<1>2. ChannelInv /\ ClientInv /\ [Next]_vars => ChannelInv' /\ ClientInv' BY DeliveryKeeps
<1>3. ClientInv => AutomaticOnce BY DEF ClientInv, StartsOK, AutomaticOnce
<1> QED BY <1>1, <1>2, <1>3, PTL DEF Spec

\* What the record of a launch says of the processes of a step.
Launched ==
    \A p \in world'.procs \ world.procs :
        LET r == disk'.receipt  a == disk'.auth IN
        \/ p.kind = "update" /\ p.gen = 0
        \/ /\ p.kind = "update" /\ p.gen = disk'.acc.gen
           /\ \/ r # NoHealthReceipt /\ r.target = p.version /\ r.gen = p.gen /\ r.state = "pending"
              \/ a # NoAuth /\ a.state = "authorized" /\ a.version = p.version
                 /\ a.gen = p.gen /\ a.receipt.target = p.version
        \/ /\ p.kind = "rollback" /\ r # NoHealthReceipt
           /\ r.rb = "confirming" /\ r.handoff = p.lease /\ r.back = p.version

\* An installer of the desktop starts under its record.
LEMMA DesktopLaunched == ASSUME ClientInv, LaunchInstaller PROVE Launched
<1>1. Ready(Here) /\ mem \in MemType /\ disk \in DiskType /\ world \in WorldType
  BY HereReady, HereIs DEF Ready, StType
<1>2. mem.at = "launch" /\ world.platform = "desktop" BY DEF LaunchInstaller
<1>3. disk.auth = NoAuth /\ MemOK(mem) /\ Recorded(disk, mem) BY <1>2 DEF ClientInv, LaunchOK
<1>5. disk'.receipt = disk.receipt /\ disk'.acc = disk.acc
  BY <1>1, <1>2, <1>3, InstallStartedGoes, HereIs DEF LaunchInstaller, MemOK
<1>6. PICK q : q = Process(mem) OBVIOUS
<1>7. q.kind = mem.intent.kind /\ q.version = mem.sel.version /\ q.gen = mem.sel.gen /\ q.lease = mem.intent.lease
  BY <1>6 DEF Process
<1>9. SUFFICES ASSUME NEW p \in world'.procs \ world.procs
               PROVE  LET r == disk'.receipt  a == disk'.auth IN
                      \/ p.kind = "update" /\ p.gen = 0
                      \/ /\ p.kind = "update" /\ p.gen = disk'.acc.gen
                         /\ \/ r # NoHealthReceipt /\ r.target = p.version /\ r.gen = p.gen /\ r.state = "pending"
                            \/ a # NoAuth /\ a.state = "authorized" /\ a.version = p.version
                               /\ a.gen = p.gen /\ a.receipt.target = p.version
                      \/ /\ p.kind = "rollback" /\ r # NoHealthReceipt
                         /\ r.rb = "confirming" /\ r.handoff = p.lease /\ r.back = p.version BY DEF Launched
<1>10. p = q BY <1>1, <1>6, <1>9 DEF LaunchInstaller, WorldType
<1>11. CASE mem.rollback BY <1>3, <1>11, <1>5, <1>7, <1>10 DEF Recorded
<1>12. CASE ~mem.rollback BY <1>3, <1>12, <1>5, <1>7, <1>10 DEF Recorded
<1> QED BY <1>11, <1>12

\* So does Android's, under its authorization.
LEMMA AndroidLaunched == ASSUME ClientInv, ApkStart PROVE Launched
<1>1. Fine(Here) /\ disk \in DiskType /\ world \in WorldType BY HereReady, HereIs DEF Ready, StType
<1>2. mem.at = "starting" /\ disk' = disk BY DEF ApkStart
<1>3. /\ disk.auth # NoAuth /\ disk.auth.state = "authorized"
      /\ disk.auth.gen = 0 \/ disk.auth.gen = disk.acc.gen BY <1>2 DEF ClientInv, StartingOK
<1>7. PICK q : q = [kind |-> "update", version |-> disk.auth.version, gen |-> disk.auth.gen, lease |-> 0] OBVIOUS
<1> QED BY <1>1, <1>2, <1>3, <1>7, HereIs DEF Launched, Fine, AuthFine, AuthType, DiskType, ApkStart, WorldType

\* No other step starts one.
LEMMA OthersLaunchNone ==
    ASSUME ClientInv, [Next]_vars, ~LaunchInstaller, ~ApkStart PROVE world'.procs \subseteq world.procs
<1>1. world \in WorldType BY DEF ClientInv
<1>2. ASSUME NEW su, ClientBecomes(su) PROVE world'.procs = world.procs BY <1>1, <1>2 DEF ClientBecomes, WorldType
<1>3. CASE UNCHANGED clientVars BY <1>3 DEF clientVars
<1>4. CASE ManifestArrives BY <1>2, <1>4 DEF ManifestArrives, ManifestReply
<1>5. CASE SomePolicyEnds BY <1>5, <1>1 DEF SomePolicyEnds, PolicyEnds, WorldType
<1>6. CASE UpdaterStep
  <2>1. CASE CheckForUpdates BY <1>1, <2>1 DEF CheckForUpdates, WorldType
  <2>2. CASE NoManifestReply \/ CheckTimeout BY <1>2, <2>2 DEF NoManifestReply, CheckTimeout
  <2>3. CASE UserInstall \/ AutoInstall \/ DownloadFinished
    BY <1>2, <2>3 DEF UserInstall, AutoInstall, DownloadFinished
  <2>4. CASE LaunchFails \/ ApkPermissionNeeded \/ ApkAuthorize
    BY <1>2, <2>4 DEF LaunchFails, ApkPermissionNeeded, ApkAuthorize
  <2>5. CASE ApkStarted \/ ApkStartFails \/ ExpireApk BY <1>2, <2>5 DEF ApkStarted, ApkStartFails, ExpireApk
  <2>6. CASE AuthorizationEnds \/ DeadlinePasses \/ LeaseEnds \/ RetryDue
    BY <2>6 DEF AuthorizationEnds, DeadlinePasses, LeaseEnds, RetryDue
  <2>7. CASE InstallerFinishes BY <2>7, <1>1 DEF InstallerFinishes, WorldType
  <2>8. CASE InstallerGivesUp BY <2>8, <1>1 DEF InstallerGivesUp, WorldType
  <2>9. CASE QueuedRollback \/ ManualRollback BY <1>2, <2>9 DEF QueuedRollback, ManualRollback
  <2>10. CASE RetryTimer BY <1>2, <2>10 DEF RetryTimer
  <2>11. CASE HealthTimer BY <1>2, <2>11 DEF HealthTimer
  <2>12. CASE ConfirmPoll BY <1>2, <2>12 DEF ConfirmPoll
  <2>13. CASE Exit BY <1>1, <2>13 DEF Exit, WorldType
  <2>14. CASE Restart BY <1>2, <2>14 DEF Restart
  <2> QED
    BY <1>6, <2>1, <2>2, <2>3, <2>4, <2>5, <2>6, <2>7, <2>8, <2>9, <2>10, <2>11, <2>12, <2>13, <2>14 DEF UpdaterStep
<1> QED BY <1>3, <1>4, <1>5, <1>6 DEF Next, vars

\* Every step.
LEMMA StepLaunched == ASSUME ClientInv, [Next]_vars PROVE Launched
<1>1. CASE ~LaunchInstaller /\ ~ApkStart BY <1>1, OthersLaunchNone DEF Launched
<1> QED BY <1>1, DesktopLaunched, AndroidLaunched

\* From the publisher to the installer a release only takes steps that the state
\* before allows, for any number of publishers, releases, checks and crashes:
\* the manifest moves to a successor, or back under the publication that failed,
\* and the client starts an installer only for what a durable record names.
THEOREM ReleasesOrderly == Spec => ReleasesAreOrderly
<1>1. Init => ChannelInv /\ ClientInv BY ChannelStarts, ClientStarts DEF Init
<1>2. ChannelInv /\ ClientInv /\ [Next]_vars => ChannelInv' /\ ClientInv' BY DeliveryKeeps
<1>4. ChannelInv /\ [Next]_vars => Forward(chan, chan') BY StepForward DEF Next, vars, ManifestArrives
<1>5. ClientInv /\ [Next]_vars => Launched BY StepLaunched
<1>6. Forward(chan, chan') <=>
        (chan'.manifest # chan.manifest =>
            \/ chan'.manifest # Absent /\ ValidTransition(chan.manifest, chan'.manifest)
            \/ \E r \in Runs : /\ chan.runs[r].candidate = chan.manifest
                               /\ chan.runs[r].expected = chan'.manifest
                               /\ chan'.runs[r].phase \in {"rolling_back", "rolled_back"}) BY DEF Forward
<1> QED
  BY <1>1, <1>2, <1>4, <1>5, <1>6, PTL DEF Spec, ReleasesAreOrderly, ChannelMovesForward, LaunchIsRecorded, Launched
=============================================================================
