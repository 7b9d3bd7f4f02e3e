--------------------------- MODULE ClientMigration ---------------------------
(***************************************************************************)
(* The desktop client's migration of a server's profile: the journal that  *)
(* AwgMigrationController keeps in the servers repository, its requests to *)
(* the control service, the trial of a candidate connection, the swap of   *)
(* the stored profile, and the recovery that a proven teardown allows.     *)
(*                                                                         *)
(* Requests are asynchronous: an answer is applied only if no activation,  *)
(* cancellation or failure came after its request.  A journal write may    *)
(* fail.  The tunnel and its observations are external.                    *)
(***************************************************************************)
EXTENDS MigrationControl

CONSTANTS MaxActivations, \* bound: connections opened
          MaxFailures     \* bound: journal writes that fail, and process deaths

VARIABLES dj,    \* the journal on disk
          mj,    \* m_journal
          mem,   \* the controller's other members
          prof,  \* the stored profile: version of the user's settings, wire
          link   \* the tunnel, its teardown, the connection controller's counters

clientVars == <<dj, mj, mem, prof, link>>

NoOffer == [gen |-> 0, target |-> 0, challenge |-> 0, nonce |-> 0, grant |-> 0]
NoAuth == [gen |-> 0, target |-> 0, nonce |-> 0, grant |-> 0, src |-> [ver |-> 0, wire |-> NoWire]]
NoProfile == NoAuth.src
EmptyJournal == [state |-> "none", nonce |-> 0, src |-> NoProfile, fp |-> NoWire, grant |-> 0,
                 offer |-> NoOffer, highest |-> 0, staged |-> NoWire, receipt |-> NoReceipt,
                 cand |-> NoProfile, auth |-> NoAuth, token |-> 0]
NoRequest == [kind |-> "none", nonce |-> 0, grant |-> 0, receipt |-> NoReceipt]
NoMemory == [open |-> FALSE, token |-> 0, trial |-> FALSE, cancelled |-> FALSE,
             src |-> NoProfile, req |-> NoRequest]
NoTeardown == [token |-> 0, reconnect |-> FALSE]

ClientInit ==
    /\ dj = EmptyJournal /\ mj = EmptyJournal /\ mem = NoMemory
    /\ prof = [ver |-> 1, wire |-> NoWire]
    /\ link = [up |-> FALSE, wire |-> NoWire, token |-> 0, td |-> NoTeardown, opens |-> 0,
               failures |-> 0, nonces |-> 0,
               tries |-> [g \in 1 .. MaxGenerations |-> 0],
               cleanups |-> [g \in 1 .. MaxGenerations |-> 0]]

WireOf(o) == <<o.gen, o.target>>
OfferAlive(j) == GrantLive(j.grant)

\* writeMigrationJournal: the disk has the new journal, or the write fails
Stored(j) == dj' = j /\ UNCHANGED link
MayFail == link.failures < MaxFailures
Failed == UNCHANGED dj /\ MayFail /\ link' = [link EXCEPT !.failures = @ + 1]
\* persist(state): on failure memory keeps its other fields and the old state
Persist(j, state) == \/ mj' = [j EXCEPT !.state = state] /\ Stored([j EXCEPT !.state = state])
                     \/ mj' = j /\ Failed

-----------------------------------------------------------------------------
(* awgMigrationRecovery.h                                                  *)

\* createRecoveryAuthorization: for the attempt whose evidence is still there
CreateAuth(j) ==
    IF j.grant # 0 /\ j.nonce # 0 /\ j.src # NoProfile /\ j.offer # NoOffer
         /\ j.offer.gen = j.highest /\ WireOf(j.offer) = j.staged
    THEN [gen |-> j.offer.gen, target |-> j.offer.target, nonce |-> j.nonce,
          grant |-> j.grant, src |-> j.src]
    ELSE NoAuth

\* sameGenerationRecoveryAllowed: the same target once more, with new credentials
SameGenerationAllowed(j, o, cur) ==
    /\ j.auth # NoAuth /\ j.auth.src = cur /\ j.src = cur
    /\ j.auth.gen = j.highest /\ j.auth.gen = o.gen
    /\ <<j.auth.gen, j.auth.target>> = j.staged /\ WireOf(o) = j.staged
    /\ j.nonce # 0 /\ j.nonce = o.nonce /\ j.grant # 0
    /\ j.nonce # j.auth.nonce /\ j.grant # j.auth.grant

\* recoveryJournalAfterCleanup
AfterCleanup(j, token) ==
    [j EXCEPT !.token = token, !.auth = CreateAuth(j), !.grant = 0, !.nonce = 0,
              !.offer = NoOffer, !.receipt = NoReceipt, !.cand = NoProfile,
              !.state = "rolled_back"]

\* recoveryJournalForTrial: the watermark rises with the authorization's use
ForTrial(j) == [j EXCEPT !.highest = j.offer.gen, !.auth = NoAuth, !.state = "trial"]

-----------------------------------------------------------------------------
(* cancel, failed, cleanup.                                                *)

\* cancel: the call generation moves on, so the answer to an outstanding request
\* will be ignored: the request is dropped here.  A trial is rolled back in the journal
Cancelled(m) == [m EXCEPT !.cancelled = TRUE, !.req = NoRequest, !.trial = FALSE]
CancelJournal == IF mem.trial THEN Persist(mj, "rolled_back") ELSE UNCHANGED <<mj, dj, link>>

\* failed with reconnectLegacy: the trial is cancelled, its teardown requested
\* for the connection it ran in
TrialFails ==
    /\ mem.trial /\ ~mem.cancelled
    /\ mem' = Cancelled(mem)
    /\ \/ /\ mj' = [mj EXCEPT !.state = "rolled_back"]
          /\ dj' = [mj EXCEPT !.state = "rolled_back"]
          /\ link' = [link EXCEPT !.td = [token |-> mem.token, reconnect |-> TRUE]]
       \/ /\ MayFail /\ UNCHANGED <<mj, dj>>
          /\ link' = [link EXCEPT !.td = [token |-> mem.token, reconnect |-> TRUE],
                                  !.failures = @ + 1]
    /\ UNCHANGED <<controlVars, prof>>

\* closeConnection: a journal that holds an unproven cleanup asks for a receipt
CloseConnection ==
    /\ mem.open /\ link.up
    /\ mem' = Cancelled(mem)
    /\ \E fails \in BOOLEAN :
        /\ fails => mem.trial /\ MayFail
        /\ LET saved == mem.trial /\ ~fails
               j == [mj EXCEPT !.state = "rolled_back"]
               asks == (IF saved THEN "rolled_back" ELSE dj.state)
                         \in {"recovery_required", "rolled_back"}
               counted == [link EXCEPT !.failures = IF fails THEN @ + 1 ELSE @]
           IN /\ mj' = IF saved THEN j ELSE mj
              /\ dj' = IF saved THEN j ELSE dj
              /\ link' = IF asks
                         THEN [counted EXCEPT !.td = [token |-> mem.token, reconnect |-> FALSE]]
                         ELSE [counted EXCEPT !.up = FALSE, !.wire = NoWire, !.td = NoTeardown]
    /\ UNCHANGED <<controlVars, prof>>

\* cleanupFailed: no receipt in time, or one that confirms nothing
CleanupFailed ==
    /\ link.td # NoTeardown
    /\ mem' = Cancelled(mem)
    /\ mj' = [mj EXCEPT !.state = "recovery_required"]
    /\ dj' = [mj EXCEPT !.state = "recovery_required"]
    /\ \E still \in BOOLEAN :
          link' = [link EXCEPT !.td = NoTeardown, !.up = still /\ link.up,
                               !.wire = IF still THEN link.wire ELSE NoWire]
    /\ UNCHANGED <<controlVars, prof>>

\* cleanupCompleted: the receipt is for this activation and the profile is still
\* the source of the attempt
MayComplete(token) ==
    /\ token # 0 /\ token = mem.token /\ token # dj.token
    /\ dj.state \in {"recovery_required", "rolled_back"}
    /\ prof = dj.src /\ dj.cand # prof

\* the attempt a confirmed teardown proves gone
CleanedGeneration(j) == IF j.offer # NoOffer THEN {j.offer.gen} ELSE {}

\* activation of a connection to the stored profile or to a candidate
Activated(token, trial) ==
    [NoMemory EXCEPT !.open = TRUE, !.token = token, !.trial = trial,
                     !.src = prof]
Linked(l, token, wire) ==
    [l EXCEPT !.up = TRUE, !.token = token, !.td = NoTeardown, !.opens = token, !.wire = wire]

\* a confirmed teardown: the tunnel is gone.  After a failed trial the stored
\* profile is opened again, in the same handler
CleanupConfirmed ==
    /\ link.td # NoTeardown
    /\ LET complete == MayComplete(link.td.token)
           again == complete /\ link.td.reconnect
           counted == [link EXCEPT !.up = FALSE, !.wire = NoWire, !.td = NoTeardown,
                         !.cleanups = [g \in DOMAIN @ |->
                             @[g] + IF complete /\ g \in CleanedGeneration(dj) THEN 1 ELSE 0]]
       IN /\ IF complete
             THEN dj' = AfterCleanup(dj, link.td.token) /\ mj' = dj'
             ELSE UNCHANGED <<dj, mj>>
          /\ again => link.opens < MaxActivations
          /\ mem' = IF again THEN Activated(link.opens + 1, FALSE) ELSE mem
          /\ link' = IF again THEN Linked(counted, link.opens + 1, prof.wire) ELSE counted
    /\ UNCHANGED <<controlVars, prof>>

-----------------------------------------------------------------------------
(* prepare.                                                                *)

\* the journal prepare finds, after it cancelled what ran before
Found == IF mem.trial THEN [mj EXCEPT !.state = "rolled_back"] ELSE dj

\* committedProfileMatches
CommittedMatches(j) == j.cand # NoProfile /\ j.cand = prof

\* a staged offer over a profile whose settings changed, not its wire identity
Rebases(j) == j.state = "staged" /\ j.auth = NoAuth /\ j.src # prof /\ j.fp = prof.wire
Rebased(j) == IF Rebases(j) THEN [j EXCEPT !.src = prof] ELSE j

\* prepare's resolution of what an earlier process left
Resolved(j) ==
    CASE j.state = "committing" /\ CommittedMatches(j) -> [j EXCEPT !.state = "ack_pending"]
      [] j.state = "committing" /\ ~CommittedMatches(j) ->
            [j EXCEPT !.state = IF prof = j.src THEN "rolled_back" ELSE "recovery_required"]
      [] j.state = "trial" -> [j EXCEPT !.state = "rolled_back"]
      [] OTHER -> Rebased(j)

ClearedEvidence(j) == [j EXCEPT !.grant = 0, !.nonce = 0, !.offer = NoOffer,
                                !.receipt = NoReceipt, !.cand = NoProfile]

\* an offer prepare may try: staged for this profile, alive, newer than any
\* trial or authorized by a proven cleanup
Triable(j) ==
    /\ j.state = "staged" /\ j.src = prof /\ OfferAlive(j)
    /\ j.offer.gen > j.highest \/ SameGenerationAllowed(j, j.offer, prof)
Expires(j) == j.state = "staged" /\ j.src = prof /\ ~OfferAlive(j)

\* the journal with which the connection opens
Opened(j) ==
    IF Expires(Resolved(j)) THEN [ClearedEvidence(Resolved(j)) EXCEPT !.state = "expired"]
    ELSE IF Triable(Resolved(j)) THEN ForTrial(Resolved(j))
    ELSE Resolved(j)

\* openConnection: beginActivation, prepare and the request to open, with the
\* stored profile or the candidate; a journal write that fails prevents a trial
OpenConnection ==
    /\ link.opens < MaxActivations
    /\ \E fails \in BOOLEAN :
        /\ fails => MayFail /\ Opened(Found) # Found
        /\ LET token == link.opens + 1
               next == IF fails THEN Found ELSE Opened(Found)
               trial == ~fails /\ Triable(Resolved(Found))
               wire == IF trial THEN WireOf(next.offer) ELSE prof.wire
               counted == [link EXCEPT !.failures = IF fails THEN @ + 1 ELSE @]
           IN /\ mem' = Activated(token, trial)
              /\ dj' = next /\ mj' = next
              /\ link' = Linked(IF trial THEN [counted EXCEPT !.tries[next.offer.gen] = @ + 1]
                                ELSE counted, token, wire)
    /\ UNCHANGED <<controlVars, prof>>

-----------------------------------------------------------------------------
(* observe: what a native observation of this activation starts.           *)

Observed == link.up /\ mem.open /\ ~mem.cancelled /\ mem.token # 0 /\ link.token = mem.token
            /\ mem.req = NoRequest

\* a request of this call; it stores the journal before it is sent
Call(kind, j, nonce) == [kind |-> kind, nonce |-> nonce, grant |-> j.grant,
                         receipt |-> j.receipt]
Ask(kind, j, nonce) ==
    /\ mem' = [mem EXCEPT !.req = Call(kind, j, nonce)]
    /\ mj' = j /\ dj' = j

\* enrollOrFetch refuses these outright
Settled(j) == j.state \in {"staged", "committed", "recovery_required"}

\* an expired staged offer is given up first
Freshened(j) == IF j.state = "staged" /\ ~OfferAlive(j)
                THEN [ClearedEvidence(j) EXCEPT !.state = "expired"] ELSE j
\* an expired grant goes with its nonce
Regranted(j) == IF j.grant # 0 /\ ~GrantLive(j.grant)
                THEN [j EXCEPT !.grant = 0, !.nonce = 0, !.receipt = NoReceipt] ELSE j

\* no nonce yet: one is made and stored with the source it is for
Enrolling(j) == IF j.nonce = 0
                THEN [j EXCEPT !.nonce = link.nonces + 1, !.src = mem.src, !.fp = mem.src.wire,
                               !.state = "enrolling"]
                ELSE j

EnrollOrFetch ==
    /\ Observed /\ ~mem.trial
    /\ LET j == Enrolling(Regranted(Freshened(mj)))
       IN /\ mj.state # "ack_pending" /\ ~(mj.state = "committing" /\ CommittedMatches(mj))
          /\ ~Settled(Freshened(mj))
          /\ Ask(IF j.grant = 0 THEN "bootstrap" ELSE "offer", j, j.nonce)
          /\ link' = [link EXCEPT !.nonces = IF j.nonce > @ THEN j.nonce ELSE @]
    /\ UNCHANGED <<controlVars, prof>>

\* the trial's tunnel runs the candidate's parameters: prove it
AskChallenge ==
    /\ Observed /\ mem.trial /\ link.wire = WireOf(mj.offer) /\ mj.receipt = NoReceipt
    /\ Ask("challenge", mj, mj.offer.challenge)
    /\ UNCHANGED <<controlVars, prof, link>>

\* validChallengeReceipt
ValidReceipt(j) == j.receipt.challenge = j.offer.challenge /\ j.receipt.gen = j.offer.gen
                   /\ j.offer # NoOffer

\* what acknowledge sends: an expired grant is renewed first
AckCall(j) == Call(IF OfferAlive(j) THEN "ack" ELSE "renew", j, 0)

Candidate == [mem.src EXCEPT !.wire = WireOf(mj.offer)]
Committing == [mj EXCEPT !.cand = Candidate, !.state = "committing"]

\* traffic moved in both directions over the proved tunnel
MayCommit == /\ Observed /\ mem.trial /\ link.wire = WireOf(mj.offer)
             /\ mj.receipt # NoReceipt /\ ValidReceipt(mj) /\ ProofLive(mj.receipt.challenge)
             /\ prof = mj.src

\* the stored profile is swapped between two journal writes; the second may fail
CommitTrial ==
    /\ MayCommit
    /\ prof' = Candidate
    /\ LET done == [Committing EXCEPT !.state = "ack_pending"]
           settled == [mem EXCEPT !.trial = FALSE, !.src = Candidate]
       IN \/ mj' = done /\ Stored(done) /\ mem' = [settled EXCEPT !.req = AckCall(done)]
          \/ /\ MayFail /\ mj' = Committing /\ dj' = Committing /\ mem' = settled
             /\ link' = [link EXCEPT !.failures = @ + 1]
    /\ UNCHANGED controlVars

\* an acknowledgement on a later observation, also of a commit whose second
\* write was lost
AskAcknowledge ==
    /\ Observed /\ mj.cand = mem.src /\ CommittedMatches(mj)
    /\ mj.state \in {"ack_pending", "committing"}
    /\ link.wire = WireOf(mj.offer) /\ ValidReceipt(mj)
    /\ LET j == [mj EXCEPT !.state = "ack_pending"]
       IN mem' = [mem EXCEPT !.req = AckCall(j)] /\ mj' = j /\ dj' = j
    /\ UNCHANGED <<controlVars, prof, link>>

-----------------------------------------------------------------------------
(* The service's answers.                                                  *)

\* the answer to the outstanding request; it may also be lost
Answered(kind) == mem.req.kind = kind /\ ~mem.cancelled
Done == mem' = [mem EXCEPT !.req = NoRequest]

BootstrapAnswer ==
    /\ Answered("bootstrap")
    /\ Bootstrap(mem.req.nonce, mj.fp)
    /\ LET granted == [mj EXCEPT !.grant = Bootstrapped(mem.req.nonce, mj.fp),
                                 !.state = "enrolled"]
       IN \/ /\ mj' = granted /\ Stored(granted)
             /\ mem' = [mem EXCEPT !.req = Call("offer", granted, granted.nonce)]
          \/ mj' = [granted EXCEPT !.state = mj.state] /\ Failed /\ Done
    /\ UNCHANGED prof

\* the offer must be newer than the watermark, or the authorized one, and for a
\* profile that has not changed since
OfferAnswer ==
    /\ Answered("offer") /\ Offer(mem.req.grant, mj.fp)
    /\ LET o == OfferOf(mem.req.grant, mem.req.nonce)
           floor == IF mj.staged[1] > mj.highest + 1 THEN mj.staged[1] - 1 ELSE mj.highest
           good == /\ o.gen > floor \/ SameGenerationAllowed(mj, o, mem.src)
                   /\ mj.src = prof
                   /\ o.gen = mj.staged[1] => WireOf(o) = mj.staged
       IN IF good
          THEN \/ /\ mj' = [mj EXCEPT !.offer = o, !.staged = WireOf(o), !.receipt = NoReceipt,
                                     !.state = "staged"]
                  /\ Stored(mj')
               \/ UNCHANGED mj /\ Failed
          ELSE UNCHANGED <<mj, dj, link>>
    /\ Done /\ UNCHANGED prof

ChallengeAnswer ==
    /\ Answered("challenge") /\ mem.trial
    /\ Challenge(mem.req.grant, mem.req.nonce, link.wire)
    /\ Persist([mj EXCEPT !.receipt = [challenge |-> mj.offer.challenge, gen |-> mj.offer.gen]],
               "trial")
    /\ Done /\ UNCHANGED prof

RenewAnswer ==
    /\ Answered("renew") /\ Renew(mem.req.grant, mem.req.receipt, link.wire)
    /\ LET renewed == [mj EXCEPT !.grant = Fresh]
       IN \/ /\ mj' = renewed /\ Stored(renewed)
             /\ mem' = [mem EXCEPT !.req = Call("ack", renewed, 0)]
          \/ UNCHANGED mj /\ Failed /\ Done
    /\ UNCHANGED prof

AckAnswer ==
    /\ Answered("ack") /\ Ack(mem.req.grant, mem.req.receipt, link.wire)
    /\ Persist(mj, "committed")
    /\ Done /\ UNCHANGED prof

\* the service ran the request, the answer came too late or not at all
LateAnswer ==
    /\ mem.req # NoRequest /\ link.up
    /\ \/ mem.req.kind = "bootstrap" /\ Bootstrap(mem.req.nonce, mj.fp)
       \/ mem.req.kind = "challenge" /\ Challenge(mem.req.grant, mem.req.nonce, link.wire)
       \/ mem.req.kind = "ack" /\ Ack(mem.req.grant, mem.req.receipt, link.wire)
       \/ mem.req.kind = "renew" /\ Renew(mem.req.grant, mem.req.receipt, link.wire)
       \/ UNCHANGED controlVars
    /\ Done /\ UNCHANGED <<dj, mj, prof, link>>

-----------------------------------------------------------------------------
(* The user and the process.                                               *)

\* serverEdited: settings of the profile change under the controller
EditProfile ==
    /\ prof.ver < 2 /\ prof' = [prof EXCEPT !.ver = @ + 1]
    /\ IF mem.open /\ mem.src # NoProfile
       THEN CancelJournal /\ mem' = Cancelled(mem)
       ELSE UNCHANGED <<mem, mj, dj, link>>
    /\ UNCHANGED controlVars

\* the process dies and starts again; its tunnel is gone
ClientRestarts ==
    /\ MayFail /\ mem.open
    /\ mem' = NoMemory
    /\ mj' = EmptyJournal
    /\ link' = [link EXCEPT !.up = FALSE, !.wire = NoWire, !.td = NoTeardown, !.failures = @ + 1]
    /\ UNCHANGED <<controlVars, dj, prof>>

\* it dies inside a commit: before the swap of the stored profile or after it
DiesCommitting ==
    /\ MayCommit /\ MayFail
    /\ dj' = Committing /\ prof' \in {prof, Candidate}
    /\ mem' = NoMemory /\ mj' = EmptyJournal
    /\ link' = [link EXCEPT !.up = FALSE, !.wire = NoWire, !.td = NoTeardown, !.failures = @ + 1]
    /\ UNCHANGED controlVars

ClientStep ==
    \/ TrialFails \/ CloseConnection \/ CleanupFailed \/ CleanupConfirmed
    \/ OpenConnection \/ EnrollOrFetch \/ AskChallenge \/ CommitTrial \/ AskAcknowledge
    \/ BootstrapAnswer \/ OfferAnswer \/ ChallengeAnswer \/ RenewAnswer \/ AckAnswer \/ LateAnswer
    \/ EditProfile \/ ClientRestarts \/ DiesCommitting
=============================================================================
