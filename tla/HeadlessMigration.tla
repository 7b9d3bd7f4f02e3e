-------------------------- MODULE HeadlessMigration --------------------------
(***************************************************************************)
(* The headless daemon's migration of a profile to the target the server   *)
(* offers: AwgMigrationManager's journal and files, and the daemon's       *)
(* managed connection that tries the candidate, verifies it, commits it or *)
(* goes back to the administrator's own configuration.                     *)
(*                                                                         *)
(* A crash may come between any two steps; each step ends in at most one   *)
(* durable write.  The native commands are external.                       *)
(***************************************************************************)
EXTENDS MigrationControl

CONSTANTS MaxEdits,   \* bound: edits of the configuration by the administrator
          MaxRestarts \* bound: restarts of the daemon

VARIABLES hj,   \* journal.json
          hfile,\* the candidate file beside it
          hsrc, \* the administrator's configuration (its version)
          hd    \* the daemon: where the connection stands

headlessVars == <<hj, hfile, hsrc, hd>>

NoJournal == [phase |-> "none", prev |-> "none", src |-> 0, wire |-> NoWire, cand |-> <<0, NoWire>>,
              challenge |-> 0, highest |-> 0, staged |-> NoWire, grant |-> 0,
              receipt |-> NoReceipt, ack |-> FALSE]

HeadlessInit ==
    /\ hj = NoJournal /\ hfile = <<0, NoWire>> /\ hsrc = 1
    /\ hd = [at |-> "idle", wire |-> NoWire, up |-> FALSE, edits |-> 0, restarts |-> 0,
             nonce |-> 1, tries |-> [g \in 1 .. MaxGenerations |-> 0]]

To(at) == hd' = [hd EXCEPT !.at = at]
\* writeState: the new journal, or a write that fails and ends the operation
WriteState(j, at, failed) == \/ hj' = j /\ To(at)
                             \/ UNCHANGED hj /\ To(failed)

-----------------------------------------------------------------------------
(* candidate and retireStaged.                                             *)

\* the offer of a journal is as good as its grant
Expired(j) == j.phase = "staged" /\ ~GrantLive(j.grant)
Retired(j) == [j EXCEPT !.phase = "expired", !.wire = NoWire, !.grant = 0, !.challenge = 0,
                        !.cand = <<0, NoWire>>]

\* candidate: the staged or committed file, for the source it was made from
CandidateUsable ==
    /\ hj.phase \in {"staged", "committed"}
    /\ hsrc = hj.src /\ hfile = hj.cand /\ ~Expired(hj)
\* what candidate does to a journal it refuses
MustRetire == hj.phase = "staged" /\ (hsrc # hj.src \/ (hfile = hj.cand /\ Expired(hj)))

-----------------------------------------------------------------------------
(* connectManagedProfile.                                                  *)

\* begin raises the generation watermark with the trial's first write
Begun == [hj EXCEPT !.prev = hj.phase, !.phase = "trying",
                    !.highest = IF hj.wire[1] > @ THEN hj.wire[1] ELSE @]

\* the candidate is chosen and its trial journalled, or the source is connected
HeadlessConnect ==
    /\ hd.at = "idle"
    /\ IF CandidateUsable
       THEN \/ hj' = Begun
               /\ hd' = [hd EXCEPT !.at = "connect",
                           !.tries[hj.wire[1]] = IF hj.phase = "staged" THEN @ + 1 ELSE @]
            \/ UNCHANGED <<hj, hd>>
       ELSE /\ hj' \in {hj, IF MustRetire THEN Retired(hj) ELSE hj}
            /\ To("legacy")
    /\ UNCHANGED <<controlVars, hfile, hsrc>>

\* connectMigrationCandidate, which reads the source once more, and the routes:
\* both up, the routes refused, failed and clean, or native state left behind
HeadlessTry ==
    /\ hd.at = "connect"
    /\ \/ /\ hsrc = hj.src
          /\ \E at \in {"verify", "retire"} :
                hd' = [hd EXCEPT !.at = at, !.up = TRUE, !.wire = hj.wire]
       \/ To("abandon")
       \/ To("recovery")
    /\ UNCHANGED <<controlVars, hj, hfile, hsrc>>

\* a client that takes a connected tunnel for a verified one
HeadlessVerifyTrusting ==
    /\ hd.at = "verify"
    /\ To("commit") /\ UNCHANGED <<controlVars, hj, hfile, hsrc>>

\* verify: a profile committed before only checks its parameters; a first trial
\* has the server answer its challenge, and the answer must arrive
HeadlessVerify ==
    /\ hd.at = "verify"
    /\ IF hj.prev = "committed"
       THEN To("commit") /\ UNCHANGED <<controlVars, hj>>
       ELSE \/ /\ Challenge(hj.grant, hj.challenge, hd.wire)
               /\ ProofLive(hj.challenge)
               /\ WriteState([hj EXCEPT !.receipt = [challenge |-> hj.challenge, gen |-> hj.wire[1]]],
                             "commit", "retire")
            \/ Challenge(hj.grant, hj.challenge, hd.wire) /\ To("retire") /\ UNCHANGED hj
            \/ To("retire") /\ UNCHANGED <<controlVars, hj>>
    /\ UNCHANGED <<hfile, hsrc>>

\* commit, unless the source changed under the trial
HeadlessCommit ==
    /\ hd.at = "commit"
    /\ IF hsrc = hj.src
       THEN WriteState([hj EXCEPT !.phase = "committed", !.ack = @ \/ hj.prev # "committed"],
                       "connected", "retire")
       ELSE To("retire") /\ UNCHANGED hj
    /\ UNCHANGED <<controlVars, hfile, hsrc>>

\* the failed candidate's routes and interface are retired, or recovery is due
HeadlessRetire ==
    /\ hd.at = "retire"
    /\ \/ hd' = [hd EXCEPT !.at = "abandon", !.up = FALSE, !.wire = NoWire]
       \/ To("recovery")
    /\ UNCHANGED <<controlVars, hj, hfile, hsrc>>

HeadlessAbandon ==
    /\ hd.at = "abandon"
    /\ WriteState([hj EXCEPT !.phase = "rolled_back"], "legacy", "recovery")
    /\ UNCHANGED <<controlVars, hfile, hsrc>>

\* the administrator's configuration is connected; failing that after a trial
\* needs recovery
HeadlessLegacy ==
    /\ hd.at = "legacy"
    /\ \/ hd' = [hd EXCEPT !.at = "connected", !.up = TRUE, !.wire = NoWire]
       \/ To(IF hj.phase = "rolled_back" THEN "recovery" ELSE "idle")
    /\ UNCHANGED <<controlVars, hj, hfile, hsrc>>

HeadlessDisconnect ==
    /\ hd.at = "connected"
    /\ hd' = [hd EXCEPT !.at = "idle", !.up = FALSE, !.wire = NoWire]
    /\ UNCHANGED <<controlVars, hj, hfile, hsrc>>

-----------------------------------------------------------------------------
(* checkAwgMigration: enroll and acknowledge on the connected tunnel.      *)

\* a committed candidate is acknowledged through its own tunnel; an answer that
\* is lost leaves the acknowledgement pending
HeadlessAck ==
    /\ hd.at = "connected" /\ hj.phase = "committed" /\ hj.ack /\ hd.wire = hj.wire
    /\ GrantLive(hj.grant)
    /\ \/ Ack(hj.grant, hj.receipt, hd.wire) /\ hj' = [hj EXCEPT !.ack = FALSE]
       \/ Ack(hj.grant, hj.receipt, hd.wire) /\ UNCHANGED hj
    /\ UNCHANGED <<hfile, hsrc, hd>>

\* an expired grant is renewed first; the renewal is saved before it is used
HeadlessRenew ==
    /\ hd.at = "connected" /\ hj.phase = "committed" /\ hj.ack /\ hd.wire = hj.wire
    /\ ~GrantLive(hj.grant) /\ Renew(hj.grant, hj.receipt, hd.wire)
    /\ \/ hj' = [hj EXCEPT !.grant = Fresh]
       \/ UNCHANGED hj
    /\ UNCHANGED <<hfile, hsrc, hd>>

\* enroll: a source of the profile's own, no usable candidate staged already
EnrollStarts == hd.at = "connected" /\ hd.wire = NoWire /\ hj.phase # "committed" /\ ~CandidateUsable
Previous == IF hj.phase = "staged" THEN Retired(hj) ELSE hj

\* validateRefreshedOffer: newer than any trial, and the staged generation only
\* with the target staged before
OfferAllowed(j) ==
    /\ ready.gen > j.highest /\ ready.gen > j.staged[1] - 1
    /\ ready.gen = j.staged[1] => Published = j.staged

\* bootstrap and offer with a new nonce; the candidate file is written.  The
\* service may refuse, or an answer be lost
HeadlessEnroll ==
    /\ EnrollStarts
    /\ hj' = Previous
    /\ \/ /\ Bootstrap(hd.nonce, hsrc) /\ OfferAllowed(Previous)
          /\ hd' = [hd EXCEPT !.nonce = @ + 1, !.at = "stage"]
          /\ hfile' = <<hsrc, Published>>
       \/ /\ Bootstrap(hd.nonce, hsrc)
          /\ hd' = [hd EXCEPT !.nonce = @ + 1] /\ UNCHANGED hfile
       \/ UNCHANGED <<controlVars, hfile, hd>>
    /\ UNCHANGED hsrc

\* the journal is written last: only then can the candidate be selected
HeadlessStage ==
    /\ hd.at = "stage"
    /\ LET g == CHOOSE r \in grants : r.nonce = hd.nonce - 1
       IN WriteState([NoJournal EXCEPT !.phase = "staged", !.src = hfile[1], !.wire = hfile[2],
                        !.cand = hfile, !.challenge = g.challenge, !.grant = g.id,
                        !.highest = hj.highest, !.staged = hfile[2]],
                     "connected", "connected")
    /\ UNCHANGED <<controlVars, hfile, hsrc>>

-----------------------------------------------------------------------------
(* The administrator, crashes and load.                                    *)

HeadlessEdit ==
    /\ hd.edits < MaxEdits
    /\ hsrc' = hsrc + 1 /\ hd' = [hd EXCEPT !.edits = @ + 1]
    /\ UNCHANGED <<controlVars, hj, hfile>>

\* the daemon restarts at any point; load ends an interrupted trial
HeadlessRestart ==
    /\ hd.restarts < MaxRestarts
    /\ hd' = [hd EXCEPT !.at = "idle", !.up = FALSE, !.wire = NoWire, !.restarts = @ + 1]
    /\ hj' = IF hj.phase = "trying"
             THEN [hj EXCEPT !.phase = IF hj.prev = "committed" THEN "committed" ELSE "rolled_back"]
             ELSE hj
    /\ UNCHANGED <<controlVars, hfile, hsrc>>

HeadlessStep ==
    \/ HeadlessConnect \/ HeadlessTry \/ HeadlessVerify \/ HeadlessCommit \/ HeadlessRetire
    \/ HeadlessAbandon \/ HeadlessLegacy \/ HeadlessDisconnect \/ HeadlessAck \/ HeadlessRenew
    \/ HeadlessEnroll \/ HeadlessStage \/ HeadlessEdit \/ HeadlessRestart
=============================================================================
