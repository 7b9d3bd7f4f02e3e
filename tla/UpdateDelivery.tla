--------------------------- MODULE UpdateDelivery ---------------------------
(***************************************************************************)
(* The update channel and a client of it together: administrators publish  *)
(* releases, fail and roll publications back, while the client checks,     *)
(* accepts a policy generation, installs, confirms or rolls back.  The     *)
(* client sees the channel only through the manifest it is served.         *)
(***************************************************************************)
EXTENDS UpdateChannel, ClientUpdater, TLC

ASSUME DeliveryAssumption ==
    Releases \subseteq [gen : Nat, payload : Nat, version : Nat, content : Nat, rollback : Nat,
                       auto : BOOLEAN]

vars == <<channelVars, clientVars>>

\* the reply carries the manifest the channel serves when it is read
ManifestArrives ==
    /\ chan.manifest # Absent
    /\ \E eligible \in BOOLEAN : ManifestReply(chan.manifest, eligible)
    /\ UNCHANGED channelVars

\* only the policies the client holds matter to it
SomePolicyEnds == \E gen \in {disk.acc.gen, mem.sel.gen} : PolicyEnds(gen)

Init == ChannelInit /\ ClientInit

Next ==
    \/ PublisherStep /\ UNCHANGED clientVars
    \/ ManifestArrives
    \/ (UpdaterStep \/ SomePolicyEnds) /\ UNCHANGED channelVars

Spec == Init /\ [][Next]_vars

\* From the publisher to the installer a release only ever takes a step that
\* the state before it allows: the channel's manifest moves to a successor, or
\* back under the publication that failed, and a client starts an installer
\* only for what a durable record names.
ReleasesAreOrderly == ChannelMovesForward /\ LaunchIsRecorded

-----------------------------------------------------------------------------
(* The instance that is checked: two publishers over three competing        *)
(* releases with lost answers, or one fault-free publication at a time seen *)
(* by a client that crashes.                                                *)

Release(gen, payload, version, rollback, auto) ==
    [gen |-> gen, payload |-> payload, version |-> version, content |-> payload,
     rollback |-> rollback, auto |-> auto]

MCReleases == {Release(1, 1, 2, 1, TRUE), Release(2, 2, 3, 2, FALSE),
               Release(2, 3, 3, 2, FALSE)}

\* only publishers: no client
ServerSide ==
    /\ ChannelInit
    /\ mem = [Memory(0) EXCEPT !.at = "absent"]
    /\ disk = [acc |-> NoPolicy, receipt |-> NoHealthReceipt, last |-> "none",
               marker |-> 0, auth |-> NoAuth]
    /\ world = [platform |-> "none", version |-> FirstVersion, procs |-> {},
                expired |-> {}, autoStarts |-> {}, ids |-> 0, checks |-> 0,
                crashes |-> MaxCrashes]

\* the client, with a release published and one more run without lost answers
ClientSide ==
    /\ ClientInit
    /\ \E rel \in {Release(1, 1, 2, 1, TRUE)} :
          /\ chan = [manifest |-> rel,
                     runs |-> [r \in Runs |-> IF r = 1 THEN [phase |-> "finalized",
                                   expected |-> Absent, candidate |-> rel] ELSE NoRun]]
    /\ \E only \in Publishers :
          pub = [p \in Publishers |-> [Idle EXCEPT !.succeeded = p # only]]
    /\ late = {}
    /\ net = [runs |-> MaxRuns - 1, lost |-> MaxLost]

MCInit == ServerSide \/ ClientSide

\* one policy ends, and only a desktop client checks again, with fewer receipts
SmallClient ==
    /\ Cardinality(world.expired) <= 1
    /\ world.checks = MaxChecks => world.platform = "desktop" /\ world.ids < MaxIds

\* a publisher's steps commute with all of the client's but its reading of the
\* manifest, so beside a client they are taken during its checks only, and two
\* payloads for one generation meet on the server side only
MCNext ==
    \/ mem.at = "absent" /\ PublisherStep /\ UNCHANGED clientVars
    \/ /\ mem.at # "absent" /\ mem.checking /\ PublisherStep
       /\ \A p \in Publishers : pub'[p].release # Release(2, 3, 3, 2, FALSE)
       /\ UNCHANGED clientVars
    \/ ManifestArrives
    \/ (UpdaterStep \/ SomePolicyEnds) /\ SmallClient' /\ UNCHANGED channelVars

PublisherSymmetry == Permutations(Publishers)

MCSpec == MCInit /\ [][MCNext]_vars
=============================================================================
