--------------------------- MODULE MigrationControl ---------------------------
(***************************************************************************)
(* The server's migration control service: the state a prepared target     *)
(* container publishes (ready.json) and the grants it has issued           *)
(* (grants.sqlite3).  One peer is modelled.  Every request is one database *)
(* transaction, so it is one step here; whether the request and its answer *)
(* arrive is the caller's choice.                                          *)
(*                                                                         *)
(* Time is the expiry of grants and of the ready state, at any moment.  A  *)
(* renewed grant keeps the challenge, and so the proof, of the first one.  *)
(***************************************************************************)
EXTENDS Naturals, FiniteSets

CONSTANTS MaxGenerations, \* bound: generations the server prepares
          MaxGrants,      \* bound: grants issued
          LiveGrants      \* grants a peer may hold at one time

VARIABLES ready,  \* ready.json: generation, target, not expired
          grants  \* the rows issued so far

controlVars == <<ready, grants>>

Targets == 1 .. 2
NoWire == <<0, 0>>
Published == <<ready.gen, ready.target>>

\* a signed challenge receipt, by the challenge it answers
NoReceipt == [challenge |-> 0, gen |-> 0]

ControlInit == ready = [gen |-> 1, target |-> 1, live |-> TRUE] /\ grants = {}

Row(g) == CHOOSE r \in grants : r.id = g
Issued(g) == \E r \in grants : r.id = g
GrantLive(g) == \E r \in grants : r.id = g /\ r.live
\* proofExpires of the challenge: the expiry of the grant that introduced it
ProofLive(c) == \E r \in grants : r.id = c /\ r.live
LiveCount == Cardinality({r \in grants : r.live})
Fresh == Cardinality(grants) + 1

\* the receipt the service signs for a row
ReceiptOf(r) == [challenge |-> r.challenge, gen |-> r.gen]

Update(g, row) == grants' = (grants \ {Row(g)}) \cup {row}

-----------------------------------------------------------------------------
(* The requests.  Each is enabled when the service answers 200.            *)

\* bootstrap: the row of this nonce when there is one, a new one otherwise.
\* Expired rows that proved nothing are dropped; as they are refused
\* everywhere they stay in `grants` here, dead
SameBootstrap(n, fp) ==
    {r \in grants : r.nonce = n /\ r.fp = fp /\ r.gen = ready.gen /\ (r.live \/ r.proved)}
Bootstrap(n, fp) ==
    /\ ready.live
    /\ IF SameBootstrap(n, fp) # {}
       THEN (\A r \in SameBootstrap(n, fp) : ~r.proved /\ r.live) /\ UNCHANGED grants
       ELSE /\ LiveCount < LiveGrants /\ Fresh <= MaxGrants
            /\ grants' = grants \cup
                 {[id |-> Fresh, nonce |-> n, fp |-> fp, gen |-> ready.gen, live |-> TRUE,
                   challenge |-> Fresh, proved |-> FALSE, shown |-> NoWire, ack |-> FALSE]}
    /\ UNCHANGED ready
\* the grant a successful bootstrap answers with
Bootstrapped(n, fp) == IF SameBootstrap(n, fp) # {}
                       THEN (CHOOSE r \in SameBootstrap(n, fp) : TRUE).id ELSE Fresh

\* a row that answers requests: of the published generation, not expired
Answers(g) == Issued(g) /\ Row(g).gen = ready.gen /\ Row(g).live /\ ready.live

Offer(g, fp) == Answers(g) /\ Row(g).fp = fp /\ UNCHANGED controlVars
OfferOf(g, n) == [gen |-> ready.gen, target |-> ready.target, challenge |-> Row(g).challenge,
                  nonce |-> n, grant |-> g]

\* challenge: answered to a peer that has just shaken hands with the target
Challenge(g, challenge, wire) ==
    /\ Answers(g) /\ Row(g).challenge = challenge /\ wire = Published
    /\ Update(g, [Row(g) EXCEPT !.proved = TRUE, !.shown = wire])
    /\ UNCHANGED ready

\* ack, also of an expired ready state
Ack(g, receipt, wire) ==
    /\ Issued(g) /\ Row(g).gen = ready.gen /\ Row(g).live /\ wire = Published
    /\ Row(g).proved /\ receipt = ReceiptOf(Row(g))
    /\ Update(g, [Row(g) EXCEPT !.ack = TRUE])
    /\ UNCHANGED ready

\* renew: a proved grant, expired or not, gets a successor
Renew(g, receipt, wire) ==
    /\ Issued(g) /\ Row(g).gen = ready.gen /\ wire = Published
    /\ Row(g).proved /\ receipt = ReceiptOf(Row(g))
    /\ LiveCount < LiveGrants /\ Fresh <= MaxGrants
    /\ grants' = grants \cup {[Row(g) EXCEPT !.id = Fresh, !.nonce = 0, !.live = TRUE,
                                             !.ack = FALSE]}
    /\ UNCHANGED ready

-----------------------------------------------------------------------------
(* Time, and what the administrator prepares.                              *)

GrantExpires ==
    /\ \E r \in grants : r.live /\ grants' = (grants \ {r}) \cup {[r EXCEPT !.live = FALSE]}
    /\ UNCHANGED ready

\* a grant never outlives the ready state, a renewed one may
ReadyExpires ==
    /\ ready.live
    /\ ready' = [ready EXCEPT !.live = FALSE]
    /\ grants' = {IF r.id = r.challenge THEN [r EXCEPT !.live = FALSE] ELSE r : r \in grants}

\* a new generation, or the same one prepared again with another target
GenerationPrepared ==
    /\ \/ ready.gen < MaxGenerations
          /\ ready' = [gen |-> ready.gen + 1, target |-> 1, live |-> TRUE]
       \/ ready.target = 1 /\ ready' = [ready EXCEPT !.target = 2, !.live = TRUE]
    /\ UNCHANGED grants

ControlStep == GrantExpires \/ ReadyExpires \/ GenerationPrepared
=============================================================================
