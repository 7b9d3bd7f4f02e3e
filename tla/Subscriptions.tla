----------------------------- MODULE Subscriptions -----------------------------
(***************************************************************************)
(* Paid and free services of the gateway: StorePurchaseController,         *)
(* SubscriptionController and SubscriptionUiController over                *)
(* GatewayController, on a phone with the App Store or with Google Play.   *)
(*                                                                         *)
(* Everything runs on one thread, and every request waits in an event loop *)
(* of its own: the flows are a stack of which only the last one moves.     *)
(* While the gateway is asked user input is held back, but what the store  *)
(* signals and what a connection validates is not; while the store or a    *)
(* worker thread is waited for, the user may start anything.               *)
(***************************************************************************)
EXTENDS Naturals, FiniteSets

CONSTANTS Purchases,    \* transactions, or purchase tokens, of the store
          NoPurchase,
          VpnKeyOf,     \* purchase -> the vpn_key of the subscription it pays for
          NoKey,        \* an entry without the vpn_key of a purchase: of the free
                        \* service or of a trial (what prepareVpnKeyExport may write
                        \* onto one is derived from that entry alone)
          MaxProxies,   \* bound: proxies a storage lists
          MaxEntries,   \* bound: entries ever made
          MaxNested,    \* bound: flows inside each other
          MaxFlows,     \* bound: flows
          MaxLaunches,  \* bound: starts of the application
          MaxSetbacks   \* bound: failures

ASSUME SubscriptionsAssumption ==
    /\ NoPurchase \notin Purchases
    /\ \A t \in Purchases : VpnKeyOf[t] # NoKey
    /\ MaxProxies \in Nat /\ MaxEntries \in Nat /\ MaxNested \in Nat \ {0}
    /\ MaxFlows \in Nat /\ MaxLaunches \in Nat /\ MaxSetbacks \in Nat

VARIABLES
    market,    \* "appstore" or "play"
    sold,      \* the store's view of a purchase
    listed,    \* the API entries of the server list
    depth,     \* how many flows there are
    flow,      \* 1 .. depth: the flows, the last one moves
    updates,   \* m_pendingStoreUpdates, as a set: their order does not matter
    busy,      \* m_storeUpdateInProgress
    handled,   \* m_handledStoreUpdateTransactionIds
    due,       \* the check for unacknowledged purchases is scheduled
    captcha,   \* m_captchaState
    cached,    \* proxies in the settings
    past,      \* history: keys once listed, entries once removed
    used       \* bounds: entries, flows, launches, setbacks

subscriptionVars == <<market, sold, listed, depth, flow, updates, busy, handled, due, captcha, cached, past, used>>

Levels == 1 .. MaxNested
VpnKeys == {VpnKeyOf[t] : t \in Purchases}

\* An ApiV2 entry: whether it has a configuration, and whether the gateway has
\* said that it expired.
Entry(id, key, installed) == [id |-> id, key |-> key, installed |-> installed, expired |-> FALSE]
NoEntry == Entry(0, NoKey, FALSE)

Request(stage, left, ssl) == [stage |-> stage, left |-> left, ssl |-> ssl]
FreshRequest == Request("direct", 0, FALSE)

\* found: the entry as it was read before the request; acked: what the store
\* said was acknowledged when it was asked.
Flow(op, at) ==
    [op |-> op, at |-> at, todo |-> {}, acked |-> {}, t |-> NoPurchase, found |-> NoEntry, req |-> FreshRequest]
NoFlow == Flow("none", "none")

NoCaptcha == [pending |-> FALSE, kind |-> "none", id |-> 0]

SubscriptionsInit ==
    /\ market \in {"appstore", "play"}
    /\ sold = [t \in Purchases |-> "none"] /\ listed = {}
    /\ depth = 0 /\ flow = [l \in Levels |-> NoFlow]
    /\ updates = {} /\ busy = FALSE /\ handled = {} /\ due = (market = "play")
    /\ captcha = NoCaptcha /\ cached = 0
    /\ past = [keys |-> {}, removed |-> {}]
    /\ used = [entries |-> 0, flows |-> 0, launches |-> 1, setbacks |-> 0]

-----------------------------------------------------------------------------
(* The stack of flows.                                                     *)

Top == IF depth = 0 THEN NoFlow ELSE flow[depth]
Waits(at) == depth > 0 /\ Top.at = at
FlowBecomes(f) == flow' = [flow EXCEPT ![depth] = f] /\ UNCHANGED depth
FlowEnds == flow' = [flow EXCEPT ![depth] = NoFlow] /\ depth' = depth - 1

Push(f) ==
    /\ depth < MaxNested /\ used.flows < MaxFlows
    /\ flow' = [flow EXCEPT ![depth + 1] = f] /\ depth' = depth + 1
    /\ used' = [used EXCEPT !.flows = @ + 1]

\* QEventLoop::exec() without ExcludeUserInputEvents.
OpenLoops == {"store", "query", "acknowledge"}
UserMayAct == Top.at \in OpenLoops \cup {"none"}

Smooth == UNCHANGED used
Setback == used.setbacks < MaxSetbacks /\ used' = [used EXCEPT !.setbacks = @ + 1]

-----------------------------------------------------------------------------
(* GatewayController::post().  A controller lives for one request.         *)

\* What the gateway can decide; "failed" is everything else that is final.
Answers == {"ok", "captcha", "expired", "absent"}

\* shouldBypassProxy: no decision was recognised, the request is sent again
\* elsewhere.  A TLS error of the gateway itself ends the request.
LastAttempt(q) == q.stage = "proxies" /\ q.left = 1

Answered ==
    \/ Top.req.stage = "direct"
    \/ Top.req.stage = "proxies" /\ (~Top.req.ssl \/ LastAttempt(Top.req))

RequestEnds(r) ==
    \/ r \in Answers /\ Answered /\ Smooth
    \/ r = "failed" /\ Setback /\ (Top.req.stage = "direct" \/ LastAttempt(Top.req))
    \/ r = "failed" /\ Smooth /\ Top.req.stage = "listed" /\ Top.req.left = 0

Resends(q) ==
    /\ FlowBecomes([Top EXCEPT !.req = q])
    /\ UNCHANGED <<market, sold, listed, updates, busy, handled, due, captcha, past>>

Requests == {"select", "info", "import", "config", "service", "revoke", "solve", "again"}
Asking(stage) == depth > 0 /\ Top.at \in Requests /\ Top.req.stage = stage

\* getProxyUrls: a storage that answers replaces the cached list, and when
\* none does the cached one is used.
getProxyUrls ==
    /\ Asking("direct") /\ Setback
    /\ \E n \in 0 .. MaxProxies :
         /\ \/ cached' = n
            \/ n = cached /\ UNCHANGED cached
         /\ Resends(Request("listed", n, FALSE))

\* bypassProxy: the first proxy that is healthy is tried before all of them.
bypassProxy ==
    /\ Asking("listed") /\ Top.req.left > 0
    /\ \E more \in {0, 1} : Resends(Request("proxies", Top.req.left + more, FALSE))
    /\ Smooth /\ UNCHANGED cached

\* An answer that follows a proxy with a TLS error is not looked at.
TryNextProxy ==
    /\ Asking("proxies") /\ Top.req.left > 1
    /\ \/ Setback /\ \E ssl \in BOOLEAN : Resends(Request("proxies", Top.req.left - 1, ssl))
       \/ Top.req.ssl /\ Smooth /\ Resends(Request("proxies", Top.req.left - 1, FALSE))
    /\ UNCHANGED cached

-----------------------------------------------------------------------------
(* The server list.                                                        *)

Ids == {e.id : e \in listed}
EntryOf(id) == CHOOSE e \in listed : e.id = id

\* SecureServersRepository::addServer
Added(key, installed) ==
    /\ listed' = listed \cup {Entry(used.entries + 1, key, installed)}
    /\ past' = [past EXCEPT !.keys = @ \cup {key}]
    /\ used.entries < MaxEntries /\ used' = [used EXCEPT !.entries = @ + 1]

\* As below, without looking whether the entry is still there.
EditedBlindly(e) == {x \in listed : x.id # e.id} \cup {e}

\* SecureServersRepository::editServer
Edited(e) == IF e.id \in Ids THEN {x \in listed : x.id # e.id} \cup {e} ELSE listed

\* SecureServersRepository::removeServer
Removed(id) == {x \in listed : x.id # id}

-----------------------------------------------------------------------------
(* The stores.                                                             *)

ListUnchanged == UNCHANGED <<listed, past>>
QueueUnchanged == UNCHANGED <<updates, busy, handled>>

\* A flow over several purchases takes the next one, or ends.  Only Google
\* Play is first asked, through the gateway, what kind of purchase it is.
First(f, t) == [f EXCEPT !.at = IF market = "play" THEN "info" ELSE "import",
                         !.t = t, !.todo = @ \ {t}, !.req = FreshRequest]
Continues(f) ==
    IF f.todo = {} THEN FlowEnds ELSE \E t \in f.todo : FlowBecomes(First(f, t))

\* importPremiumFromStore: the store is asked first.
Purchase(t) ==
    /\ UserMayAct /\ sold[t] = "none"
    /\ Push([Flow("purchase", "store") EXCEPT !.t = t])
    /\ UNCHANGED <<market, sold, due, captcha, cached>> /\ ListUnchanged /\ QueueUnchanged

\* The store has sold it, has declined, or waits for somebody's approval.
StoreAnswers ==
    /\ Waits("store")
    /\ \/ sold' = [sold EXCEPT ![Top.t] = "paid"] /\ FlowBecomes(First(Top, Top.t)) /\ Smooth
       \/ sold' = [sold EXCEPT ![Top.t] = "pending"] /\ FlowEnds /\ Smooth
       \/ FlowEnds /\ Setback /\ UNCHANGED sold
    /\ UNCHANGED <<market, due, captcha, cached>> /\ ListUnchanged /\ QueueUnchanged

\* Outside the application: a pending purchase is paid.
PaymentConfirmed(t) ==
    /\ sold[t] = "pending" /\ sold' = [sold EXCEPT ![t] = "paid"]
    /\ UNCHANGED <<market, depth, flow, due, captcha, cached, used>> /\ ListUnchanged /\ QueueUnchanged

\* getSubscriptionInfo
InfoEnds ==
    /\ Waits("info")
    /\ \E r \in Answers \cup {"failed"} :
         /\ RequestEnds(r)
         /\ IF r = "ok" THEN FlowBecomes([Top EXCEPT !.at = "import", !.req = FreshRequest]) ELSE Continues(Top)
    /\ UNCHANGED <<market, sold, due, captcha, cached>> /\ ListUnchanged /\ QueueUnchanged

\* A purchase is confirmed to the store when the gateway has validated it.
MayFinish(added, already) == added \/ already

\* importServiceFromMarket: the list is searched for the key once the gateway
\* has answered, and nothing is waited for until the entry is added.
alreadyAdded(t) == \E e \in listed : e.key = VpnKeyOf[t]

\* processAppStorePurchase and processAppStoreTransactionUpdate finish the
\* transaction, a restore does not; finalizePlayPurchase acknowledges it in an
\* event loop, unless the store said it was acknowledged.
Confirms(added, already) ==
    LET f == Top
        finish == MayFinish(added, already)
        next == IF market = "play" /\ finish /\ f.t \notin f.acked
                THEN FlowBecomes([f EXCEPT !.at = "acknowledge"]) ELSE Continues(f) IN
    /\ IF market = "appstore" /\ finish /\ f.op \in {"purchase", "signal"}
       THEN sold' = [sold EXCEPT ![f.t] = "finished"] ELSE UNCHANGED sold
    /\ IF f.op = "signal"
       THEN FlowBecomes([f EXCEPT !.at = "queue"]) /\ handled' = (IF finish THEN handled \cup {f.t} ELSE handled)
       ELSE next /\ UNCHANGED handled

ImportEnds ==
    /\ Waits("import")
    /\ \/ RequestEnds("ok") /\ alreadyAdded(Top.t) /\ Confirms(FALSE, TRUE) /\ ListUnchanged
       \/ Answered /\ ~alreadyAdded(Top.t) /\ Added(VpnKeyOf[Top.t], FALSE) /\ Confirms(TRUE, FALSE)
       \/ \E r \in (Answers \ {"ok"}) \cup {"failed"} :
            RequestEnds(r) /\ Confirms(FALSE, FALSE) /\ ListUnchanged
       \/ Setback /\ Confirms(FALSE, FALSE) /\ ListUnchanged   \* a key that cannot be used
    /\ UNCHANGED <<market, updates, busy, due, captcha, cached>>

\* acknowledgePlayPurchase: a failure is only logged.
AcknowledgeEnds ==
    /\ Waits("acknowledge")
    /\ \/ sold' = [sold EXCEPT ![Top.t] = "finished"] /\ Smooth
       \/ Setback /\ UNCHANGED sold
    /\ Continues(Top)
    /\ UNCHANGED <<market, due, captcha, cached>> /\ ListUnchanged /\ QueueUnchanged

\* onStoreTransactionUpdated: a paid transaction that is not finished.  A
\* signal during another one is queued for the loop that handles that one.
StoreSignals(t) ==
    /\ market = "appstore" /\ sold[t] = "paid" /\ t \notin updates
    /\ updates' = updates \cup {t}
    /\ \/ busy /\ UNCHANGED <<depth, flow, used, busy>>
       \/ ~busy /\ busy' = TRUE /\ Push(Flow("signal", "queue"))
    /\ UNCHANGED <<market, sold, handled, due, captcha, cached>> /\ ListUnchanged

\* processStoreTransactionUpdate
NextUpdate ==
    /\ Waits("queue")
    /\ \/ /\ updates = {} /\ busy' = FALSE /\ FlowEnds /\ UNCHANGED updates
       \/ \E t \in updates :
            /\ updates' = updates \ {t} /\ UNCHANGED busy
            /\ IF t \in handled THEN UNCHANGED <<flow, depth>>
               ELSE FlowBecomes([Flow("signal", "select") EXCEPT !.t = t])
    /\ UNCHANGED <<market, sold, handled, due, captcha, cached, used>> /\ ListUnchanged

\* checkUnacknowledgedPlayPurchases, once per launch
CheckUnacknowledged ==
    /\ due /\ due' = FALSE /\ Push(Flow("unacked", "query"))
    /\ UNCHANGED <<market, sold, captcha, cached>> /\ ListUnchanged /\ QueueUnchanged

\* restoreServiceFromStore
Restore ==
    /\ UserMayAct /\ Push(Flow("restore", "select"))
    /\ UNCHANGED <<market, sold, due, captcha, cached>> /\ ListUnchanged /\ QueueUnchanged

\* selectPremiumServiceQuietly asks for the catalogue.
SelectEnds ==
    /\ Waits("select")
    /\ \E r \in Answers \cup {"failed"} :
         /\ RequestEnds(r)
         /\ CASE r = "ok" /\ Top.op = "restore" -> FlowBecomes([Top EXCEPT !.at = "query"])
              [] r = "ok" /\ Top.op = "unacked" -> Continues(Top)
              [] r = "ok" /\ Top.op = "signal" -> FlowBecomes(First(Top, Top.t))
              [] r # "ok" /\ Top.op = "signal" -> FlowBecomes(Flow("signal", "queue"))
              [] r # "ok" /\ Top.op # "signal" -> FlowEnds
    /\ UNCHANGED <<market, sold, due, captcha, cached>> /\ ListUnchanged /\ QueueUnchanged

\* queryPurchases, restorePurchases
QueryEnds ==
    /\ Waits("query")
    /\ LET paid == {t \in Purchases : sold[t] \in {"paid", "finished"}}
           f == [Top EXCEPT !.acked = {t \in Purchases : sold[t] = "finished"}] IN
       \/ Setback /\ FlowEnds
       \/ /\ Smooth
          /\ IF Top.op = "restore" THEN Continues([f EXCEPT !.todo = paid])
             ELSE IF paid \ f.acked = {} THEN FlowEnds
             ELSE FlowBecomes([Top EXCEPT !.at = "select", !.todo = paid \ f.acked, !.req = FreshRequest])
    /\ UNCHANGED <<market, sold, due, captcha, cached>> /\ ListUnchanged /\ QueueUnchanged

-----------------------------------------------------------------------------
(* Subscriptions that are there.                                           *)

StoreUnchanged == UNCHANGED <<market, sold, due, updates, busy, handled, cached>>

Asks(op, at, e) == Push([Flow(op, at) EXCEPT !.found = e])

\* updateServiceFromGateway, by the user, or by validateConfig when a connection
\* is prepared: for an entry without a configuration, or whose API key expired.
UpdateService(e) ==
    /\ Asks("refresh", "config", e)
    /\ UNCHANGED captcha /\ ListUnchanged /\ StoreUnchanged

\* applyUpdatedServiceConfig reads the entry again and keeps its key.
applyUpdatedServiceConfig(id) ==
    IF id \in Ids
    THEN Edited([EntryOf(id) EXCEPT !.installed = TRUE, !.expired = FALSE])
    ELSE listed

\* markSubscriptionExpiredByServer writes what was read before the request.
\* What was bought in the application is not marked: the configuration that
\* the gateway delivered for a purchase says whether it was (isInAppPurchase).
MarkedExpired(e) == {Edited([e EXCEPT !.expired = TRUE])} \cup (IF e.key = NoKey THEN {} ELSE {listed})

ConfigEnds ==
    /\ Waits("config")
    /\ \E r \in Answers \cup {"failed"} :
         /\ RequestEnds(r)
         /\ listed' \in CASE r = "ok" -> {applyUpdatedServiceConfig(Top.found.id)}
                          [] r = "expired" -> MarkedExpired(Top.found)
                          [] OTHER -> {listed}
         /\ captcha' = IF r = "captcha" THEN [pending |-> TRUE, kind |-> "update", id |-> Top.found.id]
                       ELSE captcha
    /\ FlowEnds /\ UNCHANGED past /\ StoreUnchanged

\* importFreeFromGateway (refused for the country, service and protocol of a
\* listed entry) and importTrialFromGateway
ImportService ==
    /\ UserMayAct
    /\ \E op \in {"free", "trial"} : Asks(op, "service", NoEntry)
    /\ UNCHANGED captcha /\ ListUnchanged /\ StoreUnchanged

ServiceEnds ==
    /\ Waits("service")
    /\ \/ Answered /\ Added(NoKey, TRUE) /\ UNCHANGED captcha
       \/ \E r \in (Answers \ {"ok"}) \cup {"failed"} :
            /\ RequestEnds(r) /\ ListUnchanged
            /\ captcha' = IF r = "captcha" /\ Top.op = "free"
                          THEN [pending |-> TRUE, kind |-> "import", id |-> 0] ELSE captcha
    /\ FlowEnds /\ StoreUnchanged

\* deactivateDevice and deactivateExternalDevice write back what was read
\* before the request, without the configuration; so does removeServer before
\* it takes the entry off the list, whatever the gateway has said.  A trial is
\* revoked like a purchase.
Revoke(op, e) ==
    /\ UserMayAct /\ Asks(op, "revoke", e)
    /\ UNCHANGED captcha /\ ListUnchanged /\ StoreUnchanged

RevokeEnds ==
    /\ Waits("revoke")
    /\ \E r \in Answers \cup {"failed"} :
         /\ RequestEnds(r)
         /\ IF Top.op = "remove"
            THEN listed' = Removed(Top.found.id) /\ past' = [past EXCEPT !.removed = @ \cup {Top.found.id}]
            ELSE /\ listed' = IF r \in {"ok", "absent"} THEN Edited([Top.found EXCEPT !.installed = FALSE])
                              ELSE listed
                 /\ UNCHANGED past
    /\ FlowEnds /\ UNCHANGED captcha /\ StoreUnchanged

\* removeServer of an entry of the free service, which asks nobody.
RemoveFree(e) ==
    /\ UserMayAct /\ e.key = NoKey
    /\ listed' = Removed(e.id) /\ past' = [past EXCEPT !.removed = @ \cup {e.id}]
    /\ UNCHANGED <<depth, flow, captcha, used>> /\ StoreUnchanged

\* removeApiConfig
RemoveConfig(e) ==
    /\ UserMayAct /\ e.installed
    /\ listed' = Edited([e EXCEPT !.installed = FALSE])
    /\ UNCHANGED <<depth, flow, captcha, past, used>> /\ StoreUnchanged

\* onCaptchaSolved and onRefreshCaptchaRequested.  The entry may be gone since
\* the captcha was asked for: then nothing is sent.
CaptchaEntry == IF captcha.id \in Ids THEN EntryOf(captcha.id) ELSE NoEntry

AnswerCaptcha(at) ==
    /\ UserMayAct /\ captcha.pending
    /\ \/ /\ captcha.kind = "update" /\ captcha.id \notin Ids
          /\ captcha' = [captcha EXCEPT !.pending = FALSE]
          /\ UNCHANGED <<depth, flow, used>>
       \/ /\ captcha.kind = "import" \/ captcha.id \in Ids
          /\ Asks(captcha.kind, at, CaptchaEntry) /\ UNCHANGED captcha
    /\ ListUnchanged /\ StoreUnchanged

\* A refresh that is answered with a configuration leaves the captcha pending
\* when it is about an import.
Settled(r) ==
    CASE r = "captcha" -> captcha
      [] r = "ok" /\ Top.at = "again" /\ Top.op = "import" -> captcha
      [] OTHER -> [captcha EXCEPT !.pending = FALSE]

CaptchaEnds ==
    /\ Waits("solve") \/ Waits("again")
    /\ \/ /\ Top.op = "import" /\ Answered /\ Added(NoKey, TRUE) /\ captcha' = Settled("ok")
       \/ \E r \in Answers \cup {"failed"} :
            /\ Top.op = "import" => r # "ok"
            /\ RequestEnds(r) /\ captcha' = Settled(r) /\ UNCHANGED past
            /\ listed' \in CASE Top.op = "update" /\ r = "ok" -> {applyUpdatedServiceConfig(Top.found.id)}
                             [] Top.op = "update" /\ r = "expired" -> MarkedExpired(Top.found)
                             [] OTHER -> {listed}
    /\ FlowEnds /\ StoreUnchanged

-----------------------------------------------------------------------------

\* The application ends, at any time, and is started again.  The list was
\* written whenever a flow waits; that every write succeeds is assumed.
Relaunch ==
    /\ used.launches < MaxLaunches /\ used' = [used EXCEPT !.launches = @ + 1]
    /\ depth' = 0 /\ flow' = [l \in Levels |-> NoFlow]
    /\ updates' = {} /\ busy' = FALSE /\ handled' = {} /\ captcha' = NoCaptcha
    /\ due' = (market = "play")
    /\ UNCHANGED <<market, sold, cached>> /\ ListUnchanged

SubscriptionStep ==
    \/ getProxyUrls \/ bypassProxy \/ TryNextProxy
    \/ \E t \in Purchases : Purchase(t) \/ PaymentConfirmed(t) \/ StoreSignals(t)
    \/ StoreAnswers \/ InfoEnds \/ ImportEnds \/ AcknowledgeEnds \/ NextUpdate
    \/ CheckUnacknowledged \/ Restore \/ SelectEnds \/ QueryEnds
    \/ \E e \in listed : \/ UpdateService(e) \/ RemoveFree(e) \/ RemoveConfig(e)
                        \/ Revoke("deactivate", e) \/ Revoke("remove", e)
    \/ ConfigEnds \/ ImportService \/ ServiceEnds \/ RevokeEnds
    \/ AnswerCaptcha("solve") \/ AnswerCaptcha("again") \/ CaptchaEnds
    \/ Relaunch

SubscriptionSpec == SubscriptionsInit /\ [][SubscriptionStep]_subscriptionVars

-----------------------------------------------------------------------------
(* Properties.                                                             *)

Entries == [id : Nat, key : VpnKeys \cup {NoKey}, installed : BOOLEAN, expired : BOOLEAN]
Flows == [op : {"none", "purchase", "signal", "update", "unacked", "restore", "refresh", "free", "trial",
               "deactivate", "remove", "import"},
          at : {"none", "queue"} \cup OpenLoops \cup Requests,
          todo : SUBSET Purchases, acked : SUBSET Purchases, t : Purchases \cup {NoPurchase},
          found : Entries, req : [stage : {"direct", "listed", "proxies"}, left : Nat, ssl : BOOLEAN]]

SubscriptionsTypeOK ==
    /\ market \in {"appstore", "play"}
    /\ sold \in [Purchases -> {"none", "pending", "paid", "finished"}]
    /\ listed \in SUBSET Entries
    /\ depth \in 0 .. MaxNested /\ flow \in [Levels -> Flows]
    /\ updates \in SUBSET Purchases /\ handled \in SUBSET Purchases
    /\ busy \in BOOLEAN /\ due \in BOOLEAN /\ cached \in Nat
    /\ captcha \in [pending : BOOLEAN, kind : {"none", "update", "import"}, id : Nat]
    /\ past \in [keys : SUBSET (VpnKeys \cup {NoKey}), removed : SUBSET Nat]
    /\ used \in [entries : Nat, flows : Nat, launches : Nat, setbacks : Nat]

\* The store is told that a purchase was delivered only when its subscription
\* has been put on the list: until then a crash, a refusal or an unreachable
\* gateway leaves it to be offered again.
PaidIsDelivered == \A t \in Purchases : sold[t] = "finished" => VpnKeyOf[t] \in past.keys

\* However often a purchase is offered, restored and signalled, in flows inside
\* each other and over restarts, its subscription is listed once.
OneEntryPerKey ==
    \A a, b \in listed : (a.key = b.key /\ a.key # NoKey) \/ a.id = b.id => a = b

\* An entry that was removed does not come back with a request that was under
\* way: answers are written over entries that were read before them.
RemovedStaysRemoved == \A e \in listed : e.id \notin past.removed

\* What the store flows and the subscription flows promise together.
PurchasesAreKept == PaidIsDelivered /\ OneEntryPerKey /\ RemovedStaysRemoved
=============================================================================
