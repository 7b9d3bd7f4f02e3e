--------------------------- MODULE WindowsFirewall ---------------------------
(***************************************************************************)
(* The Windows kill switch: the persistent provider-owned WFP filters, the *)
(* WindowsFirewall object that tracks them, and the KillSwitch policy with *)
(* its strict flag in the registry.  Every operation is one WFP            *)
(* transaction; a commit or an abort that fails leaves an unknown outcome  *)
(* and makes the object reload what the engine really holds.  The filters  *)
(* outlive the service.                                                    *)
(***************************************************************************)
EXTENDS Naturals

CONSTANTS
    Peers,    \* public keys of AWG servers
    Bypass,   \* destinations that may be reached outside the tunnel
    MaxFaults \* bound: OS calls that fail in a behaviour

ASSUME WindowsFirewallAssumption == "none" \notin Peers /\ MaxFaults \in Nat

VARIABLES
    wfp,      \* filters live in the engine, of this provider
    strict,   \* strictKillSwitchEnabled in the registry
    fw,       \* WindowsFirewall of the running service
    faults,   \* OS calls that failed
    promise   \* history: a session protected by the kill switch; a strict mode given up

policyVars == <<wfp, strict, fw, promise>>
firewallVars == <<policyVars, faults>>

OpenVpn == "openvpn"
Rule(kind, of) == <<kind, of>>
Dhcp == Rule("permit DHCP", "all")
HyperV == Rule("permit Hyper-V", "all")
ServiceApp == Rule("permit the service", "all")
DnsBlock == Rule("block DNS", "all")
Loopback == Rule("permit loopback", "all")
Base == {Dhcp, HyperV, ServiceApp, DnsBlock, Loopback}
Strict == Rule("strict", "all")
Fence == Rule("fence", "all")
Adapter == Rule("adapter", "all")

\* Filters of a peer generation: its block of the tunnelled ranges and a
\* permit for every excluded address.
PeerRules(peer, excluded) == {Rule("block", peer)} \cup {Rule("permit", <<peer, d>>) : d \in excluded}
RulesOf(peer, live) == live \cap PeerRules(peer, Bypass)

\* A destination no rule permits is blocked on the physical adapters.
BlockedOutside(live) == Strict \in live \/ Fence \in live \/ \E peer \in Peers \cup {OpenVpn} : Rule("block", peer) \in live
Permits(live, peer) == {d \in Bypass : Rule("permit", <<peer, d>>) \in live}

Tracking(rules, luid) == [session |-> TRUE, known |-> TRUE, rules |-> rules, orphans |-> {}, luid |-> luid]

\* loadProviderFilters: whatever is live belongs to nobody yet.
Orphaned(live) == [Tracking({}, FALSE) EXCEPT !.orphans = live]

\* reloadProviderState: the engine may not open again, or not enumerate.
Reloaded(live) ==
    {Orphaned(live),
     [Orphaned({}) EXCEPT !.known = FALSE],
     [Orphaned({}) EXCEPT !.known = FALSE, !.session = FALSE]}

FirewallInit ==
    /\ wfp = {} /\ strict = FALSE /\ faults = 0
    /\ fw = Tracking({}, FALSE)
    /\ promise = [session |-> FALSE, waived |-> FALSE]

\* The answer of an OS call or of an operation made of them.
Answer(ok) == IF ok THEN UNCHANGED faults ELSE faults < MaxFaults /\ faults' = faults + 1

Refused(ok) == ~ok /\ UNCHANGED <<wfp, fw, faults>>
Done(ok) == ok /\ UNCHANGED <<wfp, fw, faults>>

\* One transaction that would leave the filters `new`: it may fail before the
\* commit and be aborted, or fail in the commit with either outcome.
Transaction(new, after, ok) ==
    IF ~fw.session THEN Refused(ok)
    ELSE /\ Answer(ok)
         /\ \/ ~ok /\ UNCHANGED <<wfp, fw>>
            \/ ~ok /\ wfp' \in {wfp, new} /\ fw' \in Reloaded(wfp')
            \/ ok /\ wfp' = new /\ fw' = after

\* The same for an update that keeps the rest of the generation
\* (verifyTrackedProviderGeneration).
Increment(removed, added, ok) ==
    IF wfp = fw.rules
    THEN LET new == (wfp \ removed) \cup added IN Transaction(new, [fw EXCEPT !.rules = new], ok)
    ELSE ~ok /\ fw' \in {fw, [fw EXCEPT !.known = FALSE]} /\ UNCHANGED <<wfp, faults>>

Reconciled == fw.known /\ fw.orphans = {}

(***************************** WindowsFirewall ****************************)

\* isStrictKillSwitchEnabled: a registry that cannot be read means strict.
StrictRead == {strict, TRUE}

EnableInterfaceUnfenced(adapter, ok) ==
    \E isStrict \in IF adapter THEN StrictRead ELSE {TRUE} :
        LET new == Base \cup (IF isStrict THEN {Strict} ELSE {}) \cup (IF adapter THEN {Adapter} ELSE {})
        IN Transaction(new, Tracking(new, adapter), ok)

\* enableInterface: the whole generation is replaced; without strict mode a
\* block-all fence stands until the peer's rules replace it.
EnableInterface(adapter, ok) ==
    \E isStrict \in IF adapter THEN StrictRead ELSE {TRUE} :
        LET new == Base \cup (IF isStrict THEN {Strict} ELSE {Fence}) \cup (IF adapter THEN {Adapter} ELSE {})
        IN Transaction(new, Tracking(new, adapter), ok)

EnablePeerTraffic(peer, excluded, ok) ==
    IF Reconciled /\ fw.luid
    THEN Increment(RulesOf(peer, wfp) \cup {Fence}, PeerRules(peer, excluded), ok) ELSE Refused(ok)

DisablePeerTraffic(peer, ok) ==
    IF ~Reconciled THEN Refused(ok)
    ELSE IF RulesOf(peer, fw.rules) = {} THEN Done(ok)
    ELSE Increment(RulesOf(peer, wfp), {}, ok)

AllowAllTraffic(ok) == Transaction({}, Tracking({}, FALSE), ok)

(***************************** KillSwitch *********************************)

\* The strict promise starts anew with every generation that blocks everything.
Renewed(p, ok) == [p EXCEPT !.waived = @ /\ ~ok]

\* disableAllTraffic
BlockEverything(ok) ==
    /\ EnableInterface(FALSE, ok)
    /\ promise' = Renewed(promise, ok)
    /\ UNCHANGED strict

\* disableKillSwitch, and init at the start of the service: strict mode falls
\* back to blocking everything.
ReleaseKillSwitch(ok) ==
    \E isStrict \in StrictRead :
        /\ IF isStrict THEN EnableInterface(FALSE, ok) ELSE AllowAllTraffic(ok)
        /\ promise' = Renewed([promise EXCEPT !.session = FALSE], isStrict /\ ok)
        /\ UNCHANGED strict

Refreshed(enabled) == IF enabled THEN Base \cup {Strict} ELSE {}

\* refresh: the policy first, then the registry; when the registry cannot be
\* written the old policy is put back by a second transaction, which may fail.
Refresh(enabled) ==
    LET new == Refreshed(enabled)
        old == Refreshed(strict) IN
    /\ \/ Transaction(new, Tracking(new, FALSE), FALSE) /\ UNCHANGED strict
       \/ Transaction(new, Tracking(new, FALSE), TRUE) /\ strict' = enabled
       \/ /\ Answer(FALSE) /\ fw.session /\ UNCHANGED strict
          /\ \/ wfp' \in {new, old} /\ fw' = Tracking(wfp', FALSE)
             \/ wfp' \in {new, old} /\ fw' \in Reloaded(wfp')
    /\ promise' = [session |-> promise.session /\ enabled,
                   waived |-> IF enabled THEN promise.waived /\ wfp' # new ELSE TRUE]

\* removePersistentPolicy, run by the uninstaller beside the service.
RemovePersistentPolicy ==
    /\ wfp # {}
    /\ wfp' = {}
    /\ promise' = [session |-> FALSE, waived |-> TRUE]
    /\ UNCHANGED <<strict, fw, faults>>

\* A new process: nothing is tracked, what is live is an orphan (create); the
\* session's filters are still there.
FirewallRestarts ==
    /\ fw' = Orphaned(wfp)
    /\ UNCHANGED <<wfp, strict, promise, faults>>
=============================================================================
