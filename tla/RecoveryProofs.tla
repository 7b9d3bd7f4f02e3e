---------------------------- MODULE RecoveryProofs ----------------------------
(***************************************************************************)
(* What survives a failed change of configuration, for every instance:     *)
(* the headless backend answers for its tunnels, whatever the profiles,    *)
(* their protocols and the failures (TunnelOwnership); and a rollback of   *)
(* the headless installation that is reported as held is finished and      *)
(* stays quiet until it is resumed, whatever restarts, crashes and         *)
(* requests come in between (RollbackHolds).                               *)
(***************************************************************************)
EXTENDS VpnBackend, RollbackCoordinator, TLAPS

\* A session names a profile, and only AmneziaWG runs embedded.
SessionShape ==
    own # NoSession =>
        own.id \in Tunnels /\ (own.embedded => ProtocolOf[own.id] = "amneziawg")

\* What a call of connect() knows at each of its steps: the session it is about
\* to make or has made, and that nothing is reported any more.
Connecting == call.op \in {"connect", "migrate", "embed"}
CallShape ==
    /\ Connecting => call.id \in Tunnels
    /\ call.op \in {"migrate", "embed"} => ProtocolOf[call.id] = "amneziawg"
    /\ call.at \in {"stage", "launch"} =>
         Connecting /\ own = NoSession /\ reported = NoTunnel
    /\ call.at = "launch" /\ call.dir # 0 => call.dir \in staged
    /\ call.at \in {"checks", "stage"} => call.dir = 0
    /\ call.at \in {"grace", "ready"} =>
         /\ Connecting /\ own.id = call.id /\ ~own.embedded
         /\ reported = NoTunnel
    /\ call.at = "grace" => ProtocolOf[call.id] = "xray"
    /\ call.at \in {"start", "clean"} =>
         Connecting /\ own.id = call.id /\ own.embedded /\ reported = NoTunnel
    /\ call.at = "forget" =>
         /\ call.op = "disconnect" /\ own # NoSession /\ ~own.embedded
         /\ ~Exists(own.id) /\ child[own.id] = "none"
    /\ call.op = "none" => call = NoCall
    /\ call.at = "none" => call.op = "none"

\* A daemon that does not run knows nothing.
StoppedShape ==
    ~running => own = NoSession /\ call = NoCall /\ reported = NoTunnel

\* The interface of OpenVPN belongs to a process that runs.
TunShape ==
    links["tun0"] # NoTunnel =>
        links["tun0"] \in Tunnels /\ child[links["tun0"]] = "running"

\* Only OpenVPN and XRay are children.
OneShotsHaveNoChild ==
    \A p \in Tunnels : ProtocolOf[p] \in OneShot => child[p] = "none"

\* The inductive invariant.
IInv == BackendTypeOK /\ SessionShape /\ CallShape /\ StoppedShape /\ TunShape
        /\ OneShotsHaveNoChild /\ TunnelsAreOwned

-----------------------------------------------------------------------------
(* Interfaces.                                                             *)

\* Each protocol has one interface, and XRay none.
LEMMA InterfaceFacts ==
    ASSUME NEW p \in Tunnels
    PROVE  /\ ProtocolOf[p] \in Protocols
           /\ ProtocolOf[p] = "wireguard" => InterfaceOf(p) = "wg0"
           /\ ProtocolOf[p] = "amneziawg" => InterfaceOf(p) = "amn0"
           /\ ProtocolOf[p] = "openvpn" => InterfaceOf(p) = "tun0"
           /\ ProtocolOf[p] = "xray" => InterfaceOf(p) \notin Interfaces
BY BackendAssumption DEF Protocols, InterfaceOf, Interfaces, NoInterface

\* The interface of OpenVPN is configured from OpenVPN's profiles only, so that
\* the interfaces of the helpers are never its.
LEMMA OwnInterface ==
    ASSUME NEW p \in Tunnels, InterfaceOf(p) = "tun0"
    PROVE  ProtocolOf[p] = "openvpn"
BY InterfaceFacts DEF Protocols, Interfaces

-----------------------------------------------------------------------------
(* Parts of the steps.                                                     *)

Counts == [troubles : Nat, calls : Nat, dirs : Nat]
Ops == {"none", "connect", "migrate", "embed", "disconnect"}
Steps == {"none", "checks", "stage", "launch", "grace", "ready", "start", "clean", "forget"}
Links == [Interfaces -> Tunnels \cup {NoTunnel}]
Sessions == [id : Tunnels \cup {NoTunnel}, embedded : BOOLEAN, dir : Nat, seen : BOOLEAN]
Children == [Tunnels -> {"none", "running", "exited"}]
Calls == [op : Ops, at : Steps, id : Tunnels \cup {NoTunnel}, dir : Nat]

\* A step with or without a failure leaves well-typed bounds.
LEMMA CountType ==
    ASSUME BackendTypeOK, Fine \/ Trouble
    PROVE  count' \in Counts
BY BackendAssumption DEF BackendTypeOK, Fine, Trouble, Counts

\* A call that goes on or returns is well typed.
LEMMA CallType ==
    ASSUME BackendTypeOK, \/ Returns
                          \/ \E at \in Steps : Goes(at)
    PROVE  call' \in Calls
BY DEF BackendTypeOK, Returns, Goes, NoCall, Calls, Ops, Steps

\* What the helpers and the processes leave of the interfaces.
LEMMA LinksType ==
    ASSUME BackendTypeOK, NEW p, NEW by \in Tunnels \cup {NoTunnel}
    PROVE  LinkedTo(p, by) \in Links /\ Without(p) \in Links
BY DEF BackendTypeOK, Links, LinkedTo, Without

\* The type invariant, variable by variable.
LEMMA TypeParts ==
    BackendTypeOK <=> /\ own \in Sessions /\ child \in Children /\ core \in BOOLEAN
                      /\ links \in Links /\ staged \in SUBSET Nat /\ call \in Calls
                      /\ reported \in Tunnels \cup {NoTunnel} /\ running \in BOOLEAN
                      /\ count \in Counts
BY DEF BackendTypeOK, Sessions, Children, Links, Calls, Ops, Steps, Counts

\* The sessions a call makes, and none.
LEMMA SessionType ==
    ASSUME BackendTypeOK, NEW e \in BOOLEAN
    PROVE  Session(e) \in Sessions /\ NoSession \in Sessions
BY DEF BackendTypeOK, Session, NoSession, Sessions

\* The table of processes after one of them was stopped, started or has ended.
LEMMA ChildType ==
    ASSUME BackendTypeOK, NEW p, NEW s \in {"none", "running", "exited"}
    PROVE  [child EXCEPT ![p] = s] \in Children
BY DEF BackendTypeOK, Children

-----------------------------------------------------------------------------
(* The initial state.                                                      *)

\* A backend that owns nothing satisfies the inductive invariant.
LEMMA InitIInv == BackendInit => IInv
<1> SUFFICES ASSUME BackendInit PROVE IInv OBVIOUS
<1>1. own = NoSession /\ own.id = NoTunnel /\ ~own.embedded /\ own.dir = 0 BY DEF BackendInit, NoSession
<1>2. call = NoCall /\ call.op = "none" /\ call.at = "none" /\ reported = NoTunnel /\ running
  BY DEF BackendInit, NoCall
<1>3. BackendTypeOK BY DEF BackendInit, BackendTypeOK, NoSession, NoCall
<1> QED
  BY <1>1, <1>2, <1>3 DEF IInv, SessionShape, CallShape, Connecting, StoppedShape, BackendInit, TunShape, Interfaces,
    TunnelsAreOwned, OwnedUntilGone, NoStrayProcess, SessionIsItsOwn, OneShotsHaveNoChild

-----------------------------------------------------------------------------
(* connect(), before there is a session.                                   *)

\* A call begins.
LEMMA BeginStep ==
    ASSUME IInv, NEW p \in Tunnels, Connect(p) \/ ConnectMigrationCandidate(p)
    PROVE  IInv'
BY BackendAssumption
DEF Connect, ConnectMigrationCandidate, Begins, IInv, BackendTypeOK, SessionShape, CallShape,
    Connecting, StoppedShape, TunShape, TunnelsAreOwned, OwnedUntilGone, NoStrayProcess,
    SessionIsItsOwn, NoSession, NoCall, Exists, LinkOf, OneShotsHaveNoChild

\* A call is refused.
LEMMA RefusalStep ==
    ASSUME IInv, Refusal
    PROVE  IInv'
<1> USE BackendAssumption, InterfaceFacts, OwnInterface DEF IInv, NoSession, NoCall
<1> QED
  BY DEF TunnelsAreOwned, Refusal, Returns, Fine, Trouble, Kept, BackendTypeOK, SessionShape, CallShape, Connecting,
    Exists, LinkOf, NoStrayProcess, StoppedShape, TunShape, Interfaces, OwnedUntilGone, SessionIsItsOwn,
    OneShotsHaveNoChild

\* A call is admitted.
LEMMA AdmittedStep ==
    ASSUME IInv, Admitted
    PROVE  IInv'
<1> USE BackendAssumption, InterfaceFacts, OwnInterface DEF IInv, NoSession, NoCall
<1>1. BackendTypeOK'
  <2>1. call' = [op |-> call'.op, at |-> "stage", id |-> call.id, dir |-> call.dir]
        /\ call'.op \in {call.op, "embed"} BY ZenonT(40) DEF Admitted, Goes, BackendTypeOK
  <2> QED BY <2>1 DEF Admitted, Fine, Kept, BackendTypeOK
<1>3. CallShape'
  <2>1. call.dir = 0 /\ call.id \in Tunnels /\ own = NoSession BY DEF Admitted, CallShape, Connecting
  <2>2. /\ call'.at = "stage" /\ call'.dir = 0 /\ call'.id = call.id
        /\ call'.op = call.op \/ (call.op = "migrate" /\ call'.op = "embed")
    <3>1. CASE Goes("stage") BY <2>1, <3>1 DEF Goes, BackendTypeOK
    <3>2. CASE call.op = "migrate" /\ call' = [call EXCEPT !.op = "embed", !.at = "stage"]
      BY <2>1, <3>2 DEF BackendTypeOK
    <3> QED BY <3>1, <3>2 DEF Admitted
  <2> QED BY <2>1, <2>2 DEF Admitted, Kept, CallShape, Connecting
<1> QED
  BY <1>1, <1>3 DEF TunnelsAreOwned, Admitted, Goes, Fine, Kept, SessionShape, BackendTypeOK, CallShape, Connecting,
    StoppedShape, TunShape, Interfaces, OwnedUntilGone, Exists, LinkOf, NoStrayProcess, SessionIsItsOwn,
    OneShotsHaveNoChild

\* A configuration is used as it is.
LEMMA PathStep ==
    ASSUME IInv, PathAsIs
    PROVE  IInv'
<1> USE BackendAssumption, InterfaceFacts, OwnInterface DEF IInv, NoSession, NoCall
<1> QED
  BY DEF TunnelsAreOwned, PathAsIs, Goes, Fine, Kept, BackendTypeOK, SessionShape, CallShape, Connecting, Exists,
    LinkOf, NoStrayProcess, StoppedShape, TunShape, Interfaces, OwnedUntilGone, SessionIsItsOwn, OneShotsHaveNoChild

\* A staged copy is written.
LEMMA StageStep ==
    ASSUME IInv, prepareManagedNativeConfig
    PROVE  IInv'
<1> USE BackendAssumption, InterfaceFacts, OwnInterface DEF IInv, NoSession, NoCall
<1>1. BackendTypeOK'
  <2>1. CASE Trouble /\ Returns /\ UNCHANGED staged
    BY <2>1, CountType, CallType DEF prepareManagedNativeConfig, BackendTypeOK, Sessions, Children, Links, Calls, Ops,
      Steps, Counts
  <2>2. CASE /\ count' = [count EXCEPT !.dirs = @ + 1]
             /\ staged' = staged \cup {count.dirs + 1}
             /\ call' = [call EXCEPT !.at = "launch", !.dir = count.dirs + 1]
    <3>1. count.dirs + 1 \in Nat /\ count' \in Counts BY <2>2 DEF BackendTypeOK, Counts
    <3>2. call' \in Calls BY <2>2, <3>1 DEF BackendTypeOK, Calls, Ops, Steps
    <3> QED
      BY <2>2, <3>1, <3>2 DEF prepareManagedNativeConfig, BackendTypeOK, Sessions, Children, Links, Calls, Ops, Steps,
        Counts
  <2> QED BY <2>1, <2>2 DEF prepareManagedNativeConfig
<1>3. CallShape'
  <2>1. CASE Trouble /\ Returns /\ UNCHANGED staged
    BY <2>1 DEF prepareManagedNativeConfig, Returns, CallShape, Connecting
  <2>2. CASE /\ staged' = staged \cup {count.dirs + 1}
             /\ call' = [call EXCEPT !.at = "launch", !.dir = count.dirs + 1]
    BY <2>2 DEF prepareManagedNativeConfig, CallShape, Connecting, BackendTypeOK
  <2> QED BY <2>1, <2>2 DEF prepareManagedNativeConfig
<1> QED
  BY <1>1, <1>3 DEF TunnelsAreOwned, prepareManagedNativeConfig, Trouble, Returns, SessionShape, BackendTypeOK,
    CallShape, Connecting, StoppedShape, TunShape, Interfaces, OwnedUntilGone, Exists, LinkOf, NoStrayProcess,
    SessionIsItsOwn, OneShotsHaveNoChild

\* The quick helper brings the interface up.
LEMMA LaunchOneShotStep ==
    ASSUME IInv, LaunchOneShot
    PROVE  IInv'
<1> USE BackendAssumption, InterfaceFacts, OwnInterface DEF IInv, NoSession, NoCall
<1>1. BackendTypeOK'
  <2> HIDE DEF NoSession, NoCall
  <2> USE TypeParts DEF LaunchOneShot
  <2>1. own' \in Sessions BY SessionType DEF IInv
  <2>2. links' \in Links /\ child' \in Children
    <3>3. links' \in {links, LinkedTo(call.id, call.id)} /\ child' = child OBVIOUS
    <3> QED BY <3>3, LinksType DEF Calls
  <2>3. count' \in Counts /\ call' \in Calls BY CountType, CallType DEF Steps
  <2>4. staged' \in SUBSET Nat /\ core' \in BOOLEAN /\ running' \in BOOLEAN
        /\ reported' \in Tunnels \cup {NoTunnel} BY DEF Discards, Calls
  <2> QED BY <2>1, <2>2, <2>3, <2>4 DEF BackendTypeOK, Sessions, Children, Links, Calls, Ops, Steps, Counts
<1>3. CallShape'
  BY DEF LaunchOneShot, Session, Goes, Returns, Fine, Trouble, Discards, LinkedTo, OneShot, CallShape, Connecting,
    BackendTypeOK, SessionShape, Exists, LinkOf, TunnelsAreOwned, NoStrayProcess
<1>5. TunShape'
  BY DEF LaunchOneShot, Session, Goes, Returns, Fine, Trouble, Discards, LinkedTo, OneShot, TunShape, BackendTypeOK,
    CallShape, Connecting, Interfaces
<1>6. OwnedUntilGone'
  BY DEF LaunchOneShot, Session, Goes, Returns, Fine, Trouble, Discards, LinkedTo, OneShot, CallShape,
    TunnelsAreOwned, OwnedUntilGone, Exists, LinkOf, BackendTypeOK, NoStrayProcess, SessionShape
<1>8. SessionIsItsOwn'
  BY DEF LaunchOneShot, Session, Goes, Returns, Fine, Trouble, Discards, LinkedTo, OneShot, CallShape,
    TunnelsAreOwned, SessionIsItsOwn, LinkOf, BackendTypeOK, SessionShape, TunShape, NoStrayProcess
<1> QED
  BY <1>1, <1>3, <1>5, <1>6, <1>8 DEF TunnelsAreOwned, LaunchOneShot, Session, Goes, Returns, Fine, Trouble, Discards,
    LinkedTo, OneShot, SessionShape, BackendTypeOK, CallShape, Connecting, StoppedShape, NoStrayProcess,
    OneShotsHaveNoChild

\* A child is started.
LEMMA LaunchLongRunningStep ==
    ASSUME IInv, LaunchLongRunning
    PROVE  IInv'
<1> USE BackendAssumption, InterfaceFacts, OwnInterface DEF IInv, NoSession, NoCall
<1>1. BackendTypeOK'
  <2> HIDE DEF NoSession, NoCall
  <2> USE TypeParts DEF LaunchLongRunning
  <2>1. own' \in Sessions BY SessionType DEF IInv
  <2>2. links' \in Links /\ child' \in Children
    <3>1. [child EXCEPT ![call.id] = "running"] \in Children BY ChildType
    <3>2. child' \in {child, [child EXCEPT ![call.id] = "running"]} /\ links' = links OBVIOUS
    <3> QED BY <3>1, <3>2
  <2>3. count' \in Counts /\ call' \in Calls BY CountType, CallType DEF Steps
  <2> QED BY <2>1, <2>2, <2>3 DEF BackendTypeOK, Sessions, Children, Links, Calls, Ops, Steps, Counts, Discards
<1>5. TunShape'
  BY DEF LaunchLongRunning, isLongRunningProtocol, Session, Goes, Returns, Fine, Trouble, TunShape, BackendTypeOK,
    CallShape, Connecting, Interfaces
<1>9. OneShotsHaveNoChild'
  BY DEF LaunchLongRunning, isLongRunningProtocol, OneShot, BackendTypeOK, OneShotsHaveNoChild
<1> QED
  BY <1>1, <1>5, <1>9 DEF TunnelsAreOwned, LaunchLongRunning, isLongRunningProtocol, Session, Goes, Returns, Fine,
    Trouble, SessionShape, BackendTypeOK, CallShape, Connecting, Exists, LinkOf, NoStrayProcess, StoppedShape,
    OwnedUntilGone, SessionIsItsOwn, TunShape

\* XRay survives its grace, or does not.
LEMMA GraceStep ==
    ASSUME IInv, StartupGrace
    PROVE  IInv'
<1> USE BackendAssumption, InterfaceFacts, OwnInterface DEF IInv, NoSession, NoCall
<1>1. BackendTypeOK'
  <2> HIDE DEF NoSession, NoCall
  <2> USE TypeParts DEF StartupGrace
  <2>2. links' \in Links /\ child' \in Children
    <3>1. Without(call.id) \in Links /\ [child EXCEPT ![call.id] = "none"] \in Children BY LinksType, ChildType
    <3> QED BY <3>1 DEF ProcessStopped
  <2> QED
    BY <2>2, CountType, CallType, SessionType DEF BackendTypeOK, Sessions, Children, Links, Calls, Ops, Steps, Counts,
      IInv, Discards
<1> QED
  BY <1>1 DEF TunnelsAreOwned, StartupGrace, ProcessStopped, Without, Returns, Fine, SessionShape, BackendTypeOK,
    CallShape, Connecting, Exists, LinkOf, NoStrayProcess, StoppedShape, TunShape, Interfaces, OwnedUntilGone,
    SessionIsItsOwn, OneShotsHaveNoChild

\* The tunnel becomes ready.
LEMMA ReadyStep ==
    ASSUME IInv, BecomesReady
    PROVE  IInv'
<1> USE BackendAssumption, InterfaceFacts, OwnInterface DEF IInv, NoSession, NoCall
<1> QED
  BY DEF TunnelsAreOwned, BecomesReady, Returns, Fine, Kept, BackendTypeOK, SessionShape, CallShape, Connecting,
    Exists, LinkOf, NoStrayProcess, StoppedShape, TunShape, Interfaces, OwnedUntilGone, SessionIsItsOwn,
    OneShotsHaveNoChild

\* The tunnel does not become ready and is taken down.
LEMMA NotReadyStep ==
    ASSUME IInv, NotReady
    PROVE  IInv'
<1> USE BackendAssumption, InterfaceFacts, OwnInterface DEF IInv, NoSession, NoCall
<1>5. TunShape'
  BY DEF NotReady, isLongRunningProtocol, ProcessStopped, Without, Discards, Returns, Fine, Trouble, TunShape,
    BackendTypeOK, CallShape, Connecting, Interfaces
<1>8. SessionIsItsOwn'
  BY DEF NotReady, isLongRunningProtocol, ProcessStopped, Without, Discards, Returns, Fine, Trouble, CallShape,
    TunnelsAreOwned, SessionIsItsOwn, LinkOf, BackendTypeOK, SessionShape, TunShape, NoStrayProcess
<1> QED
  BY <1>5, <1>8 DEF TunnelsAreOwned, NotReady, isLongRunningProtocol, ProcessStopped, Without, Discards, Returns,
    Fine, Trouble, BackendTypeOK, SessionShape, CallShape, Connecting, Exists, LinkOf, NoStrayProcess, StoppedShape,
    OwnedUntilGone, OneShotsHaveNoChild

-----------------------------------------------------------------------------
(* The embedded core.                                                      *)

\* The embedded session is made before its core is started.
LEMMA EmbeddedPreparesStep ==
    ASSUME IInv, EmbeddedPrepares
    PROVE  IInv'
<1> USE BackendAssumption, InterfaceFacts, OwnInterface DEF IInv, NoSession, NoCall
<1> QED
  BY DEF TunnelsAreOwned, EmbeddedPrepares, Session, Goes, Fine, BackendTypeOK, SessionShape, CallShape, Connecting,
    Exists, LinkOf, NoStrayProcess, StoppedShape, TunShape, Interfaces, OwnedUntilGone, SessionIsItsOwn, OneShot,
    OneShotsHaveNoChild

\* The embedded core starts, or does not.
LEMMA EmbeddedStartStep ==
    ASSUME IInv, EmbeddedStart
    PROVE  IInv'
<1> USE BackendAssumption, InterfaceFacts, OwnInterface DEF IInv, NoSession, NoCall
<1>1. BackendTypeOK'
  <2> HIDE DEF NoSession, NoCall
  <2> USE TypeParts DEF EmbeddedStart
  <2>4. staged' \in SUBSET Nat /\ core' \in BOOLEAN /\ running' \in BOOLEAN
        /\ reported' \in Tunnels \cup {NoTunnel} BY DEF Discards, Calls
  <2> QED
    BY <2>4, CountType, CallType, LinksType, SessionType DEF BackendTypeOK, Sessions, Children, Links, Calls, Ops,
      Steps, Counts
<1> QED
  BY <1>1 DEF TunnelsAreOwned, EmbeddedStart, Goes, Returns, Fine, Trouble, LinkedTo, SessionShape, BackendTypeOK,
    CallShape, Connecting, Exists, LinkOf, NoStrayProcess, StoppedShape, TunShape, Interfaces, OwnedUntilGone,
    SessionIsItsOwn, OneShot, OneShotsHaveNoChild

\* An embedded start that failed is cleaned up.
LEMMA EmbeddedCleansStep ==
    ASSUME IInv, EmbeddedCleans
    PROVE  IInv'
<1> USE BackendAssumption, InterfaceFacts, OwnInterface DEF IInv, NoSession, NoCall
<1>1. BackendTypeOK'
  <2> HIDE DEF NoSession, NoCall
  <2> USE TypeParts DEF EmbeddedCleans, EmbeddedStops
  <2>2. links' \in Links /\ child' \in Children BY LinksType
  <2>4. staged' \in SUBSET Nat /\ core' \in BOOLEAN /\ running' \in BOOLEAN
        /\ reported' \in Tunnels \cup {NoTunnel} BY DEF Discards, Calls
  <2> QED
    BY <2>2, <2>4, CountType, CallType, SessionType DEF BackendTypeOK, Sessions, Children, Links, Calls, Ops, Steps,
      Counts
<1>5. TunShape'
  BY DEF EmbeddedCleans, EmbeddedStops, Discards, Returns, Fine, Trouble, Without, TunShape, BackendTypeOK, CallShape,
    Connecting, Interfaces
<1>9. OneShotsHaveNoChild'
  BY DEF EmbeddedCleans, EmbeddedStops, Discards, Returns, Fine, Trouble, Without, BackendTypeOK, OneShot,
    OneShotsHaveNoChild
<1> QED
  BY <1>1, <1>5, <1>9 DEF TunnelsAreOwned, EmbeddedCleans, EmbeddedStops, Discards, Returns, Fine, Trouble, Without,
    SessionShape, BackendTypeOK, CallShape, Connecting, Exists, LinkOf, NoStrayProcess, StoppedShape, OwnedUntilGone,
    SessionIsItsOwn, TunShape

-----------------------------------------------------------------------------
(* disconnect().                                                           *)

\* A call of disconnect() begins.
LEMMA DisconnectStep ==
    ASSUME IInv, Disconnect
    PROVE  IInv'
BY BackendAssumption
DEF Disconnect, Begins, IInv, BackendTypeOK, SessionShape, CallShape,
    Connecting, StoppedShape, TunShape, TunnelsAreOwned, OwnedUntilGone, NoStrayProcess,
    SessionIsItsOwn, NoSession, NoCall, Exists, LinkOf, OneShotsHaveNoChild

\* There is nothing to disconnect.
LEMMA DisconnectNothingStep ==
    ASSUME IInv, DisconnectNothing
    PROVE  IInv'
<1> USE BackendAssumption, InterfaceFacts, OwnInterface DEF IInv, NoSession, NoCall
<1> QED
  BY DEF TunnelsAreOwned, DisconnectNothing, InStep, Returns, Kept, Fine, BackendTypeOK, SessionShape, CallShape,
    Connecting, Exists, LinkOf, NoStrayProcess, StoppedShape, TunShape, Interfaces, OwnedUntilGone, SessionIsItsOwn,
    OneShot, OneShotsHaveNoChild

\* The embedded core is stopped.
LEMMA DisconnectEmbeddedStep ==
    ASSUME IInv, DisconnectEmbedded
    PROVE  IInv'
<1> USE BackendAssumption, InterfaceFacts, OwnInterface DEF IInv, NoSession, NoCall
<1>1. BackendTypeOK'
  <2> HIDE DEF NoSession, NoCall
  <2> USE TypeParts DEF DisconnectEmbedded, EmbeddedStops
  <2>2. links' \in Links /\ child' \in Children BY LinksType
  <2>4. staged' \in SUBSET Nat /\ core' \in BOOLEAN /\ running' \in BOOLEAN
        /\ reported' \in Tunnels \cup {NoTunnel} BY DEF Discards, Calls
  <2> QED
    BY <2>2, <2>4, CountType, CallType, SessionType DEF BackendTypeOK, Sessions, Children, Links, Calls, Ops, Steps,
      Counts
<1>3. CallShape'
  BY DEF DisconnectEmbedded, InStep, EmbeddedStops, Discards, Returns, Fine, Trouble, Without, CallShape, Connecting,
    BackendTypeOK, SessionShape, Exists, LinkOf, TunnelsAreOwned, NoStrayProcess
<1>5. TunShape'
  BY DEF DisconnectEmbedded, InStep, EmbeddedStops, Discards, Returns, Fine, Trouble, Without, TunShape,
    BackendTypeOK, CallShape, Connecting, Interfaces
<1>6. OwnedUntilGone'
  BY DEF DisconnectEmbedded, InStep, EmbeddedStops, Discards, Returns, Fine, Trouble, Without, CallShape,
    TunnelsAreOwned, OwnedUntilGone, Exists, LinkOf, BackendTypeOK, NoStrayProcess, SessionShape
<1>8. SessionIsItsOwn'
  BY DEF DisconnectEmbedded, InStep, EmbeddedStops, Discards, Returns, Fine, Trouble, Without, CallShape,
    TunnelsAreOwned, SessionIsItsOwn, LinkOf, BackendTypeOK, SessionShape, TunShape, NoStrayProcess
<1> QED
  BY <1>1, <1>3, <1>5, <1>6, <1>8 DEF TunnelsAreOwned, DisconnectEmbedded, InStep, EmbeddedStops, Discards, Returns,
    Fine, Trouble, Without, SessionShape, BackendTypeOK, CallShape, Connecting, StoppedShape, NoStrayProcess, OneShot,
    OneShotsHaveNoChild

\* A child is stopped.
LEMMA DisconnectLongRunningStep ==
    ASSUME IInv, DisconnectLongRunning
    PROVE  IInv'
<1> USE BackendAssumption, InterfaceFacts, OwnInterface DEF IInv, NoSession, NoCall
<1>3. CallShape'
  BY DEF DisconnectLongRunning, InStep, isLongRunningProtocol, ProcessStopped, Goes, Returns, Fine, Trouble, Without,
    CallShape, Connecting, BackendTypeOK, SessionShape, Exists, LinkOf, TunnelsAreOwned, NoStrayProcess
<1>5. TunShape'
  BY DEF DisconnectLongRunning, InStep, isLongRunningProtocol, ProcessStopped, Goes, Returns, Fine, Trouble, Without,
    TunShape, BackendTypeOK, CallShape, Connecting, Interfaces
<1>6. OwnedUntilGone'
  BY DEF DisconnectLongRunning, InStep, isLongRunningProtocol, ProcessStopped, Goes, Returns, Fine, Trouble, Without,
    CallShape, TunnelsAreOwned, OwnedUntilGone, Exists, LinkOf, BackendTypeOK, NoStrayProcess, SessionShape
<1>8. SessionIsItsOwn'
  BY DEF DisconnectLongRunning, InStep, isLongRunningProtocol, ProcessStopped, Goes, Returns, Fine, Trouble, Without,
    CallShape, TunnelsAreOwned, SessionIsItsOwn, LinkOf, BackendTypeOK, SessionShape, TunShape, NoStrayProcess
<1> QED
  BY <1>3, <1>5, <1>6, <1>8 DEF TunnelsAreOwned, DisconnectLongRunning, InStep, isLongRunningProtocol, ProcessStopped,
    Goes, Returns, Fine, Trouble, Without, BackendTypeOK, SessionShape, CallShape, Connecting, StoppedShape,
    NoStrayProcess, OneShot, OneShotsHaveNoChild

\* The quick helper takes the interface down.
LEMMA DisconnectOneShotStep ==
    ASSUME IInv, DisconnectOneShot
    PROVE  IInv'
<1> USE BackendAssumption, InterfaceFacts, OwnInterface DEF IInv, NoSession, NoCall
<1>3. CallShape'
  BY DEF DisconnectOneShot, Returns, CallShape, Connecting, SessionShape, OneShotsHaveNoChild, OneShot, Interfaces,
    LinkedTo, BackendTypeOK, Exists, LinkOf, InStep, Goes
<1>6. OwnedUntilGone'
  BY DEF DisconnectOneShot, InStep, OneShot, Goes, Returns, Fine, Trouble, LinkedTo, CallShape, TunnelsAreOwned,
    OwnedUntilGone, Exists, LinkOf, BackendTypeOK, NoStrayProcess, SessionShape
<1> QED
  BY <1>3, <1>6 DEF TunnelsAreOwned, DisconnectOneShot, InStep, OneShot, Goes, Returns, Fine, Trouble, LinkedTo,
    BackendTypeOK, SessionShape, CallShape, Connecting, StoppedShape, NoStrayProcess, TunShape, Interfaces,
    SessionIsItsOwn, LinkOf, OneShotsHaveNoChild

\* The session is forgotten.
LEMMA ForgetStep ==
    ASSUME IInv, Forget
    PROVE  IInv'
<1> USE BackendAssumption, InterfaceFacts, OwnInterface DEF IInv, NoSession, NoCall
<1> QED
  BY DEF TunnelsAreOwned, Forget, InStep, Returns, Fine, Trouble, BackendTypeOK, SessionShape, CallShape, Connecting,
    Exists, LinkOf, NoStrayProcess, StoppedShape, TunShape, Interfaces, OwnedUntilGone, SessionIsItsOwn, OneShot,
    OneShotsHaveNoChild

-----------------------------------------------------------------------------
(* What happens to the tunnels, and to the daemon.                         *)

\* A handshake was seen.
LEMMA HealthyStep ==
    ASSUME IInv, sessionHealthyAfterRouting
    PROVE  IInv'
<1> USE BackendAssumption, InterfaceFacts, OwnInterface DEF IInv, NoSession, NoCall
<1>1. BackendTypeOK' BY DEF sessionHealthyAfterRouting, interfaceHealthy, BackendTypeOK
<1> QED
  BY <1>1 DEF TunnelsAreOwned, sessionHealthyAfterRouting, interfaceHealthy, SessionShape, BackendTypeOK, CallShape,
    Connecting, Exists, LinkOf, NoStrayProcess, StoppedShape, TunShape, Interfaces, OwnedUntilGone, SessionIsItsOwn,
    OneShot, OneShotsHaveNoChild

\* OpenVPN makes its interface.
LEMMA OpenVpnConnectsStep ==
    ASSUME IInv, NEW p \in Tunnels, OpenVpnConnects(p)
    PROVE  IInv'
<1> USE BackendAssumption, InterfaceFacts, OwnInterface DEF IInv, NoSession, NoCall
<1> QED
  BY DEF TunnelsAreOwned, OpenVpnConnects, LinkedTo, BackendTypeOK, SessionShape, CallShape, Connecting, Exists,
    LinkOf, NoStrayProcess, StoppedShape, TunShape, Interfaces, OwnedUntilGone, SessionIsItsOwn, OneShot,
    OneShotsHaveNoChild

\* A child exits.
LEMMA ChildExitsStep ==
    ASSUME IInv, NEW p \in Tunnels, ChildExits(p)
    PROVE  IInv'
<1> USE BackendAssumption, InterfaceFacts, OwnInterface DEF IInv, NoSession, NoCall
<1> QED
  BY DEF TunnelsAreOwned, ChildExits, Trouble, Without, BackendTypeOK, SessionShape, CallShape, Connecting, Exists,
    LinkOf, NoStrayProcess, StoppedShape, TunShape, Interfaces, OwnedUntilGone, SessionIsItsOwn, OneShot,
    OneShotsHaveNoChild

\* The embedded core exits.
LEMMA CoreExitsStep ==
    ASSUME IInv, CoreExits
    PROVE  IInv'
<1> USE BackendAssumption, InterfaceFacts, OwnInterface DEF IInv, NoSession, NoCall
<1>1. BackendTypeOK'
  <2>1. Without(own.id) \in Links /\ count' \in Counts BY LinksType, CountType DEF CoreExits
  <2> QED BY <2>1, ZenonT(40) DEF CoreExits, BackendTypeOK, Links, Counts
<1> QED
  BY <1>1 DEF TunnelsAreOwned, CoreExits, Trouble, Without, SessionShape, BackendTypeOK, CallShape, Connecting,
    Exists, LinkOf, NoStrayProcess, StoppedShape, TunShape, Interfaces, OwnedUntilGone, SessionIsItsOwn, OneShot,
    OneShotsHaveNoChild

\* An interface vanishes, or is removed by hand.
LEMMA LinkGoesStep ==
    ASSUME IInv, NEW i \in Interfaces, LinkVanishes(i) \/ OperatorRemoves(i)
    PROVE  IInv'
<1> USE BackendAssumption, InterfaceFacts, OwnInterface DEF IInv, NoSession, NoCall
<1>6. OwnedUntilGone'
  <2>2. /\ UNCHANGED <<own, child, reported, running>> BY DEF LinkVanishes, OperatorRemoves
  <2> QED BY <2>2 DEF TunnelsAreOwned, OwnedUntilGone, Exists, LinkOf, BackendTypeOK, LinkVanishes, OperatorRemoves
<1> QED
  BY <1>6 DEF TunnelsAreOwned, LinkVanishes, OperatorRemoves, Trouble, BackendTypeOK, SessionShape, CallShape,
    Connecting, Exists, LinkOf, NoStrayProcess, StoppedShape, TunShape, Interfaces, SessionIsItsOwn, OneShot,
    OneShotsHaveNoChild

\* The daemon ends.
LEMMA DaemonEndsStep ==
    ASSUME IInv, DaemonEnds
    PROVE  IInv'
<1> USE BackendAssumption, InterfaceFacts, OwnInterface DEF IInv, NoSession, NoCall
<1>1. BackendTypeOK'
  <2>1. links' \in Links /\ child' \in Children BY DEF DaemonEnds, BackendTypeOK, Links, Children
  <2>2. count' \in Counts BY CountType DEF DaemonEnds
  <2> QED BY <2>1, <2>2 DEF DaemonEnds, BackendTypeOK, Links, Children, Counts
<1> QED
  BY <1>1 DEF TunnelsAreOwned, DaemonEnds, Trouble, SessionShape, BackendTypeOK, CallShape, Connecting, Exists,
    LinkOf, NoStrayProcess, StoppedShape, TunShape, Interfaces, OwnedUntilGone, SessionIsItsOwn, OneShot,
    OneShotsHaveNoChild

\* The daemon starts.
LEMMA DaemonStartsStep ==
    ASSUME IInv, DaemonStarts
    PROVE  IInv'
<1> USE BackendAssumption, InterfaceFacts, OwnInterface DEF IInv, NoSession, NoCall
<1> QED
  BY DEF TunnelsAreOwned, DaemonStarts, configuredInterfacePresent, BackendTypeOK, SessionShape, CallShape,
    Connecting, Exists, LinkOf, NoStrayProcess, StoppedShape, TunShape, Interfaces, OwnedUntilGone, SessionIsItsOwn,
    OneShot, OneShotsHaveNoChild

-----------------------------------------------------------------------------
(* Every step, and the theorems.                                           *)

\* Nothing changes.
LEMMA StutterStep ==
    ASSUME IInv, UNCHANGED backendVars
    PROVE  IInv'
BY DEF backendVars, IInv, BackendTypeOK, SessionShape, CallShape, Connecting, StoppedShape, TunShape, TunnelsAreOwned,
  OwnedUntilGone, NoStrayProcess, SessionIsItsOwn, NoSession, NoCall, Exists, LinkOf, OneShotsHaveNoChild

\* Every step keeps the inductive invariant.
LEMMA NextIInv == IInv /\ [BackendStep]_backendVars => IInv'
<1> SUFFICES ASSUME IInv, [BackendStep]_backendVars PROVE IInv' OBVIOUS
<1>1. ASSUME NEW p \in Tunnels,
             Connect(p) \/ ConnectMigrationCandidate(p) \/ OpenVpnConnects(p) \/ ChildExits(p)
      PROVE  IInv' BY <1>1, BeginStep, OpenVpnConnectsStep, ChildExitsStep
<1>2. CASE Refusal \/ Admitted \/ prepareManagedNativeConfig \/ PathAsIs
  BY <1>2, RefusalStep, AdmittedStep, StageStep, PathStep
<1>3. CASE LaunchOneShot \/ LaunchLongRunning \/ StartupGrace \/ BecomesReady \/ NotReady
  BY <1>3, LaunchOneShotStep, LaunchLongRunningStep, GraceStep, ReadyStep, NotReadyStep
<1>4. CASE EmbeddedPrepares \/ EmbeddedStart \/ EmbeddedCleans
  BY <1>4, EmbeddedPreparesStep, EmbeddedStartStep, EmbeddedCleansStep
<1>5. CASE Disconnect \/ DisconnectNothing \/ DisconnectEmbedded \/ DisconnectLongRunning
  BY <1>5, DisconnectStep, DisconnectNothingStep, DisconnectEmbeddedStep, DisconnectLongRunningStep
<1>6. CASE DisconnectOneShot \/ Forget \/ sessionHealthyAfterRouting
  BY <1>6, DisconnectOneShotStep, ForgetStep, HealthyStep
<1>7. CASE CoreExits \/ DaemonEnds \/ DaemonStarts BY <1>7, CoreExitsStep, DaemonEndsStep, DaemonStartsStep
<1>8. ASSUME NEW i \in Interfaces, LinkVanishes(i) \/ OperatorRemoves(i)
      PROVE  IInv' BY <1>8, LinkGoesStep
<1>9. CASE UNCHANGED backendVars BY <1>9, StutterStep
<1> QED BY <1>1, <1>2, <1>3, <1>4, <1>5, <1>6, <1>7, <1>8, <1>9 DEF BackendStep

\* The inductive invariant holds in every reachable state.
THEOREM BackendInvariance == BackendSpec => []IInv
<1>1. BackendInit => IInv BY InitIInv
<1>2. IInv /\ [BackendStep]_backendVars => IInv' BY NextIInv
<1> QED BY <1>1, <1>2, PTL DEF BackendSpec

\* The backend answers for its tunnels: what was reported as connected belongs to
\* the session while any of it exists, no process outlives its session, and the
\* session's interface was configured from the session's own profile
\* (VpnBackend::connect and disconnect), whatever helpers, children and the
\* daemon itself do, for any profiles and any number of calls and failures.
THEOREM TunnelOwnership == BackendSpec => []TunnelsAreOwned
<1>1. IInv => TunnelsAreOwned BY DEF IInv
<1> QED BY <1>1, BackendInvariance, PTL

-----------------------------------------------------------------------------
(* The coordinated rollback. *)

Resuming == {"resume_requested", "resumed"}
Observed == {"old13_observed", "old13_stopped", "coordinator_commit_pending", "held"}
Swapped == Observed \cup {"rollback_requested"}
Paused == Swapped \cup {"profiles_paused"}
Phases == Paused \cup Resuming \cup {"none", "prepared", "pause_prepared"}

Entries == [id : Profiles, auto : BOOLEAN]
Records == [phase : Phases, orig : SUBSET Entries, paused : SUBSET Entries, pair : Nat, seen : Nat,
            ack : {"none", "returned", "recovered"}, gone : Nat]
RunSteps == {"observe", "observed", "stop", "stopped", "pending", "ack", "acked", "recovered",
             "start", "final", "held"}
ResumeSteps == {"ask", "rstop", "restore", "rstart", "resumed"}
Operations ==
    [kind : {"none"}, at : {"none"}, by : {"none"}, pid : Nat]
        \cup [kind : {"prepare"}, at : {"record"}, by : {"cli"}, pid : Nat]
        \cup [kind : {"admit"}, at : {"intent", "swap", "paused"}, by : {"daemon", "worker"}, pid : Nat]
        \cup [kind : {"request"}, at : {"request"}, by : {"cli"}, pid : Nat]
        \cup [kind : {"run"}, at : RunSteps, by : {"worker"}, pid : Nat]
        \cup [kind : {"resume"}, at : ResumeSteps, by : {"worker", "admin"}, pid : Nat]

Machines == [worker : BOOLEAN, unit : BOOLEAN, restart : BOOLEAN,
             rpc : {"none", "admit", "rollback", "request"}, stray : BOOLEAN,
             pids : Nat, crashes : Nat]

CoordTypeOK ==
    /\ rec \in Records /\ store \in SUBSET Entries /\ op \in Operations
    /\ svc \in [pid : Nat, version : {0, Original, Target, Newer}, cached : SUBSET Entries,
                state : {"none", "idle", "disabled", "rollback_restart_pending"}]
    /\ host \in Machines

\* The updater, from the swap of the pair to the acknowledgement.
UpdaterOK ==
    \/ upd = [pair |-> Original, state |-> "idle", journal |-> FALSE]
    \/ upd = [pair |-> Newer, state |-> "idle", journal |-> FALSE]
    \/ upd = [pair |-> Target, state |-> "rollback_restart_pending", journal |-> TRUE]
    \/ upd = [pair |-> Target, state |-> "disabled", journal |-> FALSE]

\* What a record r proves by its phase.
RecordOK(r) ==
    /\ r.phase \in {"pause_prepared"} \cup Paused \cup Resuming => r.paused = PauseJson(r.orig)
    /\ upd.pair = Target => r.phase \in Paused \cup Resuming
    /\ r.phase \in Swapped => upd.pair # Original
    /\ r.phase \in Observed => r.seen # 0
    /\ r.seen <= host.pids
    /\ r.phase = "held" => r.ack # "none" /\ upd.state # "rollback_restart_pending"

\* Profiles s in which every profile that the record r paused is there and none
\* of those that updated by themselves does.
QuietIn(r, s) ==
    /\ \A e \in r.orig : \E x \in s : x.id = e.id
    /\ \A e \in r.orig, x \in s : e.auto /\ x.auto => e.id # x.id

\* From the swap of the pair until the record is resumed, the profiles are quiet
\* in the file and in the daemon.
StoreQuiet(r, s) == upd.pair = Target /\ r.phase \in Paused => QuietIn(r, s)
ServiceQuiet(r) ==
    svc.pid # 0 =>
        /\ svc.version = Target => r.phase \in Paused \cup Resuming
        /\ (svc.version = Target \/ upd.pair = Target) /\ r.phase \in Paused => QuietIn(r, svc.cached)

\* The daemon that runs once a rollback is held is not the one that was observed.
Replaced(r) ==
    upd.pair = Target => svc.pid # r.seen /\ (svc.pid # 0 => svc.state = "disabled")
HeldOK(r) == r.phase = "held" => Replaced(r)

\* An operation holds the lock, so the record is in the phase it was taken up in.
OperationOK ==
    /\ op.kind = "prepare" => rec.phase = "none"
    /\ op.at = "intent" => rec.phase = "prepared"
    /\ op.at \in {"swap", "paused"} => rec.phase = "pause_prepared"
    /\ op.kind = "request" => rec.phase \in {"profiles_paused", "rollback_requested"} /\ upd.pair # Original
    /\ op.kind = "run" => rec.phase \in Paused \ {"held"} /\ upd.pair # Original
    /\ op.at = "observed" => op.pid # 0 /\ op.pid <= host.pids
    /\ op.kind = "run" /\ op.at \notin {"observe", "observed"} => rec.seen # 0
    /\ op.at \in {"acked", "recovered", "start", "final", "held"} => upd.state # "rollback_restart_pending"
    /\ op.at \in {"start", "final", "held"} => rec.ack # "none"
    /\ op.at = "held" => Replaced(rec)
    /\ op.at = "ask" => rec.phase \in {"held", "profiles_paused", "resume_requested"}
    /\ op.at \in {"rstop", "restore", "rstart", "resumed"} => rec.phase = "resume_requested"

\* The daemon that is about to swap the pair has loaded the paused profiles.
RequestOK ==
    /\ svc.pid <= host.pids
    /\ host.rpc = "rollback" => rec.phase \in Paused \cup Resuming
    /\ host.rpc = "rollback" /\ rec.phase = "profiles_paused" /\ svc.pid # 0 /\ PausedPolicy
         => svc.cached = store

CoordInv ==
    /\ CoordTypeOK /\ UpdaterOK /\ RecordOK(rec) /\ StoreQuiet(rec, store) /\ ServiceQuiet(rec)
    /\ HeldOK(rec) /\ OperationOK /\ RequestOK

-----------------------------------------------------------------------------

\* The next step of an operation is of the same operation.
LEMMA NextStep ==
    ASSUME op \in Operations, NEW a,
           \/ op.kind = "admit" /\ a \in {"intent", "swap", "paused"}
           \/ op.kind = "run" /\ a \in RunSteps
           \/ op.kind = "resume" /\ a \in ResumeSteps
    PROVE  /\ At(a) \in Operations /\ At(a).kind = op.kind /\ At(a).at = a
           /\ At(a).by = op.by /\ At(a).pid = op.pid
BY DEF Operations, At

\* Which operation a step belongs to.
LEMMA StepKinds ==
    ASSUME op \in Operations
    PROVE  /\ op.pid \in Nat
           /\ op.kind = "none" <=> op.at = "none"
           /\ op.kind = "prepare" <=> op.at = "record"
           /\ op.kind = "admit" <=> op.at \in {"intent", "swap", "paused"}
           /\ op.kind = "request" <=> op.at = "request"
           /\ op.kind = "run" <=> op.at \in RunSteps
           /\ op.kind = "resume" <=> op.at \in ResumeSteps
           /\ op.kind \in {"none", "prepare", "admit", "request", "run", "resume"}
BY DEF Operations, RunSteps, ResumeSteps

\* No operation is in progress.
LEMMA NoOperation ==
    ASSUME CoordInv, op' = NoOp, host'.pids \in Nat
    PROVE  op' \in Operations /\ OperationOK'
BY DEF NoOp, Operations, OperationOK

\* A step that only takes up, continues or ends an operation.
LEMMA OnlyOperation ==
    ASSUME CoordInv, UNCHANGED <<rec, store, upd, svc>>, op' \in Operations, OperationOK',
           host' \in Machines,
           host'.pids = host.pids, host'.rpc = host.rpc \/ host'.rpc # "rollback"
    PROVE  CoordInv'
<1> QED
  BY DEF CoordInv, CoordTypeOK, Machines, UpdaterOK, RecordOK, StoreQuiet, ServiceQuiet, HeldOK, Replaced, QuietIn,
    RequestOK, PausedPolicy

\* What each step writes.
LEMMA Effects ==
    ASSUME op \in Operations
    PROVE  /\ op.at = "intent" => EffectOf(op) = Effect([rec EXCEPT !.phase = "pause_prepared", !.orig = store,
                                                           !.paused = PauseJson(store)], store)
           /\ op.at = "swap" => EffectOf(op) = Effect(rec, rec.paused)
           /\ op.at = "paused" => EffectOf(op) = Effect([rec EXCEPT !.phase = "profiles_paused"], store)
           /\ op.at = "observed" => EffectOf(op) = Effect([rec EXCEPT !.phase = "old13_observed", !.seen = op.pid], store)
           /\ op.at = "stopped" => EffectOf(op) = Effect([rec EXCEPT !.phase = "old13_stopped"], store)
           /\ op.at = "pending" => EffectOf(op) = Effect([rec EXCEPT !.phase = "coordinator_commit_pending"], store)
           /\ op.at = "acked" => EffectOf(op) = Effect([rec EXCEPT !.phase = "coordinator_commit_pending",
                                                                   !.ack = "returned"], store)
           /\ op.at = "recovered" => EffectOf(op) = Effect([rec EXCEPT !.phase = "coordinator_commit_pending",
                                                                       !.ack = "recovered"], store)
           /\ op.at = "held" => EffectOf(op) = Effect([rec EXCEPT !.phase = "held"], store)
           /\ op.at = "ask" => EffectOf(op) = Effect([rec EXCEPT !.phase = "resume_requested", !.gone = op.pid], store)
           /\ op.at = "restore" => EffectOf(op) = Effect(rec, rec.orig)
           /\ op.at = "resumed" => EffectOf(op) = Effect([rec EXCEPT !.phase = "resumed"], store)
           /\ op.at = "record" => EffectOf(op) = Effect([NoRec EXCEPT !.phase = "prepared", !.pair = upd.pair], store)
           /\ op.at = "request" => EffectOf(op) = Effect([rec EXCEPT !.phase = "rollback_requested"], store)
<1>2. CASE op.kind = "admit" BY <1>2, StepKinds DEF EffectOf, AdmitEffect, RunSteps, ResumeSteps
<1>3. CASE op.kind = "run" BY <1>3, StepKinds DEF EffectOf, RunEffect, RunSteps, ResumeSteps
<1>4. CASE op.kind = "resume" BY <1>4, StepKinds DEF EffectOf, ResumeEffect, RunSteps, ResumeSteps
<1>5. CASE op.kind = "prepare" BY <1>5, StepKinds DEF EffectOf, PrepareEffect, RunSteps, ResumeSteps
<1>6. CASE op.kind = "request" BY <1>6, StepKinds DEF EffectOf, RequestEffect, RunSteps, ResumeSteps
<1> QED BY <1>2, <1>3, <1>4, <1>5, <1>6, StepKinds DEF RunSteps, ResumeSteps

\* The updater's pair, state and journal belong together.
LEMMA UpdaterShape ==
    ASSUME UpdaterOK
    PROVE  /\ upd.pair \in {Original, Target, Newer}
           /\ upd.state \in {"idle", "disabled", "rollback_restart_pending"}
           /\ upd.pair # Target => upd.state = "idle" /\ ~upd.journal
           /\ upd.pair = Target => upd.state # "idle"
           /\ upd.journal <=> upd.state = "rollback_restart_pending"
<1>0. CASE upd = [pair |-> Original, state |-> "idle", journal |-> FALSE] BY <1>0 DEF Original, Target, Newer
<1>1. CASE upd = [pair |-> Newer, state |-> "idle", journal |-> FALSE] BY <1>1 DEF Original, Target, Newer
<1>2. CASE upd = [pair |-> Target, state |-> "rollback_restart_pending", journal |-> TRUE]
  BY <1>2 DEF Original, Target, Newer
<1>3. CASE upd = [pair |-> Target, state |-> "disabled", journal |-> FALSE] BY <1>3 DEF Original, Target, Newer
<1> QED BY <1>0, <1>1, <1>2, <1>3 DEF UpdaterOK

\* The paused profiles are the original ones, and none updates by itself.
LEMMA PauseQuiets ==
    ASSUME NEW s \in SUBSET Entries
    PROVE  /\ PauseJson(s) \in SUBSET Entries
           /\ \A e \in s : \E x \in PauseJson(s) : x.id = e.id
           /\ \A x \in PauseJson(s) : x.auto = FALSE
<1>1. \A e \in s : e.id \in Profiles /\ Entry(e.id, FALSE) \in Entries BY DEF Entry, Entries
<1>2. \A e \in s : Entry(e.id, FALSE) \in PauseJson(s) /\ Entry(e.id, FALSE).id = e.id BY DEF PauseJson, Entry
<1>3. \A x \in PauseJson(s) : \E e \in s : x = Entry(e.id, FALSE) BY DEF PauseJson
<1>4. \A e \in s : Entry(e.id, FALSE).auto = FALSE BY DEF Entry
<1> QED BY <1>1, <1>2, <1>3, <1>4

\* So the paused profiles are quiet.
LEMMA PausedIsQuiet ==
    ASSUME NEW r \in Records, r.paused = PauseJson(r.orig)
    PROVE  QuietIn(r, r.paused)
<1>1. r.orig \in SUBSET Entries BY DEF Records
<1> QED BY <1>1, PauseQuiets DEF QuietIn

\* A record r and profiles s that a write may leave behind.
DurableOK(r, s) ==
    /\ r \in Records /\ s \in SUBSET Entries
    /\ RecordOK(r) /\ StoreQuiet(r, s) /\ ServiceQuiet(r) /\ HeldOK(r)
    /\ host.rpc = "rollback" => r.phase \in (Paused \ {"profiles_paused"}) \cup Resuming

\* A write that advances the phase while the profiles stay as they are.
LEMMA PhaseAdvances ==
    ASSUME CoordInv, NEW r \in Records, r.orig = rec.orig, r.paused = rec.paused,
           r.phase \in Paused \cup Resuming, rec.phase \in {"pause_prepared"} \cup Paused \cup Resuming,
           r.phase \in Paused => rec.phase \in Paused \cup {"pause_prepared"},
           r.phase \in Swapped => upd.pair # Original,
           r.phase \in Observed => r.seen # 0,
           r.seen <= host.pids,
           r.phase = "held" => r.ack # "none" /\ upd.state # "rollback_restart_pending" /\ Replaced(r),
           r.phase = "profiles_paused" => host.rpc # "rollback"
    PROVE  DurableOK(r, store)
<1> QED
  BY DEF DurableOK, CoordInv, CoordTypeOK, Machines, RecordOK, StoreQuiet, QuietIn, Paused, Swapped, Observed,
    Resuming, ServiceQuiet, HeldOK

\* Whatever the operation in progress writes next leaves a state it can be
\* taken up from.
LEMMA WritesHold ==
    ASSUME CoordInv, op.at \in WriteSteps
    PROVE  DurableOK(EffectOf(op).rec, EffectOf(op).store)
<1> USE DEF Effect
<1>0. op \in Operations /\ rec \in Records /\ store \in SUBSET Entries /\ host.pids \in Nat
  BY DEF CoordInv, CoordTypeOK, Machines
<1>k. /\ op.pid \in Nat
      /\ op.kind = "run" <=> op.at \in RunSteps
      /\ op.kind = "request" <=> op.at = "request"
      /\ op.kind = "prepare" <=> op.at = "record" BY <1>0, StepKinds
<1>p. rec.phase \notin Paused \cup Resuming =>
        /\ upd.pair # Target /\ host.rpc # "rollback" /\ (svc.pid # 0 => svc.version # Target)
  BY DEF CoordInv, RecordOK, RequestOK, ServiceQuiet
<1>1. CASE op.at = "intent"
  <2> DEFINE r == [rec EXCEPT !.phase = "pause_prepared", !.orig = store, !.paused = PauseJson(store)]
  <2>1. EffectOf(op).rec = r /\ EffectOf(op).store = store BY <1>0, <1>1, Effects
  <2>2. /\ r \in Records /\ r.phase = "pause_prepared" /\ r.orig = store /\ r.paused = PauseJson(store)
        /\ r.seen = rec.seen BY <1>0, PauseQuiets DEF Records, Phases
  <2> HIDE DEF r
  <2> QED
    BY <1>0, <1>1, <2>1, <2>2, <1>p DEF DurableOK, RecordOK, StoreQuiet, ServiceQuiet, HeldOK, Paused, Swapped,
      Observed, Resuming, CoordInv, OperationOK
<1>2. CASE op.at = "swap"
  BY <1>0, <1>2, Effects, <1>p DEF CoordInv, OperationOK, Records, DurableOK, StoreQuiet, Paused, Swapped, Observed,
    Resuming
<1>3. CASE op.at = "paused"
  BY <1>0, <1>3, Effects, <1>p, PhaseAdvances DEF Records, Phases, Paused, CoordInv, OperationOK, RecordOK, Swapped,
    Observed, Resuming
<1>4. CASE op.kind = "run"
  <2> DEFINE r == EffectOf(op).rec
  <2>1. /\ r \in Records /\ EffectOf(op).store = store
        /\ r.orig = rec.orig /\ r.paused = rec.paused /\ r.phase \in Observed
        /\ r.seen # 0 /\ r.seen <= host.pids
        /\ r.phase = "held" => op.at = "held" /\ r.ack = rec.ack /\ r.seen = rec.seen
    <3> USE <1>0 DEF Records, Phases, Paused, Swapped, Observed
    <3>1. op.at \in {"observed", "stopped", "pending", "acked", "recovered", "held"}
      BY <1>k, <1>4 DEF WriteSteps, RunSteps
    <3>2. op.at # "observed" => rec.seen # 0 /\ rec.seen <= host.pids
      BY <1>4, <3>1 DEF CoordInv, OperationOK, RecordOK
    <3>3. CASE op.at = "observed"
      <4>1. r = [rec EXCEPT !.phase = "old13_observed", !.seen = op.pid] /\ EffectOf(op).store = store
        BY <3>3, Effects
      <4> QED BY <1>k, <3>2, <3>3, <4>1 DEF CoordInv, OperationOK
    <3>4. CASE op.at = "stopped" BY <3>4, Effects, <1>k, <3>2
    <3>5. CASE op.at = "pending" BY <3>5, Effects, <1>k, <3>2
    <3>6. CASE op.at = "acked"
      <4>1. r = [rec EXCEPT !.phase = "coordinator_commit_pending", !.ack = "returned"] /\ EffectOf(op).store = store
        BY <3>6, Effects
      <4> QED BY <1>k, <3>2, <3>6, <4>1
    <3>7. CASE op.at = "recovered"
      <4>1. r = [rec EXCEPT !.phase = "coordinator_commit_pending", !.ack = "recovered"] /\ EffectOf(op).store = store
        BY <3>7, Effects
      <4> QED BY <1>k, <3>2, <3>7, <4>1
    <3>8. CASE op.at = "held" BY <3>8, Effects, <1>k, <3>2
    <3> QED BY <3>1, <3>3, <3>4, <3>5, <3>6, <3>7, <3>8
  <2> HIDE DEF r
  <2> QED BY <1>4, <2>1, PhaseAdvances DEF r, Paused, Swapped, Observed, Resuming, CoordInv, OperationOK, Replaced
<1>5. CASE op.at \in {"ask", "resumed"}
  <2> DEFINE r == EffectOf(op).rec
  <2>1. /\ r \in Records /\ EffectOf(op).store = store
        /\ r.orig = rec.orig /\ r.paused = rec.paused /\ r.phase \in Resuming /\ r.seen = rec.seen
    <3> USE <1>0 DEF Records, Phases, Resuming
    <3>1. CASE op.at = "ask"
      <4>1. r = [rec EXCEPT !.phase = "resume_requested", !.gone = op.pid] /\ EffectOf(op).store = store
        BY <3>1, Effects
      <4> QED BY <1>k, <4>1
    <3>2. CASE op.at = "resumed" BY <3>2, Effects, <1>k
    <3> QED BY <1>5, <3>1, <3>2
  <2> HIDE DEF r
  <2> QED BY <1>5, <2>1, PhaseAdvances DEF r, Paused, Swapped, Observed, Resuming, CoordInv, RecordOK, OperationOK
<1>6. CASE op.at = "restore"
  BY <1>0, <1>6, Effects DEF CoordInv, OperationOK, Records, DurableOK, StoreQuiet, Paused, Swapped, Observed,
    Resuming
<1>7. CASE op.at = "record"
  <2> DEFINE r == [NoRec EXCEPT !.phase = "prepared", !.pair = upd.pair]
  <2>1. EffectOf(op).rec = r /\ EffectOf(op).store = store BY <1>0, <1>7, Effects
  <2>2. upd.pair \in Nat BY UpdaterShape DEF CoordInv, Original, Target, Newer
  <2>3. r \in Records /\ r.phase = "prepared" /\ r.seen = 0 BY <2>2 DEF Records, NoRec, Phases
  <2> HIDE DEF r
  <2> QED
    BY <1>0, <1>7, <2>1, <2>3, <1>k, <1>p DEF DurableOK, RecordOK, StoreQuiet, ServiceQuiet, HeldOK, Paused, Swapped,
      Observed, Resuming, CoordInv, OperationOK
<1>8. CASE op.at = "request"
  BY <1>0, <1>8, Effects, <1>k, PhaseAdvances DEF Records, Phases, Paused, Swapped, CoordInv, OperationOK, RecordOK,
    Observed, Resuming
<1> QED BY <1>k, <1>1, <1>2, <1>3, <1>4, <1>5, <1>6, <1>7, <1>8 DEF WriteSteps, RunSteps

-----------------------------------------------------------------------------

\* A write and the next step of its operation, by whoever runs it.
LEMMA AfterWrite ==
    ASSUME CoordInv, NEW next, Write(next), UNCHANGED <<upd, svc>>,
           next \in Operations, OperationOK',
           host' \in Machines,
           host'.pids = host.pids, host'.rpc = host.rpc
    PROVE  CoordInv'
<1>1. DurableOK(rec', store') /\ op' = next BY WritesHold DEF Write
<1> QED
  BY <1>1 DEF CoordInv, DurableOK, CoordTypeOK, Machines, UpdaterOK, RecordOK, StoreQuiet, ServiceQuiet, HeldOK,
    Replaced, QuietIn, RequestOK, PausedPolicy, Paused, Swapped, Observed, Resuming

\* The steps that write.
LEMMA OperationWrites ==
    ASSUME CoordInv,
           \/ Prepared \/ AdmitIntent \/ AdmitSwap \/ Requested \/ RunObserved \/ RunStopped
           \/ RunPending \/ RunAcked \/ RunHeld \/ ResumeAsk \/ ResumeRestore
    PROVE  CoordInv'
<1>0. op \in Operations /\ rec \in Records /\ host.pids \in Nat BY DEF CoordInv, CoordTypeOK, Machines
<1>h. /\ UNCHANGED <<upd, svc>>
      /\ host' \in Machines
      /\ host'.pids = host.pids /\ host'.rpc = host.rpc
  BY DEF CoordInv, CoordTypeOK, Machines, Prepared, AdmitIntent, AdmitSwap, Requested, RunObserved, RunStopped,
    RunPending, RunAcked, RunHeld, ResumeAsk, ResumeRestore
<1>k. /\ op.pid \in Nat
      /\ op.kind = "run" <=> op.at \in RunSteps
      /\ op.kind = "resume" <=> op.at \in ResumeSteps BY <1>0, StepKinds DEF CoordInv, OperationOK
<1>1. CASE Prepared \/ Requested \/ RunHeld
  BY <1>1, <1>0, <1>h, NoOperation, AfterWrite DEF Prepared, Requested, RunHeld, Write
<1>2. CASE AdmitIntent
  <2>1. Write(At("swap")) /\ op.at = "intent" /\ op.kind = "admit" BY <1>2 DEF AdmitIntent
  <2>2. At("swap") \in Operations /\ op' = At("swap") /\ op'.kind = "admit" /\ op'.at = "swap" /\ op'.pid = op.pid
    BY <1>0, <2>1, NextStep DEF Write
  <2>3. rec'.phase = "pause_prepared"
    <3>1. rec' = [rec EXCEPT !.phase = "pause_prepared", !.orig = store, !.paused = PauseJson(store)]
      BY <1>0, <2>1, Effects DEF Write, Effect
    <3> QED BY <1>0, <3>1 DEF Records
  <2> QED BY <2>1, <2>2, <2>3, <1>k, <1>h, AfterWrite DEF OperationOK
<1>3. CASE AdmitSwap
  BY <1>3, <1>0, NextStep, Effects, <1>h, <1>k, AfterWrite DEF AdmitSwap, Write, Effect, CoordInv, OperationOK
<1>4. CASE RunObserved \/ RunStopped \/ RunPending \/ RunAcked
  <2>1. PICK a \in RunSteps :
          /\ Write(At(a)) /\ op.kind = "run" /\ op.at \in {"observed", "stopped", "pending", "acked", "recovered"}
          /\ a \in {"stop", "pending", "ack", "start"}
          /\ a = "start" => op.at \in {"acked", "recovered"}
    BY <1>4 DEF RunObserved, RunStopped, RunPending, RunAcked, RunSteps
  <2>2. At(a) \in Operations /\ op' = At(a) /\ op'.kind = "run" /\ op'.at = a /\ op'.pid = op.pid
    BY <1>0, <2>1, NextStep DEF Write
  <2>3. rec'.phase \in Observed \ {"held"} /\ rec'.seen # 0 /\ (a = "start" => rec'.ack # "none")
    <3> USE <1>0 DEF Records, Write, Effect, Observed
    <3>1. CASE op.at = "observed"
      <4>1. rec' = [rec EXCEPT !.phase = "old13_observed", !.seen = op.pid] BY <2>1, <3>1, Effects
      <4> QED BY <1>k, <2>1, <3>1, <4>1 DEF CoordInv, OperationOK
    <3>2. op.at # "observed" => rec.seen # 0 BY <2>1 DEF CoordInv, OperationOK
    <3>3. CASE op.at = "stopped" BY <2>1, <3>2, <3>3, Effects
    <3>4. CASE op.at = "pending" BY <2>1, <3>2, <3>4, Effects
    <3>5. CASE op.at = "acked"
      <4>1. rec' = [rec EXCEPT !.phase = "coordinator_commit_pending", !.ack = "returned"] BY <2>1, <3>5, Effects
      <4> QED BY <3>2, <3>5, <4>1
    <3>6. CASE op.at = "recovered"
      <4>1. rec' = [rec EXCEPT !.phase = "coordinator_commit_pending", !.ack = "recovered"] BY <2>1, <3>6, Effects
      <4> QED BY <3>2, <3>6, <4>1
    <3> QED BY <2>1, <3>1, <3>3, <3>4, <3>5, <3>6
  <2> QED BY <2>1, <2>2, <2>3, <1>k, <1>h, AfterWrite DEF OperationOK, Paused, Swapped, CoordInv
<1>5. CASE ResumeAsk \/ ResumeRestore
  <2>1. PICK a \in {"rstop", "rstart"} :
          Write(At(a)) /\ op.kind = "resume" /\ op.at \in {"ask", "restore"} BY <1>5 DEF ResumeAsk, ResumeRestore
  <2>2. At(a) \in Operations /\ op' = At(a) /\ op'.kind = "resume" /\ op'.at = a /\ op'.pid = op.pid
    BY <1>0, <2>1, NextStep DEF Write, ResumeSteps
  <2>3. rec'.phase = "resume_requested"
    <3> USE <1>0 DEF Records, Write, Effect
    <3>1. CASE op.at = "ask"
      <4>1. rec' = [rec EXCEPT !.phase = "resume_requested", !.gone = op.pid] BY <2>1, <3>1, Effects
      <4> QED BY <3>1, <4>1
    <3>2. CASE op.at = "restore" BY <2>1, <3>2, Effects DEF CoordInv, OperationOK
    <3> QED BY <2>1, <3>1, <3>2
  <2> QED BY <2>1, <2>2, <2>3, <1>k, <1>h, AfterWrite DEF OperationOK
<1> QED BY <1>1, <1>2, <1>3, <1>4, <1>5

\* The daemon starts: it loads what is in the file, and runs the installed pair.
LEMMA StartsHold ==
    ASSUME CoordInv, svc' = Started(host.pids + 1), UNCHANGED <<rec, store, upd>>,
           host' \in Machines,
           host'.pids = host.pids + 1, host'.rpc = host.rpc \/ host'.rpc = "none",
           op' = op \/ op' = NoOp \/ (op'.at \notin {"observed", "held"} /\ op' \in Operations /\ OperationOK')
    PROVE  CoordInv'
<1>0. /\ host.pids \in Nat /\ rec \in Records /\ store \in SUBSET Entries /\ svc'.pid = host.pids + 1
      /\ svc'.version = upd.pair /\ svc'.cached = store /\ svc'.state = upd.state
      /\ op \in Operations /\ op.pid \in Nat BY StepKinds DEF CoordInv, CoordTypeOK, Machines, Started
<1>4. rec.seen # 0 /\ upd.state # "rollback_restart_pending" => Replaced(rec)'
  BY <1>0, UpdaterShape DEF CoordInv, RecordOK, Replaced, Records
<1> QED
  BY <1>0, <1>4, NoOperation, StepKinds, UpdaterShape DEF CoordInv, CoordTypeOK, Machines, Started, UpdaterOK,
    RecordOK, StoreQuiet, QuietIn, Records, ServiceQuiet, HeldOK, Observed, OperationOK, RunSteps, RequestOK,
    PausedPolicy

\* The daemon stops, and with it the request it works on.
LEMMA StopsHold ==
    ASSUME CoordInv, svc' = Stopped, UNCHANGED <<rec, store, upd>>,
           host' \in Machines,
           host'.pids = host.pids, host'.rpc = "none",
           op' = op \/ op' = NoOp \/ (op'.at # "held" /\ op' \in Operations /\ OperationOK')
    PROVE  CoordInv'
<1>0. host.pids \in Nat /\ rec \in Records /\ svc'.pid = 0 /\ op \in Operations /\ op.pid \in Nat
  BY StepKinds DEF CoordInv, CoordTypeOK, Machines, Stopped
<1>3. ServiceQuiet(rec)' /\ (rec.seen # 0 => Replaced(rec)') BY <1>0 DEF ServiceQuiet, Replaced
<1> QED
  BY <1>0, <1>3, NoOperation, StepKinds DEF CoordInv, CoordTypeOK, Machines, Stopped, UpdaterOK, RecordOK, StoreQuiet,
    QuietIn, Records, HeldOK, Observed, OperationOK, RunSteps, RequestOK

-----------------------------------------------------------------------------

\* The three ways an operation is taken up.
LEMMA AdmitBegins ==
    ASSUME CoordInv, NEW by \in {"daemon", "worker"}, AdmitFrom(by), UNCHANGED <<rec, upd, svc>>,
           host'.pids = host.pids
    PROVE  op' \in Operations /\ OperationOK'
<1> QED BY DEF CoordInv, CoordTypeOK, Machines, OperationOK, AdmitFrom, Begin, Operations

\* The worker takes the requested run up under the operation lock.
LEMMA RunBegins ==
    ASSUME CoordInv, RunFrom, TargetPair, rec.phase \in Paused \ {"held"}, UNCHANGED <<rec, upd, svc>>,
           host'.pids = host.pids
    PROVE  op' \in Operations /\ OperationOK'
<1>0. rec.seen \in Nat /\ rec.seen <= host.pids /\ host.pids \in Nat
  BY DEF CoordInv, CoordTypeOK, Machines, RecordOK, Records
<1> QED
  BY <1>0 DEF OperationOK, TargetPair, Target, Original, RunFrom, Begin, Operations, RunSteps, CoordInv, RecordOK,
    Observed

\* A stopped run is taken up again, by the worker or by the administrator.
LEMMA ResumeBegins ==
    ASSUME CoordInv, NEW by \in {"worker", "admin"}, ResumeFrom(by), UNCHANGED <<rec, upd, svc>>,
           host'.pids = host.pids
    PROVE  op' \in Operations /\ OperationOK'
<1>0. svc.pid \in Nat /\ rec.gone \in Nat BY DEF CoordInv, CoordTypeOK, Machines, Records
<1>1. /\ op'.kind = "resume" /\ op'.at \in {"ask", "rstart", "restore"}
      /\ op' \in Operations
      /\ op'.at = "ask" => rec.phase \in {"held", "profiles_paused", "resume_requested"}
      /\ op'.at # "ask" => rec.phase = "resume_requested"
  <2>1. CASE op' = [kind |-> "resume", at |-> "ask", by |-> by, pid |-> svc.pid]
    BY <1>0, <2>1 DEF ResumeFrom, Operations, ResumeSteps
  <2>2. CASE /\ rec.phase = "resume_requested"
             /\ op' = [kind |-> "resume", at |-> IF store = rec.orig THEN "rstart" ELSE "restore",
                        by |-> by, pid |-> rec.gone] BY <1>0, <2>2 DEF Operations, ResumeSteps
  <2> QED BY <2>1, <2>2 DEF ResumeFrom, Begin
<1> QED BY <1>0, <1>1 DEF OperationOK

\* The steps that take up, continue or end an operation without a write.
LEMMA OperationMoves ==
    ASSUME CoordInv,
           \/ Prepare \/ RollbackRequested \/ WorkerStarts \/ Observe \/ StepFails \/ FinalObserved
           \/ Resume \/ ResumeAgain
    PROVE  CoordInv'
<1>0. /\ op \in Operations /\ rec \in Records /\ host.pids \in Nat /\ svc.pid \in Nat /\ svc.pid <= host.pids
  BY DEF CoordInv, CoordTypeOK, Machines, RequestOK
<1>h. /\ UNCHANGED <<rec, store, upd, svc>>
      /\ host' \in Machines
      /\ host'.pids = host.pids /\ (host'.rpc = host.rpc \/ host'.rpc # "rollback")
  BY ZenonT(40) DEF CoordInv, CoordTypeOK, Machines, Prepare, RollbackRequested, WorkerStarts, Observe, StepFails,
    FinalObserved, Resume, ResumeAgain
<1>s. ASSUME UNCHANGED op PROVE CoordInv' BY <1>h, <1>s, <1>0, OnlyOperation DEF CoordInv, OperationOK, Replaced
<1>n. ASSUME op' = NoOp PROVE CoordInv' BY <1>0, <1>h, <1>n, NoOperation, OnlyOperation
<1>1. CASE Prepare BY <1>s, <1>0, <1>h, OnlyOperation, <1>1 DEF Begin, Operations, NoRec, OperationOK, Prepare
<1>2. CASE RollbackRequested
  BY <1>2, <1>0, <1>h, OnlyOperation DEF RollbackRequested, Begin, Operations, PendingEvidence, TargetPair, Target,
    Original, OperationOK
<1>3. CASE WorkerStarts
  BY <1>3, <1>h, AdmitBegins, ResumeBegins, RunBegins, <1>s, OnlyOperation DEF WorkerStarts, Paused, Swapped, Observed
<1>4. CASE Observe
  <2>1. /\ op' = [op EXCEPT !.at = "observed", !.pid = svc.pid] /\ op.kind = "run" /\ svc.pid # 0
    BY <1>4 DEF Observe, Healthy, Observable
  <2>2. op' \in Operations /\ op'.kind = "run" /\ op'.at = "observed" /\ op'.pid = svc.pid
    BY <1>0, <2>1 DEF Operations, RunSteps
  <2> QED BY <1>0, <2>1, <2>2, <1>h, OnlyOperation DEF CoordInv, OperationOK
<1>5. CASE StepFails BY <1>5, <1>n DEF StepFails
<1>6. CASE FinalObserved
  BY <1>n, <1>6, <1>0, NextStep, <1>h, StepKinds, OnlyOperation DEF FinalObserved, RunSteps, Replaced, Healthy,
    CoordInv, OperationOK
<1>7. CASE Resume BY <1>7, <1>h, ResumeBegins, OnlyOperation DEF Resume
<1>8. CASE ResumeAgain BY <1>8, <1>s DEF ResumeAgain
<1> QED BY <1>1, <1>2, <1>3, <1>4, <1>5, <1>6, <1>7, <1>8

\* The steps that start or stop the daemon.
LEMMA ServiceMoves ==
    ASSUME CoordInv,
           \/ WorkerStartsService \/ StopObserved \/ StartFinal \/ ResumeStop \/ ResumeStart
           \/ DaemonRestarts \/ ServiceStopped \/ ServiceStarted
    PROVE  CoordInv'
<1> USE DEF Machines
<1>0. op \in Operations /\ host.pids \in Nat /\ host \in Machines /\ UNCHANGED <<rec, store, upd>>
  BY DEF CoordInv, CoordTypeOK, Machines, WorkerStartsService, StopObserved, StartFinal, ResumeStop, ResumeStart,
    DaemonRestarts, ServiceStopped, ServiceStarted
<1>1. CASE WorkerStartsService
  <2>1. host' \in Machines /\ host'.pids = host.pids + 1 /\ host'.rpc = host.rpc
    <3> DEFINE n == host.pids + 1
    <3>1. n \in Nat /\ host' = [host EXCEPT !.pids = n, !.restart = FALSE] BY <1>0, <1>1 DEF WorkerStartsService
    <3> HIDE DEF n
    <3>2. host' \in Machines /\ host'.pids = n /\ host'.rpc = host.rpc BY <1>0, <3>1
    <3> QED BY <3>2 DEF n
  <2> QED BY <1>0, <1>1, <2>1, StartsHold DEF WorkerStartsService
<1>2. CASE StopObserved \/ ResumeStop
  BY <1>0, NoOperation, OnlyOperation, <1>2, NextStep, StopsHold DEF StopObserved, ResumeStop, StopExactly, RunSteps,
    ResumeSteps, CoordInv, OperationOK
<1>3. CASE StartFinal \/ ResumeStart
  BY <1>3, <1>0, NextStep, OnlyOperation, StartsHold DEF StartFinal, ResumeStart, RunSteps, ResumeSteps, CoordInv,
    OperationOK
<1>4. CASE DaemonRestarts
  <2>1. host' \in Machines /\ host'.pids = host.pids + 1 /\ host'.rpc = "none"
    <3> DEFINE n == host.pids + 1
    <3>1. n \in Nat /\ host' = [host EXCEPT !.pids = n, !.restart = FALSE, !.rpc = "none"]
      BY <1>0, <1>4 DEF DaemonRestarts
    <3> HIDE DEF n
    <3>2. host' \in Machines /\ host'.pids = n /\ host'.rpc = "none" BY <1>0, <3>1
    <3> QED BY <3>2 DEF n
  <2> QED BY <1>0, <1>4, <2>1, StartsHold DEF DaemonRestarts, Survives
<1>5. CASE ServiceStopped
  <2>1. host' \in Machines /\ host'.pids = host.pids /\ host'.rpc = "none" BY <1>0, <1>5 DEF ServiceStopped
  <2> QED BY <1>0, <1>5, <2>1, StopsHold DEF ServiceStopped, Survives
<1>6. CASE ServiceStarted BY <1>0, <1>6, StartsHold DEF ServiceStarted
<1> QED BY <1>1, <1>2, <1>3, <1>4, <1>5, <1>6

\* The daemon admits the rollback, or finds it admitted and loads the profiles.
LEMMA UpdateRollbackHolds ==
    ASSUME CoordInv, UpdateRollback
    PROVE  CoordInv'
<1>0. op \in Operations /\ UNCHANGED <<rec, store, upd>> /\ rec \in Records /\ store \in SUBSET Entries
  BY DEF CoordInv, CoordTypeOK, Machines, UpdateRollback
<1>1. CASE AdmitFrom("daemon") /\ host' = [host EXCEPT !.rpc = "admit"] /\ UNCHANGED svc
  BY <1>1, <1>0, AdmitBegins, OnlyOperation DEF CoordInv, CoordTypeOK, Machines
<1>2. CASE /\ rec.phase = "profiles_paused" /\ PausedPolicy /\ svc' = [svc EXCEPT !.cached = store]
           /\ host' = [host EXCEPT !.rpc = "rollback"] /\ UNCHANGED op
  BY <1>2, <1>0, PausedIsQuiet DEF CoordInv, CoordTypeOK, Machines, UpdaterOK, RecordOK, StoreQuiet, HeldOK,
    OperationOK, Replaced, QuietIn, PausedPolicy, Paused, ServiceQuiet, RequestOK
<1> QED BY <1>1, <1>2 DEF UpdateRollback

\* The last write of an admission; the daemon that made it loads the profiles.
LEMMA AdmitPausedHolds ==
    ASSUME CoordInv, AdmitPaused
    PROVE  CoordInv'
<1>0. /\ op \in Operations /\ rec \in Records /\ store \in SUBSET Entries /\ op.at = "paused"
      /\ Write(NoOp) /\ upd' = upd /\ op' = NoOp /\ rec.phase = "pause_prepared"
      /\ rec' = EffectOf(op).rec /\ store' = EffectOf(op).store
  BY DEF CoordInv, CoordTypeOK, Machines, AdmitPaused, OperationOK, Write
<1>1. DurableOK(rec', store') /\ store' = store /\ rec'.phase = "profiles_paused"
  BY <1>0, WritesHold, Effects DEF WriteSteps, Effect, Records
<1>2. CASE UNCHANGED <<svc, host>> BY <1>0, <1>2, NoOperation, AfterWrite DEF CoordInv, CoordTypeOK, Machines
<1>3. CASE svc' = [svc EXCEPT !.cached = store] /\ host' = [host EXCEPT !.rpc = "rollback"]
  BY <1>3, <1>0, NoOperation, <1>1 DEF CoordInv, CoordTypeOK, Machines, UpdaterOK, DurableOK, RecordOK, StoreQuiet,
    HeldOK, Replaced, QuietIn, ServiceQuiet, Paused, Swapped, Observed, Resuming, RequestOK
<1> QED BY <1>2, <1>3 DEF AdmitPaused

\* The swap of the pair: the profiles are paused in the file and in the daemon.
LEMMA ManagerRollbackHolds ==
    ASSUME CoordInv, ManagerRollback
    PROVE  CoordInv'
<1>0. /\ op = NoOp /\ rec.phase = "profiles_paused" /\ PausedPolicy /\ host.rpc = "rollback"
      /\ UNCHANGED <<rec, store, svc, op>> /\ rec \in Records /\ op \in Operations
  BY DEF ManagerRollback, CoordInv, CoordTypeOK, Machines
<1>h. /\ host'.pids = host.pids /\ host'.rpc # "rollback" /\ host.pids \in Nat
      /\ host' \in Machines BY DEF ManagerRollback, CoordInv, CoordTypeOK, Machines
<1>n. op' \in Operations /\ OperationOK' BY <1>0, <1>h, NoOperation
<1>1. CASE UNCHANGED upd BY <1>0, <1>1, <1>h, <1>n, OnlyOperation
<1>2. CASE upd.pair = Original /\ upd' = [pair |-> Target, state |-> "rollback_restart_pending", journal |-> TRUE]
  BY <1>2, <1>0, PausedIsQuiet, <1>h, <1>n DEF CoordInv, RecordOK, PausedPolicy, Paused, RequestOK, Swapped, Observed,
    Target, Original, StoreQuiet, ServiceQuiet, QuietIn, HeldOK, CoordTypeOK, Machines, UpdaterOK
<1> QED BY <1>1, <1>2 DEF ManagerRollback

\* The acknowledgement ends the updater's rollback.
LEMMA AcknowledgeHolds ==
    ASSUME CoordInv, Acknowledge
    PROVE  CoordInv'
<1>0. /\ op \in Operations /\ op.kind = "run" /\ op.at = "ack" /\ UNCHANGED <<rec, store, svc, host>>
      /\ host.pids \in Nat /\ host \in Machines BY DEF CoordInv, CoordTypeOK, Machines, Acknowledge
<1>1. CASE op' = NoOp /\ UNCHANGED upd BY <1>0, <1>1, NoOperation, OnlyOperation
<1>2. CASE /\ upd.state = "rollback_restart_pending" /\ op' = At("acked")
           /\ upd' = [upd EXCEPT !.state = "disabled", !.journal = FALSE]
  <2>1. upd = [pair |-> Target, state |-> "rollback_restart_pending", journal |-> TRUE]
    BY <1>2 DEF CoordInv, UpdaterOK
  <2>2. upd' = [pair |-> Target, state |-> "disabled", journal |-> FALSE] BY <1>2, <2>1
  <2>3. upd'.pair = upd.pair /\ upd'.state = "disabled" BY <2>1, <2>2
  <2>4. op' \in Operations /\ op'.kind = "run" /\ op'.at = "acked" BY <1>0, <1>2, NextStep DEF RunSteps
  <2>5. rec.phase \in Paused \ {"held"} /\ rec.seen # 0 /\ upd.pair # Original BY <1>0 DEF CoordInv, OperationOK
  <2> QED
    BY <1>0, <2>2, <2>3, <2>4, <2>5 DEF CoordInv, RecordOK, StoreQuiet, ServiceQuiet, HeldOK, QuietIn, RequestOK,
      PausedPolicy, OperationOK, CoordTypeOK, UpdaterOK
<1> QED BY <1>1, <1>2 DEF Acknowledge

\* The last write of a resume, or none.
LEMMA ResumedHolds ==
    ASSUME CoordInv, Resumed
    PROVE  CoordInv'
<1>0. op' = NoOp /\ UNCHANGED <<upd, svc>> /\ host.pids \in Nat /\ host \in Machines
  BY DEF CoordInv, CoordTypeOK, Machines, Resumed, Write
<1>1. host' \in Machines /\ host'.pids = host.pids /\ host'.rpc = host.rpc BY <1>0 DEF Resumed, Machines
<1> QED BY <1>0, <1>1, NoOperation, AfterWrite, OnlyOperation DEF Resumed

\* A profile the daemon imports is none of those it has loaded, and so none of
\* the paused ones.
LEMMA ImportHolds ==
    ASSUME CoordInv, NEW id \in Profiles, NEW auto \in BOOLEAN, Import(id, auto)
    PROVE  CoordInv'
<1> DEFINE s == svc.cached \cup {Entry(id, auto)}
<1>0. /\ svc.pid # 0 /\ host.rpc = "none" /\ UNCHANGED <<rec, upd, op, host>>
      /\ \A e \in svc.cached : e.id # id
      /\ svc' = [svc EXCEPT !.cached = s] /\ store' = s BY DEF Import
<1>1. Entry(id, auto) \in Entries /\ Entry(id, auto).id = id BY DEF Entry, Entries
<1>2. s \in SUBSET Entries BY <1>1 DEF CoordInv, CoordTypeOK
<1>3. /\ svc'.pid = svc.pid /\ svc'.version = svc.version /\ svc'.state = svc.state /\ svc'.cached = s
  BY <1>0 DEF CoordInv, CoordTypeOK
<1>4. QuietIn(rec, svc.cached) => QuietIn(rec, s) BY <1>0, <1>1 DEF QuietIn
<1> HIDE DEF s
<1> QED
  BY <1>0, <1>2, <1>3, <1>4 DEF CoordInv, RecordOK, HeldOK, OperationOK, Replaced, CoordTypeOK, UpdaterOK, StoreQuiet,
    ServiceQuiet, QuietIn, RequestOK

\* An update leaves the release that was rolled back to for a newer one.
LEMMA AutoUpdateHolds ==
    ASSUME CoordInv, AutoUpdate
    PROVE  CoordInv'
<1>0. /\ UNCHANGED <<rec, store, svc, op>> /\ host' = [host EXCEPT !.restart = TRUE] /\ host.rpc = "none"
      /\ upd' = [upd EXCEPT !.pair = Newer, !.state = "idle"] /\ ~upd.journal BY DEF AutoUpdate
<1>1. upd' = [pair |-> Newer, state |-> "idle", journal |-> FALSE]
  <2>1. CASE upd = [pair |-> Original, state |-> "idle", journal |-> FALSE] BY <1>0, <2>1
  <2>2. CASE upd = [pair |-> Newer, state |-> "idle", journal |-> FALSE] BY <1>0, <2>2
  <2>3. CASE upd = [pair |-> Target, state |-> "disabled", journal |-> FALSE] BY <1>0, <2>3
  <2>4. CASE upd = [pair |-> Target, state |-> "rollback_restart_pending", journal |-> TRUE] BY <1>0, <2>4
  <2> QED BY <2>1, <2>2, <2>3, <2>4 DEF CoordInv, UpdaterOK
<1>2. upd'.pair # Target /\ upd'.pair # Original /\ upd'.state # "rollback_restart_pending"
  BY <1>1 DEF Newer, Target, Original
<1>3. host' \in Machines /\ host'.pids = host.pids /\ host'.rpc = "none" BY <1>0 DEF CoordInv, CoordTypeOK, Machines
<1>4. CoordTypeOK' /\ UpdaterOK' BY <1>0, <1>1, <1>3 DEF CoordInv, CoordTypeOK, UpdaterOK
<1> QED
  BY <1>0, <1>2, <1>3, <1>4 DEF CoordInv, RecordOK, HeldOK, OperationOK, Replaced, StoreQuiet, ServiceQuiet, QuietIn,
    RequestOK

\* The power fails, before or after the write in progress; the daemon that boots
\* reads what is there.
LEMMA PowerFailsHolds ==
    ASSUME CoordInv, PowerFails
    PROVE  CoordInv'
<1> PICK written \in BOOLEAN, stray \in BOOLEAN :
        /\ op.at \notin WriteSteps => ~written /\ ~stray
        /\ rec' = IF written THEN EffectOf(op).rec ELSE rec
        /\ store' = IF written THEN EffectOf(op).store ELSE store
        /\ host' = [host EXCEPT !.stray = @ \/ stray, !.worker = host.unit,
                                !.restart = FALSE, !.rpc = "none", !.pids = @ + 1,
                                !.crashes = @ + 1]
        /\ svc' = [pid |-> host.pids + 1, version |-> upd.pair,
                   cached |-> IF written THEN EffectOf(op).store ELSE store,
                   state |-> upd.state] BY DEF PowerFails
<1>0. op' = NoOp /\ upd' = upd /\ host.pids \in Nat /\ host.crashes \in Nat /\ host \in Machines
  BY DEF PowerFails, CoordInv, CoordTypeOK, Machines
<1>1. /\ rec' \in Records /\ store' \in SUBSET Entries /\ RecordOK(rec') /\ StoreQuiet(rec', store')
  BY WritesHold DEF DurableOK, CoordInv, CoordTypeOK
<1>2. host' \in Machines /\ host'.pids = host.pids + 1 /\ host'.rpc = "none" /\ host'.pids \in Nat
  <2> DEFINE n == host.pids + 1
             c == host.crashes + 1
             t == host.stray \/ stray
  <2>1. /\ n \in Nat /\ c \in Nat
        /\ host' = [host EXCEPT !.stray = t, !.worker = host.unit, !.restart = FALSE, !.rpc = "none",
                                !.pids = n, !.crashes = c] BY <1>0
  <2>2. t \in BOOLEAN OBVIOUS
  <2> HIDE DEF n, c, t
  <2>3. host' \in Machines /\ host'.pids = n /\ host'.rpc = "none" BY <1>0, <2>1, <2>2, Zenon DEF Machines
  <2> QED BY <2>1, <2>3 DEF n
<1>3. svc'.pid = host.pids + 1 /\ svc'.version = upd.pair /\ svc'.cached = store' /\ svc'.state = upd.state OBVIOUS
<1>5. op' \in Operations /\ OperationOK' BY <1>0, <1>2, NoOperation
<1> QED
  BY <1>0, <1>1, <1>2, <1>3, <1>5, UpdaterShape DEF CoordInv, RecordOK, StoreQuiet, QuietIn, Records, ServiceQuiet,
    HeldOK, Replaced, RequestOK, CoordTypeOK, UpdaterOK

\* Before the first operation the original pair runs with its profiles.
LEMMA CoordInitHolds == CoordInit => CoordInv
<1> SUFFICES ASSUME CoordInit PROVE CoordInv OBVIOUS
<1>0. {Entry(id, TRUE) : id \in AutoAtStart} \in SUBSET Entries
  <2>1. \A id \in AutoAtStart : Entry(id, TRUE) \in Entries BY CoordAssumption, Zenon DEF Entry, Entries
  <2> QED BY <2>1
<1>1. /\ rec = NoRec /\ rec \in Records /\ rec.phase = "none" /\ rec.seen = 0 BY DEF CoordInit, NoRec, Records, Phases
<1>2. op = NoOp /\ op \in Operations BY DEF CoordInit, NoOp, Operations
<1>3. store \in SUBSET Entries BY <1>0 DEF CoordInit
<1>4. /\ svc.pid = 1 /\ svc.version = Original
      /\ svc \in [pid : Nat, version : {0, Original, Target, Newer}, cached : SUBSET Entries,
                  state : {"none", "idle", "disabled", "rollback_restart_pending"}] BY <1>0 DEF CoordInit
<1>6. host \in Machines
  <2> DEFINE n == 1
             c == 0
  <2>1. n \in Nat /\ c \in Nat OBVIOUS
  <2>2. host = [worker |-> FALSE, unit |-> FALSE, restart |-> FALSE, rpc |-> "none",
                stray |-> FALSE, pids |-> n, crashes |-> c] BY DEF CoordInit
  <2> HIDE DEF n, c
  <2> QED BY <2>1, <2>2, Zenon DEF Machines
<1>7. upd = [pair |-> Original, state |-> "idle", journal |-> FALSE] BY DEF CoordInit
<1>10. RecordOK(rec) /\ StoreQuiet(rec, store) /\ ServiceQuiet(rec) /\ HeldOK(rec) /\ RequestOK
  BY <1>1, <1>4, <1>7 DEF RecordOK, StoreQuiet, ServiceQuiet, HeldOK, RequestOK, Paused, Swapped, Observed, Resuming,
    CoordInit, Original, Target
<1> QED BY <1>1, <1>2, <1>3, <1>4, <1>6, <1>7, <1>10 DEF CoordInv, OperationOK, NoOp, CoordTypeOK, UpdaterOK

\* A rollback that the coordinator reports as held is finished and stays quiet
\* until it is resumed, for every set of profiles and whatever operation,
\* restart, import, update or power failure comes in between
\* (RollbackCoordinator::admitRollback, run and resume).
THEOREM RollbackHolds == CoordSpec => []RollbackIsHeld
<1>1. CoordInit => CoordInv BY CoordInitHolds
<1>2. CoordInv /\ [CoordStep]_coordVars => CoordInv'
  <2> SUFFICES ASSUME CoordInv, [CoordStep]_coordVars PROVE CoordInv' OBVIOUS
  <2>1. CASE UNCHANGED coordVars BY <2>1, OnlyOperation DEF coordVars, CoordInv, OperationOK, Replaced, CoordTypeOK
  <2>2. CASE CoordStep
    BY <2>2, OperationWrites, OperationMoves, ServiceMoves, UpdateRollbackHolds, AdmitPausedHolds,
      ManagerRollbackHolds, AcknowledgeHolds, ResumedHolds, ImportHolds, AutoUpdateHolds, PowerFailsHolds DEF
      CoordStep
  <2> QED BY <2>1, <2>2
<1>3. CoordInv => RollbackIsHeld
  BY UpdaterShape DEF RollbackIsHeld, QuietAfterRollback, CoordInv, ServiceQuiet, Resuming, QuietIn, AutoOf, HeldOK,
    Replaced, RecordOK, HeldIsCommitted
<1> QED BY <1>1, <1>2, <1>3, PTL DEF CoordSpec
=============================================================================
